----------------------------- MODULE MCEosStream -----------------------------
(***************************************************************************)
(* Streams for EosStream.  They are built from the actions of EosSamples   *)
(* and the form of the TLV lengths by an encoder that was not derived from *)
(* the parser.  The chain id, which is only hashed, is cut from 32 bytes   *)
(* to 3.                                                                   *)
(***************************************************************************)
EXTENDS EosBytewise, EosSamples

ActionFields(a) ==
    <<NameBytes(a.contract), NameBytes(a.action), <<a.authorizations>> >>
    \o [i \in 1..(2 * a.authorizations) |-> NameBytes(alice)]
    \o << <<Len(a.data)>>, a.data>>

HeaderValues ==
    << <<171, 205, 239>>, <<1, 2, 3, 4>>, <<5, 6>>, <<7, 8, 9, 10>>, <<0>>, <<11>>, <<0>> >>

(* All fields of a transaction with these actions, announced as number.    *)
Fields(actions, number) ==
    HeaderValues \o << <<0>>, <<number>> >>
    \o FlattenSeq([i \in 1..Len(actions) |-> ActionFields(actions[i])])
    \o << <<0>>, <<0, 0>> >>

(* The forms of a length: short, or long with one to four bytes.           *)
TlvHeader(form, n) ==
    CASE form = "short" -> <<4, n>>
      [] form = "long1" -> <<4, 129, n>>
      [] form = "long2" -> <<4, 130, 0, n>>
      [] form = "long3" -> <<4, 131, 0, 0, n>>
      [] form = "long4" -> <<4, 132, 0, 0, 0, n>>

Encode(fields, form) ==
    FlattenSeq([i \in 1..Len(fields) |-> TlvHeader(form, Len(fields[i])) \o fields[i]])

IsUnknown(a) == ~(a.action = transfer \/ a.contract = eosio)

Review1(a, index, number) ==
    [contract |-> a.contract, action |-> a.action, index |-> index, number |-> number,
     arguments |-> Len(a.pages),
     data |-> IF IsUnknown(a) THEN <<>> ELSE a.data,
     checksum |-> IF IsUnknown(a) THEN <<Len(a.data)>> \o a.data ELSE <<>>]

Reviews(actions, number) == [i \in 1..Len(actions) |-> Review1(actions[i], i, number)]

Stream(bytes, values, actions, allowed, verdict) ==
    [bytes |-> bytes, values |-> values, actions |-> actions,
     dataAllowed |-> allowed, verdict |-> verdict]

WellFormed(actions, form, allowed) ==
    LET fields == Fields(actions, Len(actions))
    IN  Stream(Encode(fields, form), FlattenSeq(fields), Reviews(actions, Len(actions)),
               allowed, "STREAM_FINISHED")

----------------------------------------------------------------------------
Accepted ==
    {WellFormed(<<Transfer>>, "short", FALSE),
     WellFormed(<<TransferMemo>>, "long3", FALSE),
     WellFormed(<<Unknown, UnknownEmpty, Refund>>, "short", TRUE),
     WellFormed(<<BuyRam, Unknown>>, "long1", TRUE),
     WellFormed(<<UpdateAuth>>, "long2", FALSE),
     WellFormed(<<VoteProxy, UpdateAuthLists>>, "short", FALSE),
     WellFormed(<<Vote, SellRam>>, "short", FALSE),
     WellFormed(<<Delegate, LinkAuth>>, "short", TRUE),
     WellFormed(<<Undelegate, BuyRamBytes, DeleteAuth, UnlinkAuth>>, "short", FALSE),
     WellFormed(<<NewAccount>>, "short", FALSE)}

(* A list announced as empty, with one action; no context free data.       *)
EmptyList ==
    LET fields == Front(Fields(<<Refund>>, 0)) \o << <<>> >>
    IN  Stream(Encode(fields, "short"), FlattenSeq(fields), Reviews(<<Refund>>, 0),
               FALSE, "STREAM_FINISHED")

(* The field for context free data is hashed, and its value not looked at. *)
SomeContextFreeData ==
    LET fields == Front(Fields(<<Refund>>, 1)) \o << <<7>> >>
    IN  Stream(Encode(fields, "short"), FlattenSeq(fields), Reviews(<<Refund>>, 1),
               FALSE, "STREAM_FINISHED")

(* An action name of twelve bytes, which fills four bytes of sizeBuffer.   *)
LongName ==
    LET fields == [Fields(<<Refund>>, 1) EXCEPT ![11] = @ \o <<3, 3, 3, 3>>]
    IN  Stream(Encode(fields, "short"), FlattenSeq(fields), Reviews(<<Refund>>, 1),
               FALSE, "STREAM_FINISHED")

(* Streams that are not accepted, and the reviews before the verdict.      *)
Broken(fields, verdict) == Stream(Encode(fields, "short"), <<>>, <<>>, FALSE, verdict)

Rejected ==
    {Broken(Fields(<<Unknown>>, 1), "STREAM_FAULT"),
     Broken([Fields(<<Refund>>, 1) EXCEPT ![8] = <<129, 1>>], "ASSERT"),
     Broken([Fields(<<Refund>>, 1) EXCEPT ![11] = @ \o [i \in 1..7 |-> i]], "ASSERT"),
     Broken([Fields(<<Refund>>, 1) EXCEPT ![16] = [i \in 1..104 |-> i]], "ASSERT"),
     Broken(Fields(<<[UpdateAuth EXCEPT !.data = SubSeq(@, 1, 28)]>>, 1), "ASSERT"),
     Broken(Fields(<<[UpdateAuth EXCEPT !.data = SubSeq(@, 1, 66)]>>, 1), "ASSERT"),
     Broken(Fields(<<[NewAccount EXCEPT !.data[58] = 2]>>, 1), "ASSERT"),
     Stream(<<4, 1, 7, 5, 1, 7>>, <<>>, <<>>, TRUE, "STREAM_FAULT"),
     Stream(<<4, 133>>, <<>>, <<>>, TRUE, "STREAM_FAULT"),
     Stream(Encode(Fields(<<Refund>>, 1), "long4"), <<>>, <<>>, TRUE, "STREAM_FAULT"),
     Stream(Front(Encode(Fields(<<Refund>>, 1), "short")), <<>>, Reviews(<<Refund>>, 1),
            TRUE, "STREAM_PROCESSING")}

MCTransactions == Accepted \cup {EmptyList, SomeContextFreeData, LongName} \cup Rejected

(* What the encoder says of these streams is what their bytes say to the   *)
(* reader of EosBytewise: the hypothesis of the theorems about them.  (By  *)
(* halves, for the sake of TLC's stack.)                                   *)
RECURSIVE ReadAll(_, _)
ReadAll(r, bytes) ==
    IF Len(bytes) = 1 THEN ReadByte(r, bytes[1])
    ELSE LET half == Len(bytes) \div 2
         IN  CHOOSE end \in {ReadAll(middle, SubSeq(bytes, half + 1, Len(bytes))) :
                                middle \in {ReadAll(r, SubSeq(bytes, 1, half))}} : TRUE

ASSUME SamplesMeanWhatIsRead ==
    Transactions = MCTransactions =>
        \A t \in Transactions : MeansWhatIsRead(t, ReadAll(Reader(t), t.bytes))
ASSUME ReadAllIsResult ==
    \A t \in {u \in Transactions : Len(u.bytes) < 80} :
        Result(t) = ReadAll(Reader(t), t.bytes)
=============================================================================
