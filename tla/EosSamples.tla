----------------------------- MODULE EosSamples -----------------------------
(***************************************************************************)
(* Actions for the instances that are model checked: one at least of every *)
(* kind src/eos_stream.c knows.  An action is written down as its sender   *)
(* means it, and turned into bytes by an encoder that owes nothing to the  *)
(* parser: names as symbols, the data, and the pages of a review.          *)
(***************************************************************************)
EXTENDS EosActions, SequencesExt

(* EOSIO names: five bits a symbol, the first symbol in the highest bits,  *)
(* four bits for a thirteenth; stored as a little-endian uint64_t.         *)
NameBytes(name) ==
    LET symbol(p) == IF p <= Len(name) THEN name[p] ELSE 0
        bit(n) == IF n < 4
                  THEN (symbol(13) \div 2 ^ n) % 2
                  ELSE LET p == ((63 - n) \div 5) + 1
                       IN  (symbol(p) \div 2 ^ (n - (64 - 5 * p))) % 2
    IN  [j \in 1..8 |-> FoldFunction(+, 0, [b \in 0..7 |-> bit(8 * (j - 1) + b) * 2 ^ b])]

(* Symbols: "." is 0, "1" to "5" are 1 to 5, "a" to "z" are 6 to 31.       *)
eosio == <<10, 20, 24, 14, 20>>
token == <<10, 20, 24, 14, 20, 0, 25, 20, 16, 10, 19>>
transfer == <<25, 23, 6, 19, 24, 11, 10, 23>>
refund == <<23, 10, 11, 26, 19, 9>>
buyram == <<7, 26, 30, 23, 6, 18>>
delegatebw == <<9, 10, 17, 10, 12, 6, 25, 10, 7, 28>>
voteproducer == <<27, 20, 25, 10, 21, 23, 20, 9, 26, 8, 10, 23>>
updateauth == <<26, 21, 9, 6, 25, 10, 6, 26, 25, 13>>
newaccount == <<19, 10, 28, 6, 8, 8, 20, 26, 19, 25>>
sellram == <<24, 10, 17, 17, 23, 6, 18>>
linkauth == <<17, 14, 19, 16, 6, 26, 25, 13>>
undelegatebw == <<26, 19, 9, 10, 17, 10, 12, 6, 25, 10, 7, 28>>
buyrambytes == <<7, 26, 30, 23, 6, 18, 7, 30, 25, 10, 24>>
deleteauth == <<9, 10, 17, 10, 25, 10, 6, 26, 25, 13>>
unlinkauth == <<26, 19, 17, 14, 19, 16, 6, 26, 25, 13>>
alice == <<6, 17, 14, 8, 10>>
lucky == <<17, 26, 8, 16, 30, 0, 1, 2, 3, 4, 5, 31, 15>>     \* thirteen symbols

----------------------------------------------------------------------------
(* The page of an argument: its label with the number of the list entry    *)
(* (or 0), what kind of thing it is, and the symbols of a name or else the *)
(* bytes to be formatted.  A constant text is a kind of its own.           *)
Argument(label, number, kind, text) ==
    [label |-> label, number |-> number, kind |-> kind, text |-> text]
NameArg(label, name) == Argument(label, 0, "name", name)
ListArg(label, number, kind, text) == Argument(label, number, kind, text)

Action(contract, action, authorizations, data, pages) ==
    [contract |-> contract, action |-> action, authorizations |-> authorizations,
     data |-> data, pages |-> pages]

Asset == <<16, 39, 0, 0, 0, 0, 0, 0, 4, 69, 79, 83, 0, 0, 0, 0>>
Asset2 == <<1, 0, 0, 0, 0, 0, 0, 0, 0, 65, 66, 67, 68, 69, 70, 71>>
Bytes4 == <<0, 4, 0, 0>>
Bytes8 == <<1, 2, 0, 0, 0, 0, 0, 0>>
TwoNames == NameBytes(alice) \o NameBytes(lucky)
RawKey(first) == [i \in 1..PublicKeySize |-> first + i]
Key(first) == <<0>> \o RawKey(first)
Authority(key) == <<1, 0, 0, 0, 1>> \o key \o <<1, 0, 0, 0>>

Transfer == Action(token, transfer, 1, TwoNames \o Asset \o <<0>>,
    <<NameArg("From", alice), NameArg("To", lucky), Argument("Quantity", 0, "asset", Asset)>>)
TransferMemo == Action(token, transfer, 1, TwoNames \o Asset \o <<2, 72, 105>>,
    Append(Transfer.pages, Argument("Memo", 0, "string", <<72, 105>>)))
Refund == Action(eosio, refund, 1, NameBytes(alice), <<NameArg("Account", alice)>>)
BuyRam == Action(eosio, buyram, 2, TwoNames \o Asset,
    <<NameArg("Buyer", alice), NameArg("Receiver", lucky),
      Argument("Tokens", 0, "asset", Asset)>>)
SellRam == Action(eosio, sellram, 1, NameBytes(alice) \o Bytes8,
    <<NameArg("Receiver", alice), Argument("Bytes", 0, "u64", Bytes8)>>)
LinkAuth == Action(eosio, linkauth, 1,
    TwoNames \o NameBytes(token) \o NameBytes(refund),
    <<NameArg("Account", alice), NameArg("Contract", lucky), NameArg("Action", token),
      NameArg("Permission", refund)>>)
Undelegate == Action(eosio, undelegatebw, 1, TwoNames \o Asset \o Asset2,
    <<NameArg("From", alice), NameArg("Receiver", lucky),
      Argument("NET", 0, "asset", Asset), Argument("CPU", 0, "asset", Asset2)>>)
BuyRamBytes == Action(eosio, buyrambytes, 1, TwoNames \o Bytes4,
    <<NameArg("Buyer", alice), NameArg("Receiver", lucky), Argument("Bytes", 0, "u32", Bytes4)>>)
DeleteAuth == Action(eosio, deleteauth, 1, TwoNames,
    <<NameArg("Account", alice), NameArg("Permission", lucky)>>)
UnlinkAuth == Action(eosio, unlinkauth, 1, TwoNames \o NameBytes(token),
    <<NameArg("Account", alice), NameArg("Contract", lucky), NameArg("Action", token)>>)
Delegate == Action(eosio, delegatebw, 1, TwoNames \o Asset \o Asset2 \o <<1>>,
    Append(Undelegate.pages, Argument("Transfer Stake", 0, "Yes", <<>>)))
DelegateKeep == Action(eosio, delegatebw, 1, TwoNames \o Asset \o Asset2 \o <<0>>,
    Undelegate.pages)
Vote == Action(eosio, voteproducer, 1,
    NameBytes(alice) \o NameBytes(<<>>) \o <<2>> \o NameBytes(lucky) \o NameBytes(refund),
    <<NameArg("Account", alice), ListArg("Producer", 1, "name", lucky),
      ListArg("Producer", 2, "name", refund)>>)
VoteProxy == Action(eosio, voteproducer, 1, TwoNames \o <<0>>,
    <<NameArg("Account", alice), NameArg("Proxy", lucky)>>)
UpdateAuth == Action(eosio, updateauth, 1,
    TwoNames \o NameBytes(<<>>) \o <<3, 0, 0, 0>>
    \o <<1>> \o Key(128) \o <<1, 0>> \o <<1>> \o TwoNames \o <<2, 0>> \o <<0>>,
    <<NameArg("Account", alice), NameArg("Permission", lucky), Argument("Parent", 0, "NULL", <<>>),
      Argument("Threshold", 0, "u32", <<3, 0, 0, 0>>),
      ListArg("Key", 1, "key", RawKey(128)), ListArg("Key Weight", 1, "u16", <<1, 0>>),
      ListArg("Account", 1, "permission", alice \o <<32>> \o lucky),
      ListArg("Account Weight", 1, "u16", <<2, 0>>)>>)
(* No key, two accounts and two delays.                                    *)
UpdateAuthLists == Action(eosio, updateauth, 1,
    TwoNames \o NameBytes(token) \o <<4, 0, 0, 0>> \o <<0>>
    \o <<2>> \o TwoNames \o <<1, 0>> \o NameBytes(lucky) \o NameBytes(alice) \o <<2, 0>>
    \o <<2>> \o <<5, 1, 0, 0, 3, 0>> \o <<6, 1, 0, 0, 4, 0>>,
    <<NameArg("Account", alice), NameArg("Permission", lucky), NameArg("Parent", token),
      Argument("Threshold", 0, "u32", <<4, 0, 0, 0>>),
      ListArg("Account", 1, "permission", alice \o <<32>> \o lucky),
      ListArg("Account Weight", 1, "u16", <<1, 0>>),
      ListArg("Account", 2, "permission", lucky \o <<32>> \o alice),
      ListArg("Account Weight", 2, "u16", <<2, 0>>),
      ListArg("Delay", 1, "u32", <<5, 1, 0, 0>>), ListArg("Delay Weight", 1, "u16", <<3, 0>>),
      ListArg("Delay", 2, "u32", <<6, 1, 0, 0>>), ListArg("Delay Weight", 2, "u16", <<4, 0>>)>>)
NewAccount == Action(eosio, newaccount, 1,
    TwoNames \o Authority(Key(128)) \o Authority(Key(200)),
    <<NameArg("Creator", alice), NameArg("Account", lucky),
      Argument("Owner key", 0, "key", RawKey(128)),
      Argument("Active key", 0, "key", RawKey(200))>>)

(* The checksum is over the length of the data and the data.               *)
UnknownPages(data) ==
    <<Argument("WARNING", 0, "Arbitrary Data", <<>>),
      Argument("WARNING", 0, "Verify checksum", <<>>),
      Argument("Checksum", 0, "checksum", <<Len(data)>> \o data)>>
Unknown == Action(lucky, lucky, 1, <<1, 2, 3>>, UnknownPages(<<1, 2, 3>>))
UnknownEmpty == Action(alice, buyram, 1, <<>>, UnknownPages(<<>>))

WellFormedActions ==
    {Transfer, TransferMemo, Refund, BuyRam, SellRam, LinkAuth, Undelegate, BuyRamBytes,
     DeleteAuth, UnlinkAuth, Delegate, DelegateKeep, Vote, VoteProxy, UpdateAuth,
     UpdateAuthLists, NewAccount, Unknown, UnknownEmpty}

----------------------------------------------------------------------------
(* Actions as they are reviewed, for EosDisplay: whole, or cut after n     *)
(* bytes of their data, with no claim about what a review then shows.      *)
Whole(a) ==
    [contract |-> NameBytes(a.contract), action |-> NameBytes(a.action), data |-> a.data,
     wellFormed |-> TRUE, pages |-> a.pages]
Cut(a, n) == [Whole(a) EXCEPT !.data = SubSeq(@, 1, n), !.wellFormed = FALSE, !.pages = <<>>]

(* An action that leaves the buffer full of bytes that are not zero.       *)
Filler == [Whole(LinkAuth) EXCEPT !.data = @ \o [i \in 1..80 |-> 1]]

WholeTransactions ==
    {<<Whole(a)>> : a \in WellFormedActions} \cup {<<Filler, Whole(a)>> : a \in WellFormedActions}
    \cup {<<Whole(UpdateAuth), Whole(a)>> : a \in {Transfer, NewAccount, Unknown, Vote}}

(* Data that ends between fields, inside one, or one byte early, after     *)
(* zeros and after the filler.  Four cases are kept apart, see below.      *)
CutActions ==
    UNION {{Cut(a, n) : n \in {0, 8, 15, 16, 31, 33, 47} \cap (0..(Len(a.data) - 1))} :
               a \in WellFormedActions \ {TransferMemo, Vote, VoteProxy}}
    \cup {Cut(a, Len(a.data) - 1) :
               a \in WellFormedActions \ {TransferMemo, VoteProxy, Delegate, DelegateKeep,
                                        UnknownEmpty}}
CutTransactions == {<<a>> : a \in CutActions} \cup {<<Filler, a>> : a \in CutActions}

(* The memo lacks its last byte; the proxy, or the list of producers, is   *)
(* missing; the second authority of a new account is missing, where the    *)
(* action before it had one; the octet that transfers a stake is missing.  *)
MemoCut == {<<Filler, Cut(TransferMemo, Len(TransferMemo.data) - 1)>>}
VoteCut == {<<Filler, Cut(Vote, NameSize)>>}
NewAccountCut == {<<Whole(NewAccount), Cut(NewAccount, 2 * NameSize + 43)>>}
DelegateCut == {<<Filler, Cut(DelegateKeep, Len(DelegateKeep.data) - 1)>>}
UntestedLengths == MemoCut \cup VoteCut \cup NewAccountCut \cup DelegateCut
=============================================================================
