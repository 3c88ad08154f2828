------------------------------ MODULE EosTypes ------------------------------
(***************************************************************************)
(* The enumerations of src/eos_stream.h that every module shares: the      *)
(* fields of the flat TLV map a transaction is sent as, in the order the   *)
(* parser expects them, and the verdicts the parser returns to its caller. *)
(* States are numbers because the code moves from one to the next with     *)
(* `context->state++'.                                                     *)
(***************************************************************************)
EXTENDS Naturals

TLV_NONE == 0
TLV_CHAIN_ID == 1
TLV_HEADER_EXPITATION == 2
TLV_HEADER_REF_BLOCK_NUM == 3
TLV_HEADER_REF_BLOCK_PREFIX == 4
TLV_HEADER_MAX_NET_USAGE_WORDS == 5
TLV_HEADER_MAX_CPU_USAGE_MS == 6
TLV_HEADER_DELAY_SEC == 7
TLV_CFA_LIST_SIZE == 8
TLV_ACTION_LIST_SIZE == 9
TLV_ACTION_ACCOUNT == 10
TLV_ACTION_NAME == 11
TLV_AUTHORIZATION_LIST_SIZE == 12
TLV_AUTHORIZATION_ACTOR == 13
TLV_AUTHORIZATION_PERMISSION == 14
TLV_ACTION_DATA_SIZE == 15
TLV_ACTION_DATA == 16
TLV_TX_EXTENSION_LIST_SIZE == 17
TLV_CONTEXT_FREE_DATA == 18
TLV_DONE == 19

txProcessingState_e == TLV_NONE..TLV_DONE

(* Fields whose bytes processField only hashes, whatever the action is.    *)
HeaderFields == TLV_CHAIN_ID..TLV_HEADER_DELAY_SEC
HashedOnlyFields ==
    HeaderFields \cup {TLV_AUTHORIZATION_ACTOR, TLV_CONTEXT_FREE_DATA}

(* Fields processZeroSizeField accepts only with the value zero.           *)
ZeroSizeFields == {TLV_CFA_LIST_SIZE, TLV_TX_EXTENSION_LIST_SIZE}

parserStatus_e ==
    {"STREAM_FAULT", "STREAM_PROCESSING", "STREAM_ACTION_READY",
     "STREAM_CONFIRM_PROCESSING", "STREAM_FINISHED"}
=============================================================================
