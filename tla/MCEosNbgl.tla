------------------------------ MODULE MCEosNbgl ------------------------------
(***************************************************************************)
(* Some of the actions of EosSamples, reviewed on a touch screen.          *)
(***************************************************************************)
EXTENDS EosNbgl, EosSamples

MCTransactions ==
    {<<Whole(Vote), Whole(Unknown)>>, <<Whole(Delegate)>>,
     <<Filler, Cut(BuyRam, 31)>>, <<Cut(UpdateAuth, 28)>>}
=============================================================================
