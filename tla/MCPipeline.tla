----------------------------- MODULE MCPipeline -----------------------------
(***************************************************************************)
(* Pipeline with three known types: an instrument definition, a trade and  *)
(* a quote, which is not logged.  The files also hold an empty block, a    *)
(* type from Base / 2 on and a truncated block.                            *)
(***************************************************************************)
EXTENDS Pipeline, TLC

Definition == <<0, 1, 1>>
Trade == <<0, 1, 2>>
Quote == <<0, 1, 3>>
Unknown == <<0, 1, 6>>
Empty == <<0, 0>>
Truncated == <<0, 2, 2>>

MCFileLists == {<<Definition, Trade \o Truncated>>,
                <<Quote \o Empty, Unknown>>}

MCFileNames == (1 :> "0x33") @@ (2 :> "TRADE") @@ (3 :> "NBBO")
=============================================================================
