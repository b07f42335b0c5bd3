------------------------------ MODULE MCPipeline ------------------------------
(* The command lines of the pipeline's run: every flag on one number, batches  *)
(* of up to three numbers of which any may be invalid, and the pivots.         *)
EXTENDS Pipeline

MCPlain == [verb |-> "investigate", lines |-> <<"valid">>, active |-> FALSE,
            passive |-> FALSE, modules |-> "all", yes |-> FALSE, save |-> TRUE,
            hop |-> FALSE, triage |-> FALSE, hook |-> "none", parent |-> 0]

\* What decides about probing and asking.
MCProbing == {[MCPlain EXCEPT !.verb = v, !.active = a, !.passive = p, !.modules = m,
                              !.yes = y, !.lines = <<l>>] :
                 v \in {"investigate", "batch"}, a, p, y \in BOOLEAN,
                 m \in {"all", "passive ones", "active ones", "diverted ones"}, l \in {"valid", "invalid"}}

\* What decides about saving and announcing one number.
MCSaving == {[MCPlain EXCEPT !.save = s, !.hop = h, !.passive = p, !.hook = w] :
                 s, h, p \in BOOLEAN, w \in {"none", "flag"} \cup Bands}

MCBatches == {[MCPlain EXCEPT !.verb = "batch", !.lines = l, !.triage = t, !.hook = w] :
                 l \in Lines, t \in BOOLEAN, w \in {"none", "flag"} \cup Bands}

\* Each pivot with and without a case to attach to.
MCPivots ==
    {[MCPlain EXCEPT !.verb = v, !.passive = TRUE, !.modules = "passive ones",
                     !.save = s, !.parent = c] :
        v \in ModulePivots \cup ArtifactPivots, s \in BOOLEAN, c \in 0 .. Earlier}
    \cup {[MCPlain EXCEPT !.verb = "pivot phone", !.active = a, !.passive = ~a, !.yes = y,
                          !.save = s, !.parent = c, !.lines = <<l>>] :
        a, y, s \in BOOLEAN, c \in 0 .. Earlier, l \in {"valid", "invalid"}}

MCCommands == MCProbing \cup MCSaving \cup MCBatches \cup MCPivots

\* Nothing found, one, a chain, two with one below the first, two below one.
MCLinked == {<<>>, <<0>>, <<0, 1>>, <<0, 1, 0>>, <<0, 1, 1>>, <<0, 1, 2>>, <<0, 0>>}
===============================================================================
