-------------------------- MODULE MCLinuxMountPlan --------------------------
(* A home directory, a directory in it, and a sibling at each level: two   *)
(* levels above a name that can be missing together, and siblings a seal   *)
(* has to hand back.                                                       *)
EXTENDS LinuxMountPlan

Home == <<"home">>
Short == {Home, <<"home", "a">>, <<"home", "a", "b">>, <<"home", "x">>}
Tree == Short \cup {<<"home", "a", "y">>}
Leaves == {<<"home", "x">>}

\* A host that keeps still, with the paths of interest in a place of their own,
\* below a system directory, or below /tmp; and one where others act.
Still == [system |-> <<>>, tmp |-> <<"tmp">>, denies |-> 2, others |-> 0, child |-> 2]
HomeIsSystem == [Still EXCEPT !.system = <<Home>>]
HomeIsTmp == [Still EXCEPT !.tmp = Home]
Busy == [Still EXCEPT !.denies = 1, !.others = 1, !.child = 0]
AllHosts == {Still, HomeIsSystem, HomeIsTmp, Busy}

\* Two binds, of either kind.
TwoBinds == phase = "start" => Len(writes \o reads) <= 2

=============================================================================
