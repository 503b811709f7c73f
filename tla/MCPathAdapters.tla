---------------------------- MODULE MCPathAdapters ----------------------------
EXTENDS PathAdapters

CONSTANTS home, a, b, x, sys, data, tmp, private, bin, sysx, t, d1

Home == <<home>>
HomeA == <<home, a>>
HomeAB == <<home, a, b>>
HomeX == <<home, x>>
Sys == <<sys>>
Temp == <<private, tmp, t>>
TempByLink == <<tmp, t>>

MCPaths == {Home, HomeA, HomeAB, HomeX, Temp, Sys}
AtMost(n, S) == {s \in SUBSET S : Cardinality(s) <= n}
MCConfigs ==
  [read : AtMost(1, {Home, HomeAB}), write : AtMost(1, {Home, HomeA, Sys}),
   deny : AtMost(2, {Home, HomeA, HomeAB, Temp})]
MCLarge == {[read |-> {HomeAB}, write |-> {HomeA}, deny |-> {Home}]}
MCSystemDirs == {Sys}
MCTempDirs == {<<private, tmp>>, <<tmp>>}
MCRootLinks == {<<tmp>>}
MCPrivate == <<private>>
MCDataVolume == <<sys, data>>
MCSensitive == {HomeA}
MCFloor == {HomeAB}
MCLookalikes == {<<sysx>>}
MCCommandDirs == {<<sys, bin>>, <<sysx>>, HomeA, TempByLink}
=============================================================================
