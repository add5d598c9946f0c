------------------------------ MODULE MCRecords ------------------------------
EXTENDS Records, TLC
CONSTANTS c1, c2, t1, t2, a1, a2, s1, s2

Home == t1 :> c1 @@ t2 :> c2
Own  == s1 :> a1 @@ s2 :> a2

\* the channels are alike: the page opens one of them first
SmallInit == RecordsInit /\ selected = c1
SmallSpec == SmallInit /\ [][RecordsNext]_<<part, vars, pvars, svars, vvars, fvars, mvars>>
=============================================================================
