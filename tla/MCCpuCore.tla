------------------------------- MODULE MCCpuCore -------------------------------
\* Instances of CpuCore for TLC.
EXTENDS CpuCore

Setting(limit, ie, w) == [limit |-> limit, ie |-> ie, w |-> w, nh |-> FALSE]

MCInterrupting == {Setting(2, TRUE, FALSE)}
MCBoth == {Setting(3, TRUE, FALSE), Setting(2, FALSE, TRUE), [Setting(2, TRUE, TRUE) EXCEPT !.nh = TRUE]}
\* E1 alone is what the entry of a level-2 handler leaves.
MCMasks == {<<FALSE, FALSE>>, <<TRUE, TRUE>>, <<FALSE, TRUE>>}
MCNone == {}

\* The state without the link and the saved status of a level that is not active: they
\* are written by the next entry before anything reads them.
Active(v) == \E n \in DOMAIN cpu.frames : cpu.frames[n].level = v
Live == [cpu EXCEPT !.ilink  = [v \in Level |-> IF Active(v) THEN @[v] ELSE NewState.ilink[v]],
                    !.status = [v \in Level |-> IF Active(v) THEN @[v] ELSE NewState.status[v]]]
================================================================================
