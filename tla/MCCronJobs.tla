----------------------------- MODULE MCCronJobs -----------------------------
(* Instances of CronJobs for TLC. *)
EXTENDS CronInvariants

Interval(n) == [kind |-> "interval", period |-> n]
Cron(n) == [kind |-> "cron", period |-> n]
MCCronNext(s, t) == s.period * (t \div s.period + 1)
Once(t) == [kind |-> "once", at |-> t]

(* Two recurring kinds with different ways to find the next run, and a
   one-shot that is due while they run. *)
MCMixed == {Interval(1), Cron(2), Once(1)}
MCRecurring == {Interval(2)}
MCEdited == {Interval(2), Once(1)}

MCTwice == {None, 2}
MCForever == {None}
=============================================================================
