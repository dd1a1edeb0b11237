---------------------- MODULE MonitoredItemProperties ----------------------
(***************************************************************************)
(* What a monitored item should satisfy, and what comments and assertions  *)
(* of monitored_item.ts say it does.                                       *)
(***************************************************************************)
EXTENDS MonitoredItem

Active == item.alive /\ node.exists /\ item.mode \in {"Sampling", "Reporting"}

\* Every part of the state is what its description says: queues within their
\* size, timers with an interval, callbacks of a known kind.
TypeOK ==
    /\ item \in [kind : Kinds, mode : {"Invalid", "Disabled", "Sampling", "Reporting"},
                 interval : Intervals \cup {0}, size : QueueSizes, oldest : BOOLEAN, filter : Filters,
                 alive : BOOLEAN, timer : Intervals \cup {NoTimer}, registered : SUBSET Intervals,
                 listening : BOOLEAN, sampling : BOOLEAN, old : DataValue, queue : Seq(Notification),
                 triggered : Seq(Notification), version : Nat, thrown : {FALSE},
                 failed : SUBSET {"overflow", "timer"}, made : Nat, latest : Nat, seen : Nat,
                 resent : BOOLEAN]
    /\ Len(item.queue) <= item.size
    /\ node \in [value : DataValue, version : Nat, exists : BOOLEAN]
    /\ waiting \in Seq({"sample", "first", "first then timer"})
    /\ refreshing \in BOOLEAN
    /\ immediates \in Seq([run : {"sample", "start", "trigger"}, initial : BOOLEAN])
    /\ calls \in 0..MaxCalls

\* The common timers hold the item under the one key it remembers, and an item
\* that has a timer does not listen as well. Once it is disposed of, no callback
\* that comes late starts it again or gives it something to report.
TimerKnown ==
    /\ item.registered = {item.timer} \ {NoTimer}
    /\ item.timer # NoTimer => ~item.listening
    /\ ~item.alive => item.timer = NoTimer /\ ~item.listening /\ item.queue = <<>>

\* "sampling func shall not be re-entrant": one reading for the timer at a time,
\* however often the item is stopped and started while the device takes its time.
NoReentrance ==
    refreshing =>
        /\ \A m, n \in DOMAIN waiting : waiting[m] = "sample" /\ waiting[n] = "sample" => m = n
        /\ (\E n \in DOMAIN waiting : waiting[n] = "sample") => item.sampling

\* An enabled item is never forgotten: it listens to its node, has a timer, or
\* there is a callback on its way that will see to it, whatever modes,
\* intervals and answers have crossed (unless an assertion has failed). And it
\* is seen to once: under one key, by one reading at a time.
Attended ==
    /\ Active /\ item.failed = {} =>
          \/ item.listening \/ item.timer # NoTimer
          \/ Starting
          \/ \E n \in DOMAIN waiting : waiting[n] = "first then timer"
    /\ TimerKnown
    /\ NoReentrance

\* A queue holds notifications in the order they were made and ends with the
\* latest, whichever was discarded and however it was resized.
QueueHoldsLatest ==
    item.queue # <<>> /\ item.failed = {} =>
        /\ \A m, n \in DOMAIN item.queue : m < n => item.queue[m].stamp <= item.queue[n].stamp
        /\ item.queue[Len(item.queue)].stamp = item.latest

\* A client is told of every loss: when a queue of more than one has dropped data
\* notifications since it was last taken or resized, one that it holds says so.
LossAnnounced ==
    /\ item.size > 1 /\ item.made > Len(item.queue) /\ item.failed = {}
    /\ \A n \in DOMAIN item.queue : item.queue[n].data
    => \E n \in DOMAIN item.queue : "overflow" \in item.queue[n].status

\* An enabled item considers what its node has become, sooner or later (unless it
\* is stopped or an assertion fails; or its value was resent while it was starting:
\* __acquireInitialValue then takes that value for a first reading, and one that
\* listens is not told of what changed in between).
FollowsNode ==
    Active /\ item.kind # "event" ~>
        item.seen = node.value.stamp \/ ~Active \/ item.failed # {} \/ item.resent
=============================================================================
