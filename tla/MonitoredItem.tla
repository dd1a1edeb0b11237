--------------------------- MODULE MonitoredItem ---------------------------
(***************************************************************************)
(* One monitored item of a subscription (monitored_item.ts), the timer     *)
(* that samples it (node_sampler.ts) and the reading of its variable       *)
(* (ua_variable_impl.ts), which may have to ask the device and answers     *)
(* everybody who waits for it at once.                                     *)
(*                                                                         *)
(* A service and a callback are one action each. What starts an item, what *)
(* samples it and what a triggering item asks of it run from setImmediate, *)
(* in the order they were asked for, whatever happened to the item since.  *)
(* An assertion that fails throws: the callback ends there. Some callers   *)
(* swallow the exception, others let it reach the application, which may   *)
(* catch it: the model goes on.                                            *)
(***************************************************************************)
EXTENDS ItemQueue

CONSTANTS
    Kinds,          \* what is monitored: "value", another "attribute", "event"
    Intervals,      \* sampling intervals, 0 for an item driven by exceptions
    QueueSizes,
    Filters,        \* data change triggers; no filter is "StatusValue"
    Classes,        \* values the deadband tells apart
    Refreshes,      \* does the variable ask a device for its value?
    MaxStamp,       \* bound on changes of the node
    MaxSemantics,   \* bound on changes of its semantics
    MaxCalls,       \* bound on services and triggers
    MaxImmediates   \* bound on waiting callbacks, for the timer

ASSUME ItemAssumption ==
    /\ Kinds \subseteq {"value", "attribute", "event"}
    /\ Intervals \subseteq Nat
    /\ \E k \in Intervals : k > 0
    /\ QueueSizes \subseteq Nat \ {0}
    /\ Filters \subseteq {"Status", "StatusValue", "StatusValueTimestamp"}
    /\ Refreshes \in BOOLEAN
    /\ MaxStamp \in Nat /\ MaxSemantics \in Nat /\ MaxCalls \in Nat
    /\ MaxImmediates \in Nat

VARIABLES
    item,           \* the MonitoredItem, and what assertions it has seen fail
    node,           \* the node: its value, its semantics, whether it exists
    waiting,        \* __waiting_callbacks of the variable
    refreshing,     \* is the device being asked?
    immediates,     \* callbacks of setImmediate, in their order
    calls

vars == <<item, node, waiting, refreshing, immediates, calls>>

NoTimer == 0

\* A DataValue: which change it stems from, its value, the marks on its status.
DataValue == [stamp : Nat, class : Classes \cup {0}, status : SUBSET {"bad", "gone", "semantic"}]

badDataUnavailable == [stamp |-> 0, class |-> 0, status |-> {"gone"}]

minimumSamplingInterval == CHOOSE k \in Intervals \ {0} : \A j \in Intervals \ {0} : k <= j

-----------------------------------------------------------------------------
(***************************************************************************)
(* Recording a value. thrown says that the callback at work was ended by   *)
(* an exception; made, latest and seen are history: how many notifications *)
(* since the queue was last emptied or resized, which was the last, and    *)
(* which value was the last to be considered; so is resent, see below.     *)
(***************************************************************************)

Settled(i) == [i EXCEPT !.thrown = FALSE]

EnqueueNotification(i, n) ==
    LET refused == BitRefused(i.queue, n, i.size, i.oldest)
    IN  [i EXCEPT !.queue  = Enqueued(i.queue, n, i.size, i.oldest),
                  !.thrown = refused,
                  !.failed = IF refused THEN @ \cup {"overflow"} ELSE @,
                  !.made   = @ + 1,
                  !.latest = n.stamp]

EnqueueValue(i, d) ==
    EnqueueNotification([i EXCEPT !.old = d],
                        [stamp |-> d.stamp, status |-> d.status, data |-> TRUE])

\* apply_filter
PassesFilter(i, d) ==
    \/ i.old = badDataUnavailable
    \/ i.filter = "StatusValueTimestamp"
    \/ d.status # i.old.status
    \/ i.filter = "StatusValue" /\ d.class # i.old.class

\* recordValue, when the node's semantics is at the given version.
Recorded(i, d, skipChangeTest, version) ==
    LET seen == [i EXCEPT !.seen = d.stamp]
    IN  IF ~i.alive THEN i
        ELSE IF i.version # version
        THEN EnqueueValue([seen EXCEPT !.version = version], [d EXCEPT !.status = @ \cup {"semantic"}])
        ELSE IF skipChangeTest \/ (d # i.old /\ PassesFilter(i, d)) THEN EnqueueValue(seen, d)
        ELSE seen

-----------------------------------------------------------------------------
(***************************************************************************)
(* The timer. registered holds the keys under which node_sampler has the   *)
(* item; the item remembers one of them.                                   *)
(***************************************************************************)

\* _set_timer, appendToTimer
TimerSet(i) ==
    IF ~i.alive THEN i
    ELSE IF i.timer # NoTimer THEN [i EXCEPT !.thrown = TRUE, !.failed = @ \cup {"timer"}]
    ELSE [i EXCEPT !.timer = i.interval, !.registered = @ \cup {i.interval}]

\* _stop_sampling, _clear_timer, removeFromTimer
Stopped(i) ==
    [i EXCEPT !.listening  = FALSE,
              !.timer      = NoTimer,
              !.registered = @ \ {i.timer}]

-----------------------------------------------------------------------------
(***************************************************************************)
(* Reading the variable. A waiting callback is that of the timer,          *)
(* "sample", or that of the first reading: "first", or "first then timer". *)
(***************************************************************************)

\* (slip: only a failed reading makes the item ready for the next)
SampleAnswered_Keeps(i, d, err, version) ==
    IF i.timer = NoTimer THEN i
    ELSE IF err THEN [i EXCEPT !.sampling = FALSE]
    ELSE Recorded(i, d, FALSE, version)

\* The callback of _on_sampling_timer.
SampleAnswered(i, d, err, version) ==
    IF i.timer = NoTimer THEN i
    ELSE LET r == IF err THEN i ELSE Recorded(i, d, FALSE, version)
         IN  IF r.thrown THEN r ELSE [r EXCEPT !.sampling = FALSE]

\* (slip: an error ends it)
FirstAnswered_Gives(i, d, err, version, thenTimer) ==
    LET r == IF err THEN i ELSE Recorded(i, d, TRUE, version)
    IN  IF thenTimer /\ ~r.thrown /\ ~err THEN TimerSet(r) ELSE r

\* The callbacks of __acquireInitialValue.
FirstAnswered(i, d, err, version, thenTimer) ==
    LET r == IF err THEN i ELSE Recorded(i, d, TRUE, version)
    IN  IF thenTimer /\ ~r.thrown THEN TimerSet(r) ELSE r

Answered(i, callback, d, err, version) ==
    IF callback = "sample" THEN SampleAnswered(i, d, err, version)
    ELSE FirstAnswered(i, d, err, version, callback = "first then timer")

\* satisfy_callbacks: an exception keeps the others from being called.
AllAnswered(i, callbacks, d, err, version) ==
    LET after[n \in 0..Len(callbacks)] ==
            IF n = 0 THEN i
            ELSE IF after[n - 1].thrown THEN after[n - 1]
            ELSE Answered(after[n - 1], callbacks[n], d, err, version)
    IN  after[Len(callbacks)]

\* readValueAsync. Whoever comes while others wait waits with them. A variable
\* that was disposed of answers but does not forget who asked. One without a
\* device, or which is as fresh as can be, answers at once.
ReadValueAsync(i, callback) ==
    LET gone == [node.value EXCEPT !.status = {"gone"}]
    IN  \/ /\ waiting # <<>>
           /\ waiting' = Append(waiting, callback)
           /\ item' = i
           /\ UNCHANGED refreshing
        \/ /\ waiting = <<>> /\ ~node.exists
           /\ waiting' = <<callback>>
           /\ item' = Settled(Answered(i, callback, gone, FALSE, node.version))
           /\ UNCHANGED refreshing
        \/ /\ waiting = <<>> /\ node.exists /\ Refreshes
           /\ waiting' = <<callback>>
           /\ refreshing' = TRUE
           /\ item' = i
        \/ /\ waiting = <<>> /\ node.exists
           /\ item' = Settled(Answered(i, callback, node.value, FALSE, node.version))
           /\ UNCHANGED <<waiting, refreshing>>

\* __acquireInitialValue
AcquireInitialValue(i, callback) ==
    \/ /\ i.old = badDataUnavailable
       /\ ReadValueAsync(i, callback)
    \/ /\ i.old # badDataUnavailable
       /\ item' = Settled(Answered([i EXCEPT !.old = badDataUnavailable], callback,
                                   i.old, FALSE, node.version))
       /\ UNCHANGED <<waiting, refreshing>>
-----------------------------------------------------------------------------
(***************************************************************************)
(* The services, for the item with this identifier.                        *)
(***************************************************************************)

Init ==
    /\ item \in [kind : Kinds, mode : {"Invalid"}, interval : Intervals, size : QueueSizes,
                 oldest : BOOLEAN, filter : Filters, alive : {TRUE}, timer : {NoTimer},
                 registered : {{}}, listening : {FALSE}, sampling : {FALSE},
                 old : {badDataUnavailable}, queue : {<<>>}, triggered : {<<>>},
                 version : {0}, thrown : {FALSE}, failed : {{}}, made : {0}, latest : {0},
                 seen : {0}, resent : {FALSE}]
    /\ node = [value |-> [stamp |-> 0, class |-> 0, status |-> {}], version |-> 0, exists |-> TRUE]
    /\ waiting = <<>> /\ refreshing = FALSE
    /\ immediates = <<>>
    /\ calls = 0

Deferred(run, initial) == Append(immediates, [run |-> run, initial |-> initial])

Emptied(i) == [i EXCEPT !.queue = <<>>, !.made = 0]

\* setMonitoringMode; the first call is that of _createMonitoredItemStep3.
SetMonitoringMode(mode) ==
    /\ item.alive
    /\ mode # item.mode
    /\ calls < MaxCalls /\ calls' = calls + 1
    /\ \/ /\ mode = "Disabled"
          /\ item' = Emptied(Stopped([item EXCEPT !.mode = mode]))
          /\ UNCHANGED immediates
       \/ /\ mode \in {"Sampling", "Reporting"}
          /\ item' = [item EXCEPT !.mode = mode, !.old = badDataUnavailable]
          /\ immediates' = Deferred("start", item.mode \in {"Invalid", "Disabled"})
    /\ UNCHANGED <<node, waiting, refreshing>>

\* modify: fastest possible is a timer for an item that has one. What does not
\* pass validateFilter has been applied all the same.
Modify(interval, size, oldest, filter) ==
    LET revised == IF item.interval # 0 /\ interval = 0 THEN minimumSamplingInterval ELSE interval
        queue   == Adjusted(item.queue, size, oldest)
        set     == [item EXCEPT !.interval = revised, !.size = size, !.oldest = oldest,
                                !.filter = filter, !.queue = queue, !.made = Len(queue)]
    IN  /\ item.alive
        /\ item.mode # "Invalid"
        /\ calls < MaxCalls /\ calls' = calls + 1
        /\ \/ /\ revised = item.interval
              /\ item' = set
              /\ UNCHANGED immediates
           \/ /\ revised # item.interval
              /\ item' = [set EXCEPT !.old = badDataUnavailable]
              /\ immediates' = Deferred("start", FALSE)
        /\ UNCHANGED <<node, waiting, refreshing>>

\* removeMonitoredItem: terminate, dispose
RemoveMonitoredItem ==
    /\ item.alive
    /\ item.mode # "Invalid"
    /\ item' = [Emptied(Stopped(item)) EXCEPT !.alive = FALSE, !.old = badDataUnavailable]
    /\ UNCHANGED <<node, waiting, refreshing, immediates, calls>>

Starting == \E n \in DOMAIN immediates : immediates[n].run = "start"

\* resendInitialValue, when the subscription is transferred
ResendInitialValue ==
    LET value == IF item.old = badDataUnavailable THEN node.value ELSE item.old
    IN  /\ item.alive
        /\ item.mode # "Invalid"
        /\ calls < MaxCalls /\ calls' = calls + 1
        /\ item.queue = <<>>
        /\ item' = EnqueueValue([item EXCEPT !.resent = @ \/ Starting], value)
        /\ UNCHANGED <<node, waiting, refreshing, immediates>>

\* extractMonitoredItemNotifications, when asked for what is in the queue
QueueTaken(i) ==
    [Emptied(i) EXCEPT !.version = IF i.queue # <<>> THEN node.version ELSE @]

QueueToTake(i) == Told(i.queue, i.version < node.version)

\* _harvestMonitoredItems
Harvest ==
    /\ item.alive
    /\ \/ /\ item.mode = "Sampling" /\ item.triggered # <<>>
          /\ item' = [item EXCEPT !.triggered = <<>>]
       \/ /\ item.mode = "Reporting" /\ item.queue # <<>>
          /\ item' = QueueTaken(item)
    /\ UNCHANGED <<node, waiting, refreshing, immediates, calls>>

\* triggerLinkedItems of an item that is linked to this one
Trigger ==
    /\ item.alive
    /\ item.mode = "Sampling"
    /\ calls < MaxCalls /\ calls' = calls + 1
    /\ immediates' = Deferred("trigger", FALSE)
    /\ UNCHANGED <<item, node, waiting, refreshing>>

-----------------------------------------------------------------------------
(***************************************************************************)
(* The callbacks of the event loop.                                        *)
(***************************************************************************)

\* The interval of a common timer; sampleMonitoredItem.
TimerFires ==
    /\ item.registered # {}
    /\ item.mode # "Disabled"
    /\ Len(immediates) < MaxImmediates
    /\ immediates' = Deferred("sample", FALSE)
    /\ UNCHANGED <<item, node, waiting, refreshing, calls>>

NextImmediate(run) ==
    /\ immediates # <<>>
    /\ Head(immediates).run = run
    /\ immediates' = Tail(immediates)

\* _on_sampling_timer
RunSample ==
    /\ NextImmediate("sample")
    /\ IF item.mode = "Disabled" \/ item.timer = NoTimer \/ item.sampling
       THEN UNCHANGED <<item, waiting, refreshing>>
       ELSE ReadValueAsync([item EXCEPT !.sampling = TRUE], "sample")
    /\ UNCHANGED <<node, calls>>

\* __start_sampling. Only the value of a variable has a timer: for anything
\* else, and for an interval of 0, the item listens to the node.
RunStart ==
    LET initial   == Head(immediates).initial
        stopped   == Stopped(item)
        listening == [stopped EXCEPT !.listening = TRUE]
    IN  /\ NextImmediate("start")
        /\ \/ /\ ~item.alive
              /\ UNCHANGED <<item, waiting, refreshing>>
           \/ /\ item.alive /\ item.kind = "event"
              /\ item' = listening
              /\ UNCHANGED <<waiting, refreshing>>
           \/ /\ item.alive /\ item.kind = "attribute"
              /\ LET exceptions == [listening EXCEPT !.interval = 0]
                 IN  item' = IF initial THEN Settled(Recorded(exceptions, node.value, TRUE, node.version))
                             ELSE exceptions
              /\ UNCHANGED <<waiting, refreshing>>
           \/ /\ item.alive /\ item.kind = "value" /\ ~initial
              /\ item' = IF item.interval = 0 THEN listening ELSE TimerSet(stopped)
              /\ UNCHANGED <<waiting, refreshing>>
           \/ /\ item.alive /\ item.kind = "value" /\ initial
              /\ IF item.interval = 0 THEN AcquireInitialValue(listening, "first")
                 ELSE AcquireInitialValue(stopped, "first then timer")
        /\ UNCHANGED <<node, calls>>

\* The callback of trigger, whatever has become of the item.
RunTrigger ==
    /\ NextImmediate("trigger")
    /\ item' = [QueueTaken(item) EXCEPT !.triggered = @ \o QueueToTake(item)]
    /\ UNCHANGED <<node, waiting, refreshing, calls>>

-----------------------------------------------------------------------------
(***************************************************************************)
(* The node.                                                               *)
(***************************************************************************)

\* _inner_replace_dataValue emits value_changed, an attribute its own event.
Heard(i, value) ==
    IF i.listening /\ i.kind # "event" THEN Recorded(i, value, FALSE, node.version) ELSE i

NewValues ==
    {[stamp |-> node.value.stamp + 1, class |-> c, status |-> s] :
        c \in Classes, s \in IF item.kind = "value" THEN {{}, {"bad"}} ELSE {{}}}

ValueChanges ==
    /\ node.exists /\ node.value.stamp < MaxStamp
    /\ item.kind # "event"
    /\ \E value \in NewValues :
          /\ node' = [node EXCEPT !.value = value]
          /\ item' = Settled(Heard(item, value))
    /\ UNCHANGED <<waiting, refreshing, immediates, calls>>

\* _on_opcua_event, when the event passes the where clause of the item
EventRaised ==
    /\ node.exists /\ node.value.stamp < MaxStamp
    /\ item.kind = "event"
    /\ node' = [node EXCEPT !.value.stamp = @ + 1]
    /\ item' = IF item.listening
               THEN EnqueueNotification(item, [stamp |-> node.value.stamp + 1, status |-> {}, data |-> FALSE])
               ELSE item
    /\ UNCHANGED <<waiting, refreshing, immediates, calls>>

\* handle_semantic_changed, _on_semantic_changed
SemanticsChanges ==
    /\ node.exists /\ node.version < MaxSemantics
    /\ item.kind = "value"
    /\ node' = [node EXCEPT !.version = @ + 1]
    /\ item' = IF item.listening
               THEN Settled(Recorded(item, node.value, FALSE, node.version + 1))
               ELSE item
    /\ UNCHANGED <<waiting, refreshing, immediates, calls>>

\* The device answers, with the value it had, a new one, or an error. What it
\* says becomes the value of the variable before those who wait hear of it; when
\* somebody who listens throws, they never do.
DeviceAnswers ==
    /\ refreshing /\ refreshing' = FALSE
    /\ \/ /\ item' = Settled(AllAnswered(item, waiting, node.value, FALSE, node.version))
          /\ waiting' = <<>>
          /\ UNCHANGED node
       \/ /\ node.value.stamp < MaxStamp
          /\ \E value \in NewValues, err \in BOOLEAN :
                LET heard == Heard(item, value)
                IN  /\ err => value.status # {}
                    /\ node' = [node EXCEPT !.value = value]
                    /\ waiting' = IF heard.thrown THEN waiting ELSE <<>>
                    /\ item' = Settled(IF heard.thrown THEN heard
                                       ELSE AllAnswered(heard, waiting, value, err, node.version))
    /\ UNCHANGED <<immediates, calls>>

\* _on_node_disposed: when recording the end throws, sampling goes on.
NodeDisposed ==
    LET gone == [stamp |-> node.value.stamp, class |-> 0, status |-> {"gone"}]
        told == Recorded(item, gone, FALSE, node.version)
    IN  /\ node.exists /\ node' = [node EXCEPT !.exists = FALSE]
        /\ item' = IF ~item.alive THEN item
                   ELSE IF told.thrown THEN Settled(told)
                   ELSE Stopped(told)
        /\ UNCHANGED <<waiting, refreshing, immediates, calls>>

-----------------------------------------------------------------------------
Services ==
    \/ \E mode \in {"Disabled", "Sampling", "Reporting"} : SetMonitoringMode(mode)
    \/ \E interval \in Intervals, size \in QueueSizes, oldest \in BOOLEAN, filter \in Filters :
          Modify(interval, size, oldest, filter)
    \/ RemoveMonitoredItem
    \/ ResendInitialValue
    \/ Harvest
    \/ Trigger

RunImmediate == RunSample \/ RunStart \/ RunTrigger

Changes == ValueChanges \/ EventRaised \/ SemanticsChanges \/ NodeDisposed

Next == Services \/ TimerFires \/ RunImmediate \/ DeviceAnswers \/ Changes

Spec == Init /\ [][Next]_vars

\* The event loop runs what waits and the timers of those who have one; a
\* device that is asked answers.
FairSpec ==
    /\ Spec
    /\ WF_vars(RunImmediate)
    /\ SF_vars(TimerFires)
    /\ WF_vars(DeviceAnswers)
=============================================================================
