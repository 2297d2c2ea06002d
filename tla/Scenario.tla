------------------------------ MODULE Scenario ------------------------------
(***************************************************************************)
(* The scenario engine (scenario.rs) and the wrappers through which every  *)
(* access of the firmware passes it (bank.rs): overrides that answer or    *)
(* mask an access, events that fire on the n-th access of a word or at an  *)
(* instruction count, watchpoints, and the writes they make, which are put *)
(* off until the access that caused them is over.                          *)
(*                                                                         *)
(* Behind the engine is a word of plain storage per address.  A word is    *)
(* the set of its bits that are 1.  What operators may schedule is a menu, *)
(* a constant.                                                             *)
(***************************************************************************)
EXTENDS Integers, Sequences, SequencesExt

CONSTANTS Addrs,          \* word addresses
          Bits,           \* bits of a word
          EventMenu,      \* records [trigger, effect, repeat]
          WatchMenu,      \* records [addr, mode, action]
          SpecMenu,       \* records [kind, value, count]
          MaxEvents, MaxAccesses, MaxTicks, MaxOps    \* bounds of the instance

ASSUME ScenarioAssumption == {MaxEvents, MaxAccesses, MaxTicks, MaxOps} \subseteq Nat

Val == SUBSET Bits
NoSpec == [kind |-> "None", value |-> {}, count |-> 0]

VARIABLES
    store,          \* what the block behind each address holds
    eng,            \* ScenarioEngine, without its counters
    read_counts, write_counts,
    instructions    \* cpu_instructions of the last tick

scenario_vars == <<store, eng, read_counts, write_counts, instructions>>

(* overrides; events with insn_queue as a flag of each; watchpoints;       *)
(* pause_requested; deferred_writes.  The rest is history: how often each  *)
(* event fired, all writes asked for and those made, and per override the  *)
(* reads since it was set and those it answered; ops counts the operator's *)
(* commands, for the bound on them.                                        *)
NewEngine == [overrides |-> [a \in Addrs |-> NoSpec], events |-> <<>>, watchpoints |-> <<>>,
              pause |-> FALSE, deferred |-> <<>>, ops |-> 0,
              fires |-> <<>>, asked |-> <<>>, made |-> <<>>,
              reads |-> [a \in Addrs |-> 0], answered |-> [a \in Addrs |-> 0],
              granted |-> [a \in Addrs |-> NoSpec]]

scenario_Init == /\ store = [a \in Addrs |-> {}]
                 /\ eng = NewEngine
                 /\ read_counts = [a \in Addrs |-> 0] /\ write_counts = [a \in Addrs |-> 0]
                 /\ instructions = 0

-----------------------------------------------------------------------------
(* MmioOverrideRegistry *)

SetSpec(e, a, spec) == [e EXCEPT !.overrides[a] = spec, !.granted[a] = spec,
                                 !.reads[a] = 0, !.answered[a] = 0]
RemoveSpec(e, a) == SetSpec(e, a, NoSpec)

(* peek_read, without try_read's spending.                                 *)
Answers(e, a) == LET s == e.overrides[a]
                 IN  s.kind = "Static" \/ (s.kind = "OneShot" /\ s.count > 0)

(* try_read: the last answer of a one-shot takes it away; one of zero      *)
(* answers stays and never answers.                                        *)
try_read(e, a) ==
    LET s == e.overrides[a]
        r == [e EXCEPT !.reads[a] = @ + 1]
    IN  IF ~Answers(e, a) THEN r
        ELSE IF s.kind = "Static" THEN [r EXCEPT !.answered[a] = @ + 1]
        ELSE [r EXCEPT !.answered[a] = @ + 1,
                       !.overrides[a] = IF s.count = 1 THEN NoSpec ELSE [s EXCEPT !.count = @ - 1]]

filter_write(e, a, v) == IF e.overrides[a].kind = "Mask" THEN v \ e.overrides[a].value ELSE v

-----------------------------------------------------------------------------
(* Events and watchpoints.                                                 *)

apply_effect(e, f) ==
    CASE f.kind = "SetOverride" -> SetSpec(e, f.addr, f.spec)
      [] f.kind = "RemoveOverride" -> RemoveSpec(e, f.addr)
      [] f.kind = "WriteMmio" -> LET w == [addr |-> f.addr, value |-> f.value]
                                 IN  [e EXCEPT !.deferred = Append(@, w), !.asked = Append(@, w)]
      [] f.kind = "Pause" -> [e EXCEPT !.pause = TRUE]

fire_event(e, i) ==
    LET f == apply_effect(e, e.events[i].effect)
    IN  [f EXCEPT !.events[i].fired = ~e.events[i].repeat, !.fires[i] = @ + 1]

(* The occurrence of an event counts from the first access ever made, not  *)
(* from the moment it was scheduled.                                       *)
Occurs(ev, current) ==
    LET n == ev.trigger.n
    IN  IF ev.repeat THEN n > 0 /\ current % n = 0 ELSE current = n

Due(e, i, kind, a, current) ==
    LET ev == e.events[i]
    IN  ~ev.fired /\ ev.trigger.kind = kind /\ ev.trigger.addr = a /\ Occurs(ev, current)

FireAll(e, idxs) == FoldLeft(fire_event, e, idxs)

(* check_watchpoints: who is triggered is settled before any action runs.  *)
check_watchpoints(e, a, mode) ==
    LET hit == SelectSeq(e.watchpoints,
                         LAMBDA w : w.addr = a /\ w.mode \in {"ReadWrite", mode})
    IN  FoldLeft(LAMBDA s, w : apply_effect(s, w.action), e, hit)

(* on_mmio_read, on_mmio_write.  Firing one event changes no other event,  *)
(* so those that are due can be told beforehand.                           *)
OnAccess(e, a, kind, current) ==
    check_watchpoints(FireAll(e, SelectSeq([i \in 1 .. Len(e.events) |-> i],
                                           LAMBDA i : Due(e, i, kind, a, current))),
                      a, kind)

(* drain_scenario_deferred, through write_word_inner: masks apply, and no  *)
(* trigger sees it.                                                        *)
Drained(e, st) ==
    FoldLeft(LAMBDA s, w : [s EXCEPT ![w.addr] = filter_write(e, w.addr, w.value)], st, e.deferred)
Emptied(e) == [e EXCEPT !.made = @ \o e.deferred, !.deferred = <<>>]

-----------------------------------------------------------------------------
(* The firmware's accesses.                                                *)

Within == FoldFunction(+, 0, read_counts) + FoldFunction(+, 0, write_counts) < MaxAccesses

(* PeripheralBank::read_word *)
ReadWord == \E a \in Addrs :
    /\ Within
    /\ read_counts' = [read_counts EXCEPT ![a] = @ + 1]
    /\ LET e == OnAccess(try_read(eng, a), a, "Read", read_counts[a] + 1)
       IN  eng' = Emptied(e) /\ store' = Drained(e, store)
    /\ UNCHANGED <<write_counts, instructions>>

(* PeripheralBank::write_word *)
WriteWord == \E a \in Addrs, v \in Val :
    /\ Within
    /\ write_counts' = [write_counts EXCEPT ![a] = @ + 1]
    /\ LET e == OnAccess(eng, a, "Write", write_counts[a] + 1)
       IN  /\ eng' = Emptied(e)
           /\ store' = Drained(e, [store EXCEPT ![a] = filter_write(eng, a, v)])
    /\ UNCHANGED <<read_counts, instructions>>

(* read_half, read_byte: an override is spent, nothing else hears of it;   *)
(* a narrow write is not even masked.                                      *)
ReadNarrow == \E a \in Addrs :
    /\ eng.reads[a] < MaxAccesses
    /\ eng' = try_read(eng, a)
    /\ UNCHANGED <<store, read_counts, write_counts, instructions>>

WriteNarrow == \E a \in Addrs, v \in Val :
    /\ store' = [store EXCEPT ![a] = v]
    /\ UNCHANGED <<eng, read_counts, write_counts, instructions>>

(* ScenarioEngine::tick: what is due by now fires in the order of its      *)
(* instruction counts and leaves the queue, repeating or not.              *)
InQueue(e, n) == SelectSeq([i \in 1 .. Len(e.events) |-> i],
                           LAMBDA i : e.events[i].queued /\ e.events[i].trigger.n = n)

scenario_tick ==
    /\ instructions < MaxTicks
    /\ instructions' = instructions + 1
    /\ LET now == instructions + 1
           due == FoldLeft(LAMBDA s, n : s \o InQueue(eng, n), <<>>, [n \in 1 .. now + 1 |-> n - 1])
           e == FireAll(eng, SelectSeq(due, LAMBDA i : ~eng.events[i].fired))
       IN  eng' = [e EXCEPT !.events = [i \in 1 .. Len(e.events) |->
                      [e.events[i] EXCEPT !.queued = @ /\ i \notin ToSet(due)]]]
    /\ UNCHANGED <<store, read_counts, write_counts>>

-----------------------------------------------------------------------------
(* The operator.                                                           *)

Asked(e) == /\ eng.ops < MaxOps
            /\ eng' = [e EXCEPT !.ops = eng.ops + 1]

(* schedule_ex; `born` remembers the count the event starts from.          *)
Scheduled(e, m) ==
    LET t == m.trigger
    IN  [e EXCEPT !.events = Append(@,
            [trigger |-> t, effect |-> m.effect, repeat |-> m.repeat, fired |-> FALSE,
             queued |-> t.kind = "At", cancelled |-> FALSE,
             born |-> CASE t.kind = "Read" -> read_counts[t.addr]
                        [] t.kind = "Write" -> write_counts[t.addr]
                        [] OTHER -> 0]),
                   !.fires = Append(@, 0)]

schedule_ex ==
    /\ Len(eng.events) < MaxEvents
    /\ \E m \in EventMenu : Asked(Scheduled(eng, m))
    /\ UNCHANGED <<store, read_counts, write_counts, instructions>>

cancel ==
    /\ \E i \in 1 .. Len(eng.events) :
          /\ ~eng.events[i].fired
          /\ Asked([eng EXCEPT !.events[i].fired = TRUE, !.events[i].cancelled = TRUE])
    /\ UNCHANGED <<store, read_counts, write_counts, instructions>>

SetOverride ==
    /\ \E a \in Addrs, s \in SpecMenu \cup {NoSpec} : Asked(SetSpec(eng, a, s))
    /\ UNCHANGED <<store, read_counts, write_counts, instructions>>

(* load_json: an override and then an event; when the second entry is bad  *)
(* the first one stays.                                                    *)
load_json ==
    /\ Len(eng.events) < MaxEvents
    /\ \E a \in Addrs, s \in SpecMenu, m \in EventMenu :
          \E e \in {SetSpec(eng, a, s), Scheduled(SetSpec(eng, a, s), [m EXCEPT !.repeat = FALSE])} :
             Asked(e)
    /\ UNCHANGED <<store, read_counts, write_counts, instructions>>

add_watchpoint ==
    /\ eng.watchpoints = <<>>
    /\ \E w \in WatchMenu : Asked([eng EXCEPT !.watchpoints = <<w>>])
    /\ UNCHANGED <<store, read_counts, write_counts, instructions>>

remove_watchpoint ==
    /\ eng.watchpoints # <<>>
    /\ Asked([eng EXCEPT !.watchpoints = <<>>])
    /\ UNCHANGED <<store, read_counts, write_counts, instructions>>

(* take_pause, by the CPU worker.                                          *)
take_pause ==
    /\ eng.pause /\ eng' = [eng EXCEPT !.pause = FALSE]
    /\ UNCHANGED <<store, read_counts, write_counts, instructions>>

clear_all ==
    /\ eng' = NewEngine
    /\ read_counts' = [a \in Addrs |-> 0] /\ write_counts' = [a \in Addrs |-> 0]
    /\ UNCHANGED <<store, instructions>>

scenario_Next ==
    \/ ReadWord \/ WriteWord \/ ReadNarrow \/ WriteNarrow \/ scenario_tick
    \/ schedule_ex \/ cancel \/ SetOverride \/ load_json
    \/ add_watchpoint \/ remove_watchpoint \/ take_pause \/ clear_all

-----------------------------------------------------------------------------
(* An event on accesses has fired exactly as often as the accesses counted *)
(* since it was scheduled say, whatever other events, overrides and narrow *)
(* accesses came between; one on the instruction count at most once.       *)
EventsFireAsCounted ==
    \A i \in 1 .. Len(eng.events) :
        LET ev == eng.events[i]
            t == ev.trigger
            now == IF t.kind = "Read" THEN read_counts[t.addr] ELSE write_counts[t.addr]
            expected == IF ev.repeat THEN (IF t.n = 0 THEN 0 ELSE (now \div t.n) - (ev.born \div t.n))
                        ELSE IF ev.born < t.n /\ t.n <= now THEN 1 ELSE 0
        IN  IF t.kind = "At" THEN eng.fires[i] <= 1
            ELSE IF ev.cancelled THEN eng.fires[i] <= expected
            ELSE eng.fires[i] = expected

(* A one-shot override answers the reads it was set for, of whatever       *)
(* width, and no more; a static one answers all of them.                   *)
OverridesAnswerAsSet ==
    \A a \in Addrs :
        LET g == eng.granted[a] IN
        eng.answered[a] = CASE g.kind = "Static" -> eng.reads[a]
                            [] g.kind = "OneShot" -> (IF eng.reads[a] < g.count THEN eng.reads[a]
                                                                               ELSE g.count)
                            [] OTHER -> 0

(* The writes that events ask for are made once each and in the order they *)
(* were asked for, or still wait; a word access leaves none waiting.       *)
DeferredWritesAreKept == eng.asked = eng.made \o eng.deferred
=============================================================================
