------------------------------- MODULE ToolCalls -------------------------------
(***************************************************************************)
(* The tools of the MCP server (mcp/handler.rs) as callers of the worker   *)
(* thread.  A tool acts in one of four ways: it reads the snapshot the     *)
(* worker published last, it takes the lock of the bank, it tells the      *)
(* worker (send, and answer ok), or it asks it (send with a one-slot reply *)
(* channel, and wait for the reply or the timeout).  call_tool logs the    *)
(* request before and the response after.  Calls of several clients run at *)
(* once; between them the worker handles its queue, publishes, and may be  *)
(* shut down with commands still queued.                                   *)
(*                                                                         *)
(* CpuWorker has the worker's commands in full; here they have the effects *)
(* the tools read back: a register, a word of memory, the breakpoint at an *)
(* address, a named snapshot and a peripheral register.  A value is the    *)
(* number of the call that wrote it, 0 before the first.  The word of      *)
(* memory is the last one of the SRAM and in no cache line, and the core   *)
(* is paused throughout.                                                   *)
(***************************************************************************)
EXTENDS Naturals, Sequences, FiniteSets

CONSTANTS
    Callers,        \* sessions of the server
    NoCaller,       \* not one of them
    MaxCalls,       \* bound: calls placed in all
    Offers,         \* bound: the sets of tools clients call in one behaviour
    UnmappedException  \* --unmapped-exception: an access no block claims is an error

VARIABLES
    calls,          \* per caller: the tool call it is in, or its last one
    placed,         \* calls placed so far
    commands,       \* the channel to the worker
    world,          \* what the worker and the bank hold
    shown,          \* EmulatorHandle::snapshot
    publishing,     \* the worker has replied and is about to publish
    alive, closing, \* the worker runs; Shutdown was sent
    in_flight,      \* EventLog::in_flight
    offered,        \* the tools of this behaviour
    carried_out,    \* history: the commands handled, in order, and the world after each
    cleared         \* history: the log was cleared

tool_vars == <<calls, placed, commands, world, shown, publishing, alive, closing, in_flight,
               offered, carried_out, cleared>>

Shown  == {"read_registers", "list_breakpoints"}
OfBank == {"write_mmio", "read_mmio"}
Told   == {"cpu_reset", "remove_breakpoint"}
Asks   == {"write_register", "set_breakpoint", "write_memory", "read_memory",
           "save_snapshot", "restore_snapshot", "delete_snapshot"}
Reads  == Shown \cup {"read_memory"}
Tools  == Shown \cup OfBank \cup Told \cup Asks
ASSUME OffersAssumption == \A offer \in Offers : offer \subseteq Tools
ASSUME CallersAssumption == IsFiniteSet(Callers) /\ NoCaller \notin Callers
ASSUME UnmappedAssumption == UnmappedException \in BOOLEAN

\* What can be wrong with an argument: the name of no register; bytes that run past
\* the end of the SRAM, or lie outside it; a text that is not hex.
Arguments(tool) == CASE tool = "write_register" -> {"fits", "unknown"}
                     [] tool = "write_memory" -> {"fits", "past_end", "outside", "bad_hex"}
                     [] OTHER -> {"fits"}
Args == {"fits", "unknown", "past_end", "outside", "bad_hex"}

\* `since` is history: how many commands had been handled when a read was called.
\* A snapshot has been saved before the calls begin.
Kept(w) == [reg |-> w.reg, ram |-> w.ram, mmio |-> w.mmio]
Before == [reg |-> 0, ram |-> 0, breakpoint |-> 0, mmio |-> 0,
           saved |-> <<[reg |-> 0, ram |-> 0, mmio |-> 0]>>]
NoCall  == [id |-> 0, tool |-> "none", arg |-> "fits", at |-> "idle", answer |-> "none", reply |-> <<>>,
            got |-> 0, since |-> 0]

tool_Init ==
    /\ calls = [c \in Callers |-> NoCall] /\ placed = 0
    /\ commands = <<>> /\ world = Before /\ shown = Before
    /\ publishing = FALSE /\ alive = TRUE /\ closing = FALSE
    /\ in_flight = 0 /\ offered \in Offers
    /\ carried_out = <<>> /\ cleared = FALSE

--------------------------------------------------------------------------------
\* A call.

\* call_tool, push_log_request.
call_tool(c) ==
    /\ calls[c].at = "idle" /\ placed < MaxCalls
    /\ placed' = placed + 1
    /\ \E t \in offered : \E a \in Arguments(t) :
         calls' = [calls EXCEPT ![c] =
                     [NoCall EXCEPT !.id = placed', !.tool = t, !.arg = a, !.at = "open",
                                    !.since = IF t \in Reads THEN Len(carried_out) ELSE 0]]
    /\ in_flight' = in_flight + 1
    /\ UNCHANGED <<commands, world, shown, publishing, alive, closing, offered, carried_out, cleared>>

\* The tool is done: push_log_response, and the client has its answer.
Answered(c, answer, got) ==
    /\ calls' = [calls EXCEPT ![c].at = "idle", ![c].answer = answer, ![c].got = got]
    /\ in_flight' = IF in_flight = 0 THEN 0 ELSE in_flight - 1

Seen(tool, w) == IF tool = "list_breakpoints" THEN w.breakpoint ELSE w.reg

\* read_registers, list_breakpoints: the last published snapshot.
ReadShown(c) ==
    /\ calls[c].at = "open" /\ calls[c].tool \in Shown
    /\ Answered(c, "ok", Seen(calls[c].tool, shown))
    /\ UNCHANGED <<placed, commands, world, shown, publishing, alive, closing, offered, carried_out, cleared>>

\* write_mmio, read_mmio: under the lock of the bank, past the worker's queue.
TakeBank(c) ==
    /\ calls[c].at = "open" /\ calls[c].tool \in OfBank
    /\ Answered(c, "ok", world.mmio)
    /\ world' = IF calls[c].tool = "write_mmio" THEN [world EXCEPT !.mmio = calls[c].id] ELSE world
    /\ UNCHANGED <<placed, commands, shown, publishing, alive, closing, offered, carried_out, cleared>>

Command(c) == [id |-> calls[c].id, tool |-> calls[c].tool, arg |-> calls[c].arg, from |-> c]

\* cpu_reset, remove_breakpoint: sent is answered ok.
Tell(c) ==
    /\ calls[c].at = "open" /\ calls[c].tool \in Told
    /\ IF alive THEN Answered(c, "ok", 0) /\ commands' = Append(commands, Command(c))
                ELSE Answered(c, "closed", 0) /\ UNCHANGED commands
    /\ UNCHANGED <<placed, world, shown, publishing, alive, closing, offered, carried_out, cleared>>

\* write_memory decodes its bytes before it sends anything.
Reject(c) ==
    /\ calls[c].at = "open" /\ calls[c].arg = "bad_hex"
    /\ Answered(c, "rejected", 0)
    /\ UNCHANGED <<placed, commands, world, shown, publishing, alive, closing, offered, carried_out, cleared>>

\* The others: sent, then recv_timeout on a reply channel of this call alone.
Ask(c) ==
    /\ calls[c].at = "open" /\ calls[c].tool \in Asks /\ calls[c].arg # "bad_hex"
    /\ IF alive THEN /\ calls' = [calls EXCEPT ![c].at = "waiting"] /\ UNCHANGED in_flight
                     /\ commands' = Append(commands, Command(c))
                ELSE Answered(c, "closed", 0) /\ UNCHANGED commands
    /\ UNCHANGED <<placed, world, shown, publishing, alive, closing, offered, carried_out, cleared>>

Receive(c) ==
    /\ calls[c].at = "waiting" /\ calls[c].reply # <<>>
    /\ Answered(c, IF calls[c].reply[1].ok THEN "ok" ELSE "refused", calls[c].reply[1].value)
    /\ UNCHANGED <<placed, commands, world, shown, publishing, alive, closing, offered, carried_out, cleared>>

\* The timeout, or the worker is gone and with it the sender.
GiveUp(c) ==
    /\ calls[c].at = "waiting" /\ calls[c].reply = <<>>
    /\ Answered(c, "timeout", 0)
    /\ UNCHANGED <<placed, commands, world, shown, publishing, alive, closing, offered, carried_out, cleared>>

\* Bound: the log is cleared once, or the worker shut down, in a behaviour.
Undisturbed == ~cleared /\ ~closing

\* EventLog::clear, from the button of the activity panel.
ClearLog ==
    /\ Undisturbed /\ cleared' = TRUE
    /\ in_flight' = 0
    /\ UNCHANGED <<calls, placed, commands, world, shown, publishing, alive, closing, offered, carried_out>>

--------------------------------------------------------------------------------
\* The worker.

Restarted(w) == [w EXCEPT !.reg = 0, !.ram = 0, !.breakpoint = 0, !.mmio = 0]

\* handle_cmd on what the tools read back.  write_register_by_name finds its register
\* or changes nothing; write_sram goes byte by byte and keeps those before an error.
Effect_of(cmd, w) ==
    CASE cmd.tool = "write_register" /\ cmd.arg = "fits" -> [w EXCEPT !.reg = cmd.id]
      [] cmd.tool = "write_memory" /\ cmd.arg \in {"fits", "past_end"} -> [w EXCEPT !.ram = cmd.id]
      [] cmd.tool = "set_breakpoint" -> [w EXCEPT !.breakpoint = IF @ = 0 THEN cmd.id ELSE @]
      [] cmd.tool = "remove_breakpoint" -> [w EXCEPT !.breakpoint = 0]
      [] cmd.tool = "save_snapshot" -> [w EXCEPT !.saved = <<Kept(w)>>]
      [] cmd.tool = "delete_snapshot" -> [w EXCEPT !.saved = <<>>]
      [] cmd.tool = "restore_snapshot" /\ w.saved # <<>> ->
           [w EXCEPT !.reg = w.saved[1].reg, !.ram = w.saved[1].ram, !.mmio = w.saved[1].mmio]
      [] cmd.tool = "cpu_reset" -> Restarted(w)
      [] OTHER -> w

\* Ok or Err: the register is known, every byte of the write is claimed or ignored,
\* the snapshot to restore or delete is there.  save_named_snapshot has no Err.
Accepts(cmd, w) ==
    CASE cmd.tool = "write_register" -> cmd.arg = "fits"
      [] cmd.tool = "write_memory" -> UnmappedException => cmd.arg = "fits"
      [] cmd.tool \in {"restore_snapshot", "delete_snapshot"} -> w.saved # <<>>
      [] OTHER -> TRUE

ReplyTo(cmd, w) ==
    [ok |-> Accepts(cmd, w), value |-> IF cmd.tool = "read_memory" THEN w.ram ELSE 0]

\* publish_snapshot before the reply, after it (write_register, also when the reply
\* is an Err), or not at all.
PublishesFirst(cmd, w) == cmd.tool = "restore_snapshot" /\ w.saved # <<>>
PublishesAfter(cmd)    == cmd.tool \in {"write_register", "cpu_reset"}

\* drain_commands: the reply finds its call, or a receiver that is gone.
Handle ==
    /\ alive /\ ~publishing /\ commands # <<>> /\ Head(commands).tool # "shutdown"
    /\ LET cmd == Head(commands)
           heard == cmd.tool \in Asks /\ calls[cmd.from].id = cmd.id
                      /\ calls[cmd.from].at = "waiting"
       IN /\ world' = Effect_of(cmd, world)
          /\ shown' = IF PublishesFirst(cmd, world) THEN world' ELSE shown
          /\ publishing' = PublishesAfter(cmd)
          /\ calls' = IF heard THEN [calls EXCEPT ![cmd.from].reply = <<ReplyTo(cmd, world)>>]
                      ELSE calls
          /\ carried_out' = Append(carried_out, [command |-> cmd, after |-> world'])
    /\ commands' = Tail(commands)
    /\ UNCHANGED <<placed, alive, closing, in_flight, offered, cleared>>

\* publish_snapshot: what handle_cmd owes, or PUBLISH_INTERVAL and PAUSED_WAKE.
Publish ==
    /\ alive /\ (publishing \/ shown # world)
    /\ shown' = world /\ publishing' = FALSE
    /\ UNCHANGED <<calls, placed, commands, world, alive, closing, in_flight, offered, carried_out, cleared>>

\* The program ends: Shutdown is sent like any command, and what is behind it in
\* the queue goes with the receiver.
SendShutdown ==
    /\ Undisturbed /\ closing' = TRUE
    /\ commands' = Append(commands, [id |-> 0, tool |-> "shutdown", arg |-> "fits", from |-> NoCaller])
    /\ UNCHANGED <<calls, placed, world, shown, publishing, alive, in_flight, offered, carried_out, cleared>>

HandleShutdown ==
    /\ alive /\ ~publishing /\ commands # <<>> /\ Head(commands).tool = "shutdown"
    /\ alive' = FALSE /\ commands' = <<>> /\ shown' = world
    /\ UNCHANGED <<calls, placed, world, publishing, closing, in_flight, offered, carried_out, cleared>>

tool_Next ==
    \/ \E c \in Callers : \/ call_tool(c) \/ ReadShown(c) \/ TakeBank(c) \/ Tell(c) \/ Reject(c)
                          \/ Ask(c) \/ Receive(c) \/ GiveUp(c)
    \/ ClearLog \/ Handle \/ Publish \/ SendShutdown \/ HandleShutdown

--------------------------------------------------------------------------------
CarriedOut(id) == \E i \in DOMAIN carried_out : carried_out[i].command.id = id
WorldAfter(n) == IF n = 0 THEN Before ELSE carried_out[n].after

\* Call `id` was handled and its arguments accepted in the world it found; or they
\* were not, and it changed nothing but what a write past the end of the SRAM had
\* stored by then.
Granted(id) ==
    \E i \in DOMAIN carried_out : LET cmd == carried_out[i].command IN
        cmd.id = id /\ Accepts(cmd, WorldAfter(i - 1))
Unchanged(v, w) == /\ v.reg = w.reg /\ v.ram = w.ram
                   /\ v.breakpoint = w.breakpoint /\ v.saved = w.saved
Denied(id) ==
    \E i \in DOMAIN carried_out : LET cmd == carried_out[i].command IN
        /\ cmd.id = id /\ ~Accepts(cmd, WorldAfter(i - 1))
        /\ cmd.arg = "past_end" \/ Unchanged(WorldAfter(i - 1), WorldAfter(i))

\* What a call that asked is told is so.  Ok and refused: its own command was
\* handled, and the answer is that command's, in the world it found, not a late one
\* of a call given up; closed and rejected: it never will be.
AnswersAreTheirOwn ==
    \A c \in Callers : LET k == calls[c] IN
        k.at = "idle" /\ k.tool \in Asks =>
            /\ k.answer = "ok" => Granted(k.id)
            /\ k.answer = "refused" => Denied(k.id)
            /\ k.answer \in {"closed", "rejected"} => ~CarriedOut(k.id)

\* What a tool reads was so at a moment of its call: read_memory at one between its
\* call and its answer; read_registers and list_breakpoints, which read what was
\* published last, at one no earlier than the last restore, which is published
\* before it is answered.
Restore(i) == carried_out[i].command.tool = "restore_snapshot" /\ WorldAfter(i - 1).saved # <<>>
ReadsAreInTime ==
    \A c \in Callers : LET k == calls[c] IN
        k.at = "idle" /\ k.answer = "ok" =>
            /\ k.tool = "read_memory" =>
                 \E n \in k.since .. Len(carried_out) : k.got = WorldAfter(n).ram
            /\ k.tool \in Shown =>
                 \E n \in 0 .. Len(carried_out) :
                     /\ k.got = Seen(k.tool, WorldAfter(n))
                     /\ \A i \in n + 1 .. k.since : ~Restore(i)

\* A command is handled once, and those of one caller in the order of its calls:
\* also one given up on, so that the retry comes after it.
HandledInCallOrder ==
    \A i, j \in DOMAIN carried_out :
        LET one == carried_out[i].command
            next == carried_out[j].command
        IN i < j /\ one.from = next.from => one.id < next.id

\* The spinner of the activity panel: in_flight is the number of open calls until
\* the log is cleared, and never more.
InFlightIsOpen ==
    LET open == Cardinality({c \in Callers : calls[c].at # "idle"})
    IN in_flight <= open /\ (~cleared => in_flight = open)

\* The four together.
ToolCallsHold == AnswersAreTheirOwn /\ ReadsAreInTime /\ HandledInCallOrder /\ InFlightIsOpen

\* What the proof is by induction on.

KeptWorld == [reg : Nat, ram : Nat, mmio : Nat]
World == [reg : Nat, ram : Nat, breakpoint : Nat, mmio : Nat, saved : Seq(KeptWorld)]
Reply == [ok : BOOLEAN, value : Nat]
AnswerKinds == {"ok", "refused", "timeout", "closed", "rejected"}
Call == [id : Nat, tool : Tools \cup {"none"}, arg : Args, at : {"idle", "open", "waiting"},
         answer : {"none"} \cup AnswerKinds, reply : Seq(Reply),
         got : Nat, since : Nat]
Sendable == [id : Nat, tool : Tools \cup {"shutdown"}, arg : Args,
             from : Callers \cup {NoCaller}]
Handled == [command : Sendable, after : World]

ToolTypes ==
    /\ calls \in [Callers -> Call] /\ placed \in Nat /\ in_flight \in Nat
    /\ commands \in Seq(Sendable) /\ carried_out \in Seq(Handled)
    /\ world \in World /\ shown \in World
    /\ alive \in BOOLEAN /\ cleared \in BOOLEAN /\ offered \in Offers

\* A number is one caller's, and what has been sent under it is what that call asks.
Belongs(cmd) ==
    /\ cmd.id <= placed
    /\ cmd.from \in Callers => cmd.id <= calls[cmd.from].id
    /\ \A c \in Callers : cmd.id = calls[c].id /\ cmd.id # 0 =>
          /\ cmd.from = c /\ cmd.tool = calls[c].tool /\ cmd.arg = calls[c].arg
          /\ calls[c].at # "open"
    /\ cmd.tool \in Asks => cmd.arg # "bad_hex"
    /\ cmd.tool # "shutdown" => cmd.from \in Callers /\ cmd.id # 0

NumbersHaveOwners ==
    /\ \A c \in Callers :
          /\ calls[c].id <= placed
          /\ calls[c].since <= Len(carried_out)
          /\ calls[c].at # "idle" => calls[c].id # 0 /\ calls[c].tool \in Tools
          /\ calls[c].at = "waiting" => calls[c].tool \in Asks
    /\ \A c, d \in Callers : calls[c].id = calls[d].id /\ calls[c].id # 0 => c = d

CommandsBelong ==
    /\ \A i \in DOMAIN commands : Belongs(commands[i])
    /\ \A i \in DOMAIN carried_out :
          Belongs(carried_out[i].command) /\ carried_out[i].command.tool # "shutdown"

\* The queue continues what has been handled, in the order of each caller's calls.
QueuedInCallOrder ==
    /\ \A i, j \in DOMAIN commands :
          i < j /\ commands[i].from = commands[j].from /\ commands[i].from \in Callers
            => commands[i].id < commands[j].id
    /\ \A i \in DOMAIN carried_out, j \in DOMAIN commands :
          carried_out[i].command.from = commands[j].from /\ commands[j].from \in Callers
            => carried_out[i].command.id < commands[j].id

\* A reply is one to the call that waits for it; a sender that found the worker
\* gone finds it so for good; only what cannot be decoded is never sent.
RepliesAreTheirOwn ==
    \A c \in Callers : LET k == calls[c] IN
        /\ k.at = "waiting" /\ k.reply # <<>> =>
             /\ IF k.reply[1].ok THEN Granted(k.id) ELSE Denied(k.id)
             /\ k.tool = "read_memory" =>
                  \E n \in k.since .. Len(carried_out) : k.reply[1].value = WorldAfter(n).ram
        /\ k.at = "open" => k.reply = <<>>
        /\ k.at = "idle" /\ k.answer = "closed" => ~alive
        /\ k.at = "idle" /\ k.answer = "rejected" => k.arg = "bad_hex"

\* The worker's world is the one after its last command, but for the peripheral
\* register; what is shown is one no restore has replaced.
WorldIsCurrent ==
    LET last == WorldAfter(Len(carried_out))
    IN /\ <<world.reg, world.ram, world.breakpoint>> = <<last.reg, last.ram, last.breakpoint>>
       /\ world.saved = last.saved
       /\ \E n \in 0 .. Len(carried_out) :
             /\ shown.reg = WorldAfter(n).reg /\ shown.breakpoint = WorldAfter(n).breakpoint
             /\ \A i \in n + 1 .. Len(carried_out) : ~Restore(i)

ToolsInv == /\ ToolTypes /\ NumbersHaveOwners /\ CommandsBelong /\ QueuedInCallOrder
            /\ RepliesAreTheirOwn /\ WorldIsCurrent /\ ToolCallsHold

\* Statements the code does not keep.

\* `ok: false` means that the tool did nothing.  A call given up on after its
\* timeout is answered so, and its command is handled all the same; a write_memory
\* that runs past the end of the SRAM is, and the bytes before the end are written.
FailedIsNotDone ==
    \A c \in Callers, i \in DOMAIN carried_out :
        /\ calls[c].at = "idle" /\ calls[c].answer \in {"timeout", "refused"}
        /\ carried_out[i].command.id = calls[c].id
        => Unchanged(WorldAfter(i - 1), WorldAfter(i))

\* read_registers shows a write_register that was answered ok.  The reply is sent
\* before the snapshot is published.
ShownFollowsTheAnswer ==
    \A c \in Callers : LET k == calls[c] IN
        k.at = "idle" /\ k.tool = "read_registers" =>
            \E n \in k.since .. Len(carried_out) : k.got = WorldAfter(n).reg
===============================================================================
