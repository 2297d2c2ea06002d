----------------------------- MODULE Soc_proofs -----------------------------
(***************************************************************************)
(* Proofs about the devices of the bank and the tools, as MCSoc joins      *)
(* them.  No two share state, so each has an invariant of its own, that    *)
(* its own steps keep and everybody else's leave alone.                    *)
(***************************************************************************)
EXTENDS MCSoc, FiniteSetTheorems, SequenceTheorems, TLAPS

-----------------------------------------------------------------------------
(* A step of the join is a step of one device, or leaves that device alone.*)

LEMMA StepOfOne ==
    ASSUME [Next]_soc_vars
    PROVE  /\ pbc_Next \/ UNCHANGED pbc_vars
           /\ tool_Next \/ UNCHANGED tool_vars
           /\ mbus_Next \/ UNCHANGED mbus_vars
           /\ cmd_Next \/ UNCHANGED cmd_vars
           /\ status_Next \/ UNCHANGED status_vars
           /\ epon_Next \/ UNCHANGED epon_vars
           /\ rf_Next \/ UNCHANGED rf_vars
           /\ map_Next \/ UNCHANGED map_vars
           /\ uart_Next \/ UNCHANGED uart_vars
           /\ bsc_Next \/ UNCHANGED bsc_vars
           /\ codec_Next \/ UNCHANGED codec_vars
           /\ uplink_Next \/ UNCHANGED uplink_vars
<1>1. CASE UNCHANGED soc_vars
      BY <1>1 DEF soc_vars
<1>2. CASE Next
      BY <1>2 DEF Next, Others
<1> QED BY <1>1, <1>2

-----------------------------------------------------------------------------
(* The flash.                                                              *)

(* Programming and erasing make an image of an image.                      *)
LEMMA StillAnImage ==
    ASSUME flash \in Image
    PROVE  /\ \A addr, bytes : Programmed(addr, bytes) \in Image
           /\ \A addr, size : Erased(addr, size) \in Image
           /\ Blank \in Image
BY DEF Image, Cell, Programmed, Erased, Blank

(* A command of the FIFO changes the image only with the flag.             *)
LEMMA CommandFlags ==
    ASSUME flash \in Image, NEW c, FlashCommand(c)
    PROVE  flash' \in Image /\ (dirty' = TRUE \/ UNCHANGED <<flash, dirty>>)
<1>1. CASE WriteEnable(c) /\ UNCHANGED <<flash, busy_ticks, dirty>>
      BY <1>1
<1>2. CASE WriteStatus(c) /\ UNCHANGED <<flash, busy_ticks, dirty, aai_addr>>
      BY <1>2
<1>3. CASE Program(c)
      BY <1>3, StillAnImage DEF Program, Modify
<1>4. CASE ContinuousProgram(c)
      BY <1>4, StillAnImage DEF ContinuousProgram
<1>5. CASE UNCHANGED <<flash, status, busy_ticks, dirty, aai_addr>>
      BY <1>5
<1> QED BY <1>1, <1>2, <1>3, <1>4, <1>5 DEF FlashCommand

(* Loading a file of the image and of what was saved: equal where it       *)
(* reaches.                                                                *)
LEMMA LoadedAlike ==
    ASSUME flash \in Image, saved \in Image, NEW n \in FileLengths, NEW k
    PROVE  /\ Loaded(flash, n, k) \in Image /\ Loaded(saved, n, k) \in Image
           /\ \A a \in FlashAddr : Covered(a) => Loaded(flash, n, k)[a] = Loaded(saved, n, k)[a]
<1>1. \A a \in FlashAddr : Covered(a) => ~(a >= n)
      BY PbcAssumption DEF PbcAssumption, Covered, FlashAddr
<1> QED BY <1>1 DEF Image, Cell, Loaded

(* What is programmed, erased, written, loaded or saved keeps the flash    *)
(* apart from its file only where the flag says so (pbc.rs, flash.rs).     *)
LEMMA FlashStep == ASSUME FlashInv, pbc_Next PROVE FlashInv'
<1> USE DEF FlashInv
<1>1. CASE StartCommand
  <2>1. PICK op \in Ops, addr \in (0 .. FlashSize) \cup {NoAddr}, data \in Payloads :
          \/ UNCHANGED <<flash, dirty>>
          \/ FlashCommand([op |-> op, addr |-> addr, data |-> data])
        BY <1>1 DEF StartCommand
  <2>2. flash' \in Image /\ (dirty' = TRUE \/ UNCHANGED <<flash, dirty>>)
        BY <2>1, CommandFlags
  <2> QED BY <1>1, <2>2 DEF StartCommand, Covered
<1>2. CASE StartEmpty \/ WriteControl \/ PollSpi \/ PollDma \/ StartDma
      BY <1>2 DEF StartEmpty, WriteControl, PollSpi, PollDma, StartDma, flash_vars, Covered
<1>3. CASE DrainDma
      BY <1>3, StillAnImage DEF DrainDma, Covered
<1>4. CASE pbc_tick \/ pbc_reset
      BY <1>4 DEF pbc_tick, pbc_reset, Covered
<1>5. CASE LoadFlashFromFile
      BY <1>5, LoadedAlike DEF LoadFlashFromFile, Covered
<1>6. CASE LoadFirmware
      BY <1>6, LoadedAlike DEF LoadFirmware, Covered
<1>7. CASE EraseSector
      BY <1>7, StillAnImage DEF EraseSector, Covered
<1>8. CASE WriteFlash
      BY <1>8 DEF WriteFlash, Image, Covered
<1>9. CASE PersistFlash
      BY <1>9 DEF PersistFlash, Covered
<1> QED BY <1>1, <1>2, <1>3, <1>4, <1>5, <1>6, <1>7, <1>8, <1>9 DEF pbc_Next

(* Whatever the sizes and the lengths of the files: where every file       *)
(* reaches, the flash is as it was saved, or it is dirty (pbc.rs).         *)
THEOREM FlashInvariance == Spec => []FlashInv
<1>1. Init => FlashInv
      BY DEF Init, pbc_Init, FlashInv, Image, Blank, Cell
<1>2. FlashInv /\ [Next]_soc_vars => FlashInv'
  <2> SUFFICES ASSUME FlashInv, [Next]_soc_vars PROVE FlashInv'
      OBVIOUS
  <2>1. CASE UNCHANGED pbc_vars
        BY <2>1 DEF FlashInv, pbc_vars, flash_vars, Covered
  <2> QED BY <2>1, FlashStep, StepOfOne
<1> QED BY <1>1, <1>2, PTL DEF Spec

(* With files as long as the flash, nothing unsaved goes unflagged.        *)
THEOREM UnsavedImagesAreFlagged ==
    ASSUME FileLengths \subseteq {FlashSize}
    PROVE  Spec => []UnsavedIsDirty
<1>1. FlashInv => UnsavedIsDirty
  <2>1. \A a \in FlashAddr : Covered(a)
        BY PbcAssumption DEF PbcAssumption, FlashAddr, Covered
  <2> QED BY <2>1 DEF FlashInv, UnsavedIsDirty, Image
<1> QED BY <1>1, FlashInvariance, PTL

-----------------------------------------------------------------------------
(* The tools.                                                              *)

Open == {c \in Callers : calls[c].at # "idle"}

(* A call is answered, and no other is touched.                            *)
LEMMA AnsweredCall ==
    ASSUME ToolTypes, NEW c \in Callers, NEW answer \in AnswerKinds,
           NEW fetched \in Nat, Answered(c, answer, fetched)
    PROVE  /\ calls' \in [Callers -> Call] /\ in_flight' \in Nat
           /\ \A d \in Callers : d # c => calls'[d] = calls[d]
           /\ calls'[c].id = calls[c].id /\ calls'[c].tool = calls[c].tool
           /\ calls'[c].since = calls[c].since /\ calls'[c].reply = calls[c].reply
           /\ calls'[c].arg = calls[c].arg
           /\ calls'[c].at = "idle" /\ calls'[c].answer = answer /\ calls'[c].got = fetched
<1>1. /\ \A d \in Callers : d # c => calls'[d] = calls[d]
      /\ calls'[c] = [calls[c] EXCEPT !.at = "idle", !.answer = answer, !.got = fetched]
      /\ calls' = [d \in Callers |-> IF d = c THEN calls'[c] ELSE calls[d]]
      BY DEF ToolTypes, Answered
<1>2. calls[c] \in Call
      BY DEF ToolTypes
<1>3. calls'[c] \in Call
      BY <1>1, <1>2 DEF Call, AnswerKinds
<1>4. calls' \in [Callers -> Call]
      BY <1>1, <1>3 DEF ToolTypes
<1>5. in_flight' \in Nat
      BY DEF ToolTypes, Answered
<1> QED BY <1>1, <1>2, <1>4, <1>5 DEF Call

(* Commands belong to whom they did while numbers and tools stay and no    *)
(* call is opened.                                                         *)
LEMMA StillBelongs ==
    ASSUME placed' = placed,
           \A d \in Callers : /\ calls'[d].id = calls[d].id /\ calls'[d].tool = calls[d].tool
                              /\ calls'[d].arg = calls[d].arg
                              /\ calls'[d].at = "open" => calls[d].at = "open"
    PROVE  \A cmd : Belongs(cmd) => Belongs(cmd)'
BY DEF Belongs

(* One open call less: the spinner follows.                                *)
LEMMA OneLess ==
    ASSUME ToolsInv, NEW c \in Callers, calls[c].at # "idle", cleared' = cleared,
           NEW answer \in AnswerKinds, NEW fetched \in Nat,
           Answered(c, answer, fetched)
    PROVE  InFlightIsOpen'
<1>1. IsFiniteSet(Open) /\ c \in Open
      BY CallersAssumption, FS_Subset DEF CallersAssumption, Open
<1>2. Open' = Open \ {c}
      BY AnsweredCall DEF ToolsInv, Open
<1>3. Cardinality(Open') = Cardinality(Open) - 1 /\ Cardinality(Open) \in Nat
      BY <1>1, <1>2, FS_RemoveElement, FS_CardinalityType
<1>4. Cardinality(Open) > 0
      BY <1>1, <1>3, FS_EmptySet
<1>5. in_flight \in Nat /\ in_flight <= Cardinality(Open) /\ (~cleared => in_flight = Cardinality(Open))
      BY DEF ToolsInv, ToolTypes, ToolCallsHold, InFlightIsOpen, Open
<1>6. in_flight' = IF in_flight = 0 THEN 0 ELSE in_flight - 1
      BY DEF Answered
<1>7. in_flight' <= Cardinality(Open') /\ (~cleared' => in_flight' = Cardinality(Open'))
      BY <1>3, <1>4, <1>5, <1>6
<1> QED BY <1>7 DEF InFlightIsOpen, Open

(* One open call more.                                                     *)
LEMMA OneMore ==
    ASSUME ToolsInv, NEW c \in Callers, calls[c].at = "idle", cleared' = cleared,
           in_flight' = in_flight + 1, calls'[c].at # "idle",
           \A d \in Callers : d # c => calls'[d] = calls[d]
    PROVE  InFlightIsOpen'
<1>1. IsFiniteSet(Open) /\ c \notin Open
      BY CallersAssumption, FS_Subset DEF CallersAssumption, Open
<1>2. Open' = Open \cup {c}
      BY DEF Open
<1>3. Cardinality(Open') = Cardinality(Open) + 1 /\ Cardinality(Open) \in Nat
      BY <1>1, <1>2, FS_AddElement, FS_CardinalityType
<1>4. in_flight \in Nat /\ in_flight <= Cardinality(Open) /\ (~cleared => in_flight = Cardinality(Open))
      BY DEF ToolsInv, ToolTypes, ToolCallsHold, InFlightIsOpen, Open
<1>5. in_flight' <= Cardinality(Open') /\ (~cleared' => in_flight' = Cardinality(Open'))
      BY <1>3, <1>4
<1> QED BY <1>5 DEF InFlightIsOpen, Open

(* What an answer owes: closed and rejected, that the command was never    *)
(* sent; ok and refused, that it was handled and decided so; a read, that  *)
(* it was so.                                                              *)
Owed(k, answer, fetched) ==
    /\ k.tool \in Asks /\ answer = "ok" => Granted(k.id)
    /\ k.tool \in Asks /\ answer = "refused" => Denied(k.id)
    /\ answer \in {"closed", "rejected"} => ~CarriedOut(k.id)
    /\ answer = "closed" => ~alive
    /\ answer = "rejected" => k.arg = "bad_hex"
    /\ answer = "ok" /\ k.tool = "read_memory" =>
         \E n \in k.since .. Len(carried_out) : fetched = WorldAfter(n).ram
    /\ answer = "ok" /\ k.tool \in Shown =>
         \E n \in 0 .. Len(carried_out) :
             fetched = Seen(k.tool, WorldAfter(n)) /\ \A i \in n + 1 .. k.since : ~Restore(i)

(* What is said of the history holds while the history does.               *)
LEMMA HistoryAlone ==
    ASSUME UNCHANGED carried_out
    PROVE  /\ \A id : CarriedOut(id)' <=> CarriedOut(id)
           /\ \A n : WorldAfter(n)' = WorldAfter(n)
           /\ \A i : Restore(i)' <=> Restore(i)
           /\ \A id : (Granted(id)' <=> Granted(id)) /\ (Denied(id)' <=> Denied(id))
<1>1. \A n : WorldAfter(n)' = WorldAfter(n)
      BY DEF WorldAfter
<1>2. \A id : CarriedOut(id)' <=> CarriedOut(id)
      BY DEF CarriedOut
<1>3. \A i : Restore(i)' <=> Restore(i)
      BY <1>1 DEF Restore
<1>4. \A id : Granted(id)' <=> Granted(id)
      BY <1>1 DEF Granted
<1>5. \A id : Denied(id)' <=> Denied(id)
      BY <1>1 DEF Denied
<1> QED BY <1>1, <1>2, <1>3, <1>4, <1>5

(* A call that is answered what is owed keeps the promises of the calls.   *)
LEMMA AnsweredInKind ==
    ASSUME ToolsInv, NEW c \in Callers, calls[c].at # "idle",
           NEW answer \in AnswerKinds, NEW fetched \in Nat,
           Answered(c, answer, fetched), Owed(calls[c], answer, fetched),
           UNCHANGED <<placed, alive, carried_out, cleared>>
    PROVE  NumbersHaveOwners' /\ RepliesAreTheirOwn' /\ ToolCallsHold'
<1> USE AnsweredCall DEF ToolsInv
<1>1. /\ \A d \in Callers : d # c => calls'[d] = calls[d]
      /\ calls'[c].id = calls[c].id /\ calls'[c].tool = calls[c].tool
      /\ calls'[c].since = calls[c].since /\ calls'[c].arg = calls[c].arg
      /\ calls'[c].at = "idle" /\ calls'[c].answer = answer /\ calls'[c].got = fetched
      OBVIOUS
<1> HIDE AnsweredCall
<1>2. /\ \A id : CarriedOut(id)' <=> CarriedOut(id)
      /\ \A n : WorldAfter(n)' = WorldAfter(n)
      /\ \A i : Restore(i)' <=> Restore(i)
      /\ \A id : (Granted(id)' <=> Granted(id)) /\ (Denied(id)' <=> Denied(id))
      BY HistoryAlone
<1>3. NumbersHaveOwners'
      BY <1>1 DEF NumbersHaveOwners
<1>4. RepliesAreTheirOwn'
      BY <1>1, <1>2 DEF RepliesAreTheirOwn, Owed
<1>5. AnswersAreTheirOwn'
      BY <1>1, <1>2 DEF AnswersAreTheirOwn, ToolCallsHold, Owed
<1>6. ReadsAreInTime'
      BY <1>1, <1>2 DEF ReadsAreInTime, ToolCallsHold, Owed
<1>7. HandledInCallOrder'
      BY DEF HandledInCallOrder, ToolCallsHold
<1>8. InFlightIsOpen'
      BY OneLess
<1> QED BY <1>3, <1>4, <1>5, <1>6, <1>7, <1>8 DEF ToolCallsHold

(* A queue and a history that stay belong to whom they did.                *)
LEMMA QueueAlone ==
    ASSUME CommandsBelong, QueuedInCallOrder, \A cmd : Belongs(cmd) => Belongs(cmd)',
           UNCHANGED <<commands, carried_out>>
    PROVE  CommandsBelong' /\ QueuedInCallOrder'
<1>1. CommandsBelong'
      BY DEF CommandsBelong
<1>2. QueuedInCallOrder'
      BY DEF QueuedInCallOrder
<1> QED BY <1>1, <1>2

(* Commands, queued and handled, are numbered.                             *)
LEMMA Numbered ==
    ASSUME ToolTypes
    PROVE  /\ \A i \in DOMAIN commands : commands[i] \in Sendable /\ commands[i].id \in Nat
           /\ \A i \in DOMAIN carried_out : /\ carried_out[i] \in Handled
                                            /\ carried_out[i].command \in Sendable
                                            /\ carried_out[i].command.id \in Nat
<1>1. \A cmd \in Sendable : cmd.id \in Nat
      BY DEF Sendable
<1>2. \A i \in DOMAIN commands : commands[i] \in Sendable
      BY DEF ToolTypes
<1>3. \A i \in DOMAIN carried_out : carried_out[i] \in Handled
      BY DEF ToolTypes
<1>4. \A h \in Handled : h.command \in Sendable
      BY DEF Handled
<1> QED BY <1>1, <1>2, <1>3, <1>4

(* A command of an open call goes behind all of its caller's.              *)
LEMMA SentLast ==
    ASSUME ToolsInv, NEW c \in Callers, calls[c].at = "open", calls'[c].at # "open",
           calls[c].tool \in Asks => calls[c].arg # "bad_hex",
           commands' = Append(commands, Command(c)), UNCHANGED <<placed, carried_out>>,
           \A d \in Callers : /\ calls'[d].id = calls[d].id /\ calls'[d].tool = calls[d].tool
                              /\ calls'[d].arg = calls[d].arg
                              /\ calls'[d].at = "open" => calls[d].at = "open"
    PROVE  commands' \in Seq(Sendable) /\ CommandsBelong' /\ QueuedInCallOrder'
<1> USE DEF ToolsInv
<1>1. \A cmd : Belongs(cmd) => Belongs(cmd)'
      BY StillBelongs
<1>2. /\ calls[c].id \in Nat /\ calls[c].id # 0 /\ calls[c].tool \in Tools /\ calls[c].id <= placed
      /\ calls[c].arg \in Args
      BY DEF ToolTypes, Call, NumbersHaveOwners
<1>3. PICK cmd \in Sendable : cmd = Command(c)
      BY <1>2 DEF Command, Sendable
<1>4. cmd.id = calls[c].id /\ cmd.from = c /\ cmd.tool = calls[c].tool /\ cmd.arg = calls[c].arg
      BY <1>3 DEF Command
<1>5. Belongs(cmd)'
  <2>1. \A d \in Callers : calls'[d].id = calls[c].id => d = c
        BY <1>2 DEF NumbersHaveOwners
  <2> QED BY <1>2, <1>4, <2>1 DEF Belongs, ToolTypes
<1>6. \A old : Belongs(old) /\ old.from = c /\ old.id \in Nat => old.id < calls[c].id
      BY <1>2 DEF Belongs
<1>7. /\ commands \in Seq(Sendable) /\ commands' \in Seq(Sendable)
      /\ Len(commands') = Len(commands) + 1 /\ Len(commands) \in Nat
      /\ \A i \in 1 .. Len(commands) : commands'[i] = commands[i]
      /\ commands'[Len(commands) + 1] = cmd
      BY <1>3 DEF ToolTypes
<1>8. /\ \A i \in 1 .. Len(commands) : commands[i].id \in Nat
      /\ \A i \in DOMAIN carried_out : carried_out[i].command.id \in Nat
      BY <1>7, Numbered
<1>9. CommandsBelong'
      BY <1>1, <1>5, <1>7 DEF CommandsBelong
<1>10. QueuedInCallOrder'
  <2>1. ASSUME NEW i \in DOMAIN commands', NEW j \in DOMAIN commands', i < j,
               commands'[i].from = commands'[j].from, commands'[i].from \in Callers
        PROVE  commands'[i].id < commands'[j].id
    <3>1. CASE j \in 1 .. Len(commands)
          BY <1>7, <2>1, <3>1 DEF QueuedInCallOrder
    <3>2. CASE j = Len(commands) + 1
      <4>1. i \in 1 .. Len(commands) /\ Belongs(commands[i])
            BY <1>7, <2>1, <3>2 DEF CommandsBelong
      <4> QED BY <1>4, <1>6, <1>7, <1>8, <2>1, <3>2, <4>1
    <3> QED BY <1>7, <3>1, <3>2
  <2>2. ASSUME NEW i \in DOMAIN carried_out, NEW j \in DOMAIN commands',
               carried_out[i].command.from = commands'[j].from, commands'[j].from \in Callers
        PROVE  carried_out[i].command.id < commands'[j].id
    <3>1. CASE j \in 1 .. Len(commands)
          BY <1>7, <2>2, <3>1 DEF QueuedInCallOrder
    <3>2. CASE j = Len(commands) + 1
          BY <1>4, <1>6, <1>7, <1>8, <2>2, <3>2 DEF CommandsBelong
    <3> QED BY <1>7, <3>1, <3>2
  <2> QED BY <2>1, <2>2 DEF QueuedInCallOrder
<1> QED BY <1>7, <1>9, <1>10

(* What a step of a call that touches neither the world nor the history    *)
(* leaves of the worker's part.                                            *)
LEMMA WorldAlone ==
    ASSUME WorldIsCurrent, UNCHANGED <<shown, carried_out>>,
           /\ world'.reg = world.reg /\ world'.ram = world.ram
           /\ world'.breakpoint = world.breakpoint /\ world'.saved = world.saved
    PROVE  WorldIsCurrent'
BY DEF WorldIsCurrent, WorldAfter, Restore

(* Adding a numbered call leaves the commands to their callers.            *)
LEMMA call_tool_step == ASSUME ToolsInv, NEW c \in Callers, call_tool(c) PROVE ToolsInv'
<1> USE DEF ToolsInv
<1>1. PICK t \in offered : \E a \in Arguments(t) :
        calls' = [calls EXCEPT ![c] =
                    [NoCall EXCEPT !.id = placed', !.tool = t, !.arg = a, !.at = "open",
                                   !.since = IF t \in Reads THEN Len(carried_out) ELSE 0]]
      BY DEF call_tool
<1>a. PICK arg \in Arguments(t) :
        calls' = [calls EXCEPT ![c] =
                    [NoCall EXCEPT !.id = placed', !.tool = t, !.arg = arg, !.at = "open",
                                   !.since = IF t \in Reads THEN Len(carried_out) ELSE 0]]
      BY <1>1
<1>b. arg \in Args
      BY DEF Arguments, Args
<1>2. /\ placed' = placed + 1 /\ in_flight' = in_flight + 1 /\ calls[c].at = "idle"
      /\ UNCHANGED <<commands, world, shown, alive, offered, carried_out, cleared>>
      BY DEF call_tool
<1>3. t \in Tools /\ Len(carried_out) \in Nat /\ placed \in Nat /\ in_flight \in Nat
      BY OffersAssumption DEF ToolTypes
<1>4. /\ calls'[c].id = placed + 1 /\ calls'[c].tool = t /\ calls'[c].at = "open"
      /\ calls'[c].reply = <<>> /\ calls'[c].since \in 0 .. Len(carried_out)
      /\ calls'[c] \in Call
      /\ \A d \in Callers : d # c => calls'[d] = calls[d]
      /\ calls' \in [Callers -> Call]
  <2>1. PICK k : k = [NoCall EXCEPT !.id = placed', !.tool = t, !.arg = arg, !.at = "open",
                     !.since = IF t \in Reads THEN Len(carried_out) ELSE 0]
        OBVIOUS
  <2>2. /\ k \in Call /\ k.id = placed + 1 /\ k.tool = t /\ k.at = "open" /\ k.reply = <<>>
        /\ k.since \in 0 .. Len(carried_out)
    <3>1. k.id = placed + 1 /\ k.tool = t /\ k.at = "open" /\ k.reply = <<>>
          /\ k.since = (IF t \in Reads THEN Len(carried_out) ELSE 0)
          BY <1>2, <2>1 DEF NoCall
    <3>2. k = [id |-> placed + 1, tool |-> t, arg |-> arg, at |-> "open", answer |-> "none", reply |-> <<>>,
               got |-> 0, since |-> IF t \in Reads THEN Len(carried_out) ELSE 0]
          BY <1>2, <2>1 DEF NoCall
    <3>3. <<>> \in Seq(Reply) /\ placed + 1 \in Nat /\ k.since \in 0 .. Len(carried_out)
          BY <1>3, <3>1
    <3> QED BY <1>3, <1>b, <3>1, <3>2, <3>3 DEF Call
  <2>3. calls' = [calls EXCEPT ![c] = k]
        BY <1>a, <2>1
  <2> QED BY <2>2, <2>3 DEF ToolTypes
<1>5. ToolTypes'
      BY <1>2, <1>3, <1>4 DEF ToolTypes
<1>6. NumbersHaveOwners'
  <2>1. \A d \in Callers : calls[d].id \in Nat /\ calls[d].since \in Nat
        BY DEF ToolTypes, Call
  <2>2. ASSUME NEW d \in Callers
        PROVE  /\ calls'[d].id <= placed' /\ calls'[d].since <= Len(carried_out')
               /\ calls'[d].at # "idle" => calls'[d].id # 0 /\ calls'[d].tool \in Tools
               /\ calls'[d].at = "waiting" => calls'[d].tool \in Asks
    <3>1. CASE d = c
          BY <1>2, <1>3, <1>4, <3>1
    <3>2. CASE d # c
          BY <1>2, <1>3, <1>4, <2>1, <3>2 DEF NumbersHaveOwners
    <3> QED BY <3>1, <3>2
  <2>3. \A d, e \in Callers : calls'[d].id = calls'[e].id /\ calls'[d].id # 0 => d = e
        BY <1>3, <1>4, <2>1 DEF NumbersHaveOwners
  <2> QED BY <2>2, <2>3 DEF NumbersHaveOwners
<1>7. \A cmd : cmd.id \in Nat /\ Belongs(cmd) => Belongs(cmd)'
  <2> SUFFICES ASSUME NEW cmd, cmd.id \in Nat, Belongs(cmd) PROVE Belongs(cmd)'
      OBVIOUS
  <2>1. cmd.id <= placed' /\ (cmd.from \in Callers => cmd.id <= calls'[cmd.from].id)
        BY <1>2, <1>3, <1>4 DEF Belongs
  <2>2. ASSUME NEW d \in Callers, cmd.id = calls'[d].id, cmd.id # 0
        PROVE  /\ cmd.from = d /\ cmd.tool = calls'[d].tool /\ cmd.arg = calls'[d].arg
               /\ calls'[d].at # "open"
        BY <1>2, <1>3, <1>4, <2>2 DEF Belongs
  <2> QED BY <2>1, <2>2 DEF Belongs
<1>8. CommandsBelong'
      BY <1>2, <1>7, Numbered DEF CommandsBelong
<1>9. QueuedInCallOrder'
      BY <1>2 DEF QueuedInCallOrder
<1>10. RepliesAreTheirOwn'
      BY <1>2, <1>4, HistoryAlone DEF RepliesAreTheirOwn
<1>11. WorldIsCurrent'
      BY <1>2, WorldAlone
<1>12. AnswersAreTheirOwn' /\ ReadsAreInTime' /\ HandledInCallOrder'
      BY <1>2, <1>4, HistoryAlone DEF ToolCallsHold, AnswersAreTheirOwn, ReadsAreInTime,
                                      HandledInCallOrder
<1>13. InFlightIsOpen'
      BY <1>2, <1>4, OneMore
<1> QED BY <1>5, <1>6, <1>8, <1>9, <1>10, <1>11, <1>12, <1>13 DEF ToolCallsHold

(* An answer that leaves the queue, the history and what is shown alone.   *)
LEMMA JustAnswered ==
    ASSUME ToolsInv, NEW c \in Callers, calls[c].at # "idle",
           NEW answer \in AnswerKinds, NEW fetched \in Nat,
           Answered(c, answer, fetched), Owed(calls[c], answer, fetched), world' \in World,
           /\ world'.reg = world.reg /\ world'.ram = world.ram
           /\ world'.breakpoint = world.breakpoint /\ world'.saved = world.saved,
           UNCHANGED <<placed, commands, shown, alive, offered, carried_out, cleared>>
    PROVE  ToolsInv'
<1> USE DEF ToolsInv
<1>1. /\ calls' \in [Callers -> Call] /\ in_flight' \in Nat
      /\ \A d \in Callers : /\ calls'[d].id = calls[d].id /\ calls'[d].tool = calls[d].tool
                            /\ calls'[d].arg = calls[d].arg
                            /\ calls'[d].at = "open" => calls[d].at = "open"
  <2>1. /\ \A d \in Callers : d # c => calls'[d] = calls[d]
        /\ calls'[c].id = calls[c].id /\ calls'[c].tool = calls[c].tool /\ calls'[c].at = "idle"
        /\ calls'[c].arg = calls[c].arg
        /\ calls' \in [Callers -> Call] /\ in_flight' \in Nat
        BY AnsweredCall
  <2> QED BY <2>1
<1>2. ToolTypes'
      BY <1>1 DEF ToolTypes
<1>3. CommandsBelong' /\ QueuedInCallOrder'
      BY <1>1, StillBelongs, QueueAlone
<1>4. WorldIsCurrent'
      BY WorldAlone
<1>5. NumbersHaveOwners' /\ RepliesAreTheirOwn' /\ ToolCallsHold'
      BY AnsweredInKind
<1> QED BY <1>2, <1>3, <1>4, <1>5

(* No tool is of two kinds.                                                *)
LEMMA ToolKinds ==
    /\ Asks \cap (Shown \cup OfBank \cup Told) = {} /\ "read_memory" \notin Shown \cup OfBank \cup Told
    /\ Shown \cap (OfBank \cup Told) = {} /\ "shutdown" \notin Tools /\ "read_memory" \in Asks
BY DEF Tools, Asks, Shown, OfBank, Told

(* A read of what was published is answered at once (handler.rs).          *)
LEMMA ReadShown_step == ASSUME ToolsInv, NEW c \in Callers, ReadShown(c) PROVE ToolsInv'
<1>1. /\ calls[c].at = "open" /\ calls[c].tool \in Shown
      /\ UNCHANGED <<placed, commands, world, shown, alive, offered, carried_out, cleared>>
      BY DEF ReadShown
<1>2. PICK fetched : fetched = Seen(calls[c].tool, shown)
      OBVIOUS
<1>3. Answered(c, "ok", fetched)
      BY <1>2 DEF ReadShown
<1>4. fetched \in Nat /\ world \in World
      BY <1>2 DEF ToolsInv, ToolTypes, World, Seen
<1>5. calls[c].since \in Nat /\ Len(carried_out) \in Nat /\ calls[c].since <= Len(carried_out)
      BY DEF ToolsInv, ToolTypes, Call, NumbersHaveOwners
<1>6. \E n \in 0 .. Len(carried_out) :
          fetched = Seen(calls[c].tool, WorldAfter(n)) /\ \A i \in n + 1 .. calls[c].since : ~Restore(i)
      BY <1>2, <1>5 DEF ToolsInv, WorldIsCurrent, Seen
<1>7. Owed(calls[c], "ok", fetched)
      BY <1>1, <1>6, ToolKinds DEF Owed
<1> QED BY <1>1, <1>3, <1>4, <1>7, JustAnswered DEF AnswerKinds

(* A tool that locks the bank is answered from it.                         *)
LEMMA TakeBank_step == ASSUME ToolsInv, NEW c \in Callers, TakeBank(c) PROVE ToolsInv'
<1>1. /\ calls[c].at = "open" /\ calls[c].tool \in OfBank
      /\ UNCHANGED <<placed, commands, shown, alive, offered, carried_out, cleared>>
      /\ world' = IF calls[c].tool = "write_mmio" THEN [world EXCEPT !.mmio = calls[c].id] ELSE world
      BY DEF TakeBank
<1>2. PICK fetched : fetched = world.mmio
      OBVIOUS
<1>3. Answered(c, "ok", fetched)
      BY <1>2 DEF TakeBank
<1>4. fetched \in Nat /\ world \in World /\ calls[c].id \in Nat
      BY <1>2 DEF ToolsInv, ToolTypes, World, Call
<1>5. /\ world' \in World /\ world'.reg = world.reg /\ world'.ram = world.ram
      /\ world'.breakpoint = world.breakpoint /\ world'.saved = world.saved
      BY <1>1, <1>4 DEF World
<1>6. Owed(calls[c], "ok", fetched)
      BY <1>1, ToolKinds DEF Owed
<1> QED BY <1>1, <1>3, <1>4, <1>5, <1>6, JustAnswered DEF AnswerKinds

(* A reply is given to the call that asked.                                *)
LEMMA Receive_step == ASSUME ToolsInv, NEW c \in Callers, Receive(c) PROVE ToolsInv'
<1>1. /\ calls[c].at = "waiting" /\ calls[c].reply # <<>>
      /\ UNCHANGED <<placed, commands, world, shown, alive, offered, carried_out, cleared>>
      BY DEF Receive
<1>2. /\ calls[c].tool \in Asks /\ calls[c].reply \in Seq(Reply) /\ world \in World
      BY <1>1 DEF ToolsInv, ToolTypes, NumbersHaveOwners, Call
<1>3. calls[c].reply[1] \in Reply
      BY <1>1, <1>2
<1>4. PICK answer, fetched : /\ answer = IF calls[c].reply[1].ok THEN "ok" ELSE "refused"
                         /\ fetched = calls[c].reply[1].value
      OBVIOUS
<1>5. Answered(c, answer, fetched) /\ answer \in {"ok", "refused"} /\ fetched \in Nat
      BY <1>3, <1>4 DEF Receive, Reply
<1>7. answer \in AnswerKinds
      BY <1>5 DEF AnswerKinds
<1>6. Owed(calls[c], answer, fetched)
      BY <1>1, <1>2, <1>4, <1>5, ToolKinds DEF Owed, ToolsInv, RepliesAreTheirOwn
<1> QED BY <1>1, <1>2, <1>5, <1>6, <1>7, JustAnswered

(* A call that waited long enough ends without one.                        *)
LEMMA GiveUp_step == ASSUME ToolsInv, NEW c \in Callers, GiveUp(c) PROVE ToolsInv'
<1>1. /\ calls[c].at = "waiting" /\ Answered(c, "timeout", 0)
      /\ UNCHANGED <<placed, commands, world, shown, alive, offered, carried_out, cleared>>
      BY DEF GiveUp
<1>2. Owed(calls[c], "timeout", 0) /\ world \in World
      BY DEF Owed, ToolsInv, ToolTypes
<1> QED BY <1>1, <1>2, JustAnswered DEF AnswerKinds

(* A call still open has sent nothing.                                     *)
LEMMA NothingSentYet ==
    ASSUME ToolsInv, NEW c \in Callers, calls[c].at = "open"
    PROVE  ~CarriedOut(calls[c].id)
<1>1. calls[c].id # 0
      BY DEF ToolsInv, NumbersHaveOwners
<1> QED BY <1>1 DEF ToolsInv, CommandsBelong, CarriedOut, Belongs

(* A command is sent and its call answered before it is handled.           *)
LEMMA Tell_step == ASSUME ToolsInv, NEW c \in Callers, Tell(c) PROVE ToolsInv'
<1> USE DEF ToolsInv
<1>1. /\ calls[c].at = "open" /\ calls[c].tool \in Told /\ world \in World
      /\ UNCHANGED <<placed, world, shown, alive, offered, carried_out, cleared>>
      BY DEF Tell, ToolTypes
<1>2. CASE ~alive
  <2>1. Answered(c, "closed", 0) /\ UNCHANGED commands
        BY <1>2 DEF Tell
  <2>2. Owed(calls[c], "closed", 0)
        BY <1>1, <1>2, NothingSentYet, ToolKinds DEF Owed
  <2> QED BY <1>1, <2>1, <2>2, JustAnswered DEF AnswerKinds
<1>3. CASE alive
  <2>1. Answered(c, "ok", 0) /\ commands' = Append(commands, Command(c))
        BY <1>3 DEF Tell
  <2>2. Owed(calls[c], "ok", 0)
        BY <1>1, ToolKinds DEF Owed
  <2>3. /\ calls' \in [Callers -> Call] /\ in_flight' \in Nat /\ calls'[c].at = "idle"
        /\ \A d \in Callers : /\ calls'[d].id = calls[d].id /\ calls'[d].tool = calls[d].tool
                              /\ calls'[d].arg = calls[d].arg
                              /\ calls'[d].at = "open" => calls[d].at = "open"
    <3>1. /\ \A d \in Callers : d # c => calls'[d] = calls[d]
          /\ calls'[c].id = calls[c].id /\ calls'[c].tool = calls[c].tool /\ calls'[c].at = "idle"
          /\ calls'[c].arg = calls[c].arg
          /\ calls' \in [Callers -> Call] /\ in_flight' \in Nat
          BY <2>1, AnsweredCall DEF AnswerKinds
    <3> QED BY <3>1
  <2>4. commands' \in Seq(Sendable) /\ CommandsBelong' /\ QueuedInCallOrder'
        BY <1>1, <2>1, <2>3, SentLast, ToolKinds
  <2>5. ToolTypes'
        BY <1>1, <2>3, <2>4 DEF ToolTypes
  <2>6. WorldIsCurrent'
        BY <1>1, WorldAlone
  <2>7. NumbersHaveOwners' /\ RepliesAreTheirOwn' /\ ToolCallsHold'
        BY <1>1, <2>1, <2>2, AnsweredInKind DEF AnswerKinds
  <2> QED BY <2>4, <2>5, <2>6, <2>7
<1> QED BY <1>2, <1>3 DEF ToolTypes

(* A text that is not hex is refused on the spot.                          *)
LEMMA Reject_step == ASSUME ToolsInv, NEW c \in Callers, Reject(c) PROVE ToolsInv'
<1>1. /\ calls[c].at = "open" /\ calls[c].arg = "bad_hex" /\ Answered(c, "rejected", 0)
      /\ UNCHANGED <<placed, commands, world, shown, alive, offered, carried_out, cleared>>
      BY DEF Reject
<1>2. Owed(calls[c], "rejected", 0) /\ world \in World
      BY <1>1, NothingSentYet DEF Owed, ToolsInv, ToolTypes
<1> QED BY <1>1, <1>2, JustAnswered DEF AnswerKinds

(* A command is sent with the way back for its reply.                      *)
LEMMA Ask_step == ASSUME ToolsInv, NEW c \in Callers, Ask(c) PROVE ToolsInv'
<1> USE DEF ToolsInv
<1>1. /\ calls[c].at = "open" /\ calls[c].tool \in Asks /\ calls[c].arg # "bad_hex" /\ world \in World
      /\ UNCHANGED <<placed, world, shown, alive, offered, carried_out, cleared>>
      BY DEF Ask, ToolTypes
<1>2. CASE ~alive
  <2>1. Answered(c, "closed", 0) /\ UNCHANGED commands
        BY <1>2 DEF Ask
  <2>2. Owed(calls[c], "closed", 0)
        BY <1>1, <1>2, NothingSentYet, ToolKinds DEF Owed
  <2> QED BY <1>1, <2>1, <2>2, JustAnswered DEF AnswerKinds
<1>3. CASE alive
  <2>1. /\ calls' = [calls EXCEPT ![c].at = "waiting"] /\ UNCHANGED in_flight
        /\ commands' = Append(commands, Command(c))
        BY <1>3 DEF Ask
  <2>2. /\ \A d \in Callers : d # c => calls'[d] = calls[d]
        /\ calls'[c] = [calls[c] EXCEPT !.at = "waiting"]
        /\ calls[c] \in Call
        BY <2>1 DEF ToolTypes
  <2>3. /\ calls'[c] \in Call /\ calls'[c].at = "waiting" /\ calls'[c].id = calls[c].id
        /\ calls'[c].tool = calls[c].tool /\ calls'[c].reply = calls[c].reply
        /\ calls'[c].since = calls[c].since /\ calls'[c].arg = calls[c].arg
        /\ \A d \in Callers : d # c => calls'[d] = calls[d]
        BY <2>2 DEF Call
  <2>4. commands' \in Seq(Sendable) /\ CommandsBelong' /\ QueuedInCallOrder'
        BY <1>1, <2>1, <2>2, <2>3, SentLast
  <2>5. ToolTypes'
        BY <1>1, <2>1, <2>3, <2>4 DEF ToolTypes
  <2>6. NumbersHaveOwners'
        BY <1>1, <2>3 DEF NumbersHaveOwners
  <2>7. RepliesAreTheirOwn'
        BY <1>1, <2>3, HistoryAlone DEF RepliesAreTheirOwn
  <2>8. WorldIsCurrent'
        BY <1>1, WorldAlone
  <2>9. AnswersAreTheirOwn' /\ ReadsAreInTime' /\ HandledInCallOrder'
        BY <1>1, <2>3, HistoryAlone DEF ToolCallsHold, AnswersAreTheirOwn, ReadsAreInTime,
               HandledInCallOrder
  <2>10. {d \in Callers : calls'[d].at # "idle"} = {d \in Callers : calls[d].at # "idle"}
        BY <1>1, <2>2, <2>3
  <2>11. InFlightIsOpen'
        BY <1>1, <2>1, <2>10 DEF ToolCallsHold, InFlightIsOpen
  <2> QED BY <2>4, <2>5, <2>6, <2>7, <2>8, <2>9, <2>11 DEF ToolCallsHold
<1> QED BY <1>2, <1>3 DEF ToolTypes

(* A step that leaves calls, queue and history alone keeps what only they  *)
(* decide.                                                                 *)
LEMMA CallsAlone ==
    ASSUME ToolsInv, UNCHANGED <<calls, placed, carried_out>>, alive' => alive
    PROVE  /\ NumbersHaveOwners' /\ RepliesAreTheirOwn'
           /\ AnswersAreTheirOwn' /\ ReadsAreInTime' /\ HandledInCallOrder'
           /\ \A cmd : Belongs(cmd) => Belongs(cmd)'
<1> USE DEF ToolsInv, ToolCallsHold
<1>1. NumbersHaveOwners'
      BY DEF NumbersHaveOwners
<1>2. RepliesAreTheirOwn'
      BY HistoryAlone DEF RepliesAreTheirOwn
<1>3. AnswersAreTheirOwn' /\ ReadsAreInTime' /\ HandledInCallOrder'
      BY HistoryAlone DEF AnswersAreTheirOwn, ReadsAreInTime, HandledInCallOrder
<1>4. \A cmd : Belongs(cmd) => Belongs(cmd)'
      BY DEF Belongs
<1> QED BY <1>1, <1>2, <1>3, <1>4

(* Clearing the log forgets the calls that are still open.                 *)
LEMMA ClearLog_step == ASSUME ToolsInv, ClearLog PROVE ToolsInv'
<1>1. /\ cleared' = TRUE /\ in_flight' = 0
      /\ UNCHANGED <<calls, placed, commands, world, shown, alive, offered, carried_out>>
      BY DEF ClearLog
<1>2. ToolTypes'
      BY <1>1 DEF ToolsInv, ToolTypes
<1>3. IsFiniteSet(Open')
      BY CallersAssumption, FS_Subset DEF CallersAssumption, Open
<1>4. Cardinality(Open') \in Nat
      BY <1>3, FS_CardinalityType
<1>5. InFlightIsOpen'
      BY <1>1, <1>4 DEF InFlightIsOpen, Open
<1> QED BY <1>1, <1>2, <1>5, CallsAlone, QueueAlone, WorldAlone DEF ToolsInv, ToolCallsHold

(* The worker publishes what it did.                                       *)
LEMMA Publish_step == ASSUME ToolsInv, Publish PROVE ToolsInv'
<1> USE DEF ToolsInv
<1>1. /\ shown' = world
      /\ UNCHANGED <<calls, placed, commands, world, alive, in_flight, offered, carried_out, cleared>>
      BY DEF Publish
<1>2. ToolTypes' /\ Len(carried_out) \in Nat
      BY <1>1 DEF ToolTypes
<1>3. InFlightIsOpen'
      BY <1>1 DEF ToolCallsHold, InFlightIsOpen
<1>4. WorldIsCurrent'
      BY <1>1, <1>2 DEF WorldIsCurrent, WorldAfter
<1> QED BY <1>1, <1>2, <1>3, <1>4, CallsAlone, QueueAlone DEF ToolCallsHold

(* The end of the session queues behind the commands.                      *)
LEMMA SendShutdown_step == ASSUME ToolsInv, SendShutdown PROVE ToolsInv'
<1> USE DEF ToolsInv
<1>1. PICK cmd : cmd = [id |-> 0, tool |-> "shutdown", arg |-> "fits", from |-> NoCaller]
      OBVIOUS
<1>2. /\ commands' = Append(commands, cmd)
      /\ UNCHANGED <<calls, placed, world, shown, alive, in_flight, offered, carried_out, cleared>>
      BY <1>1 DEF SendShutdown
<1>3. cmd \in Sendable /\ cmd.id = 0 /\ cmd.tool = "shutdown" /\ cmd.from \notin Callers
      BY <1>1, CallersAssumption DEF Sendable, Args, CallersAssumption
<1>4. Belongs(cmd)'
  <2>1. cmd.tool \notin Asks
        BY <1>3, ToolKinds DEF Tools
  <2> QED BY <1>2, <1>3, <2>1 DEF Belongs, ToolTypes
<1>5. /\ commands' \in Seq(Sendable)
      /\ Len(commands') = Len(commands) + 1 /\ Len(commands) \in Nat
      /\ \A i \in 1 .. Len(commands) : commands'[i] = commands[i]
      /\ commands'[Len(commands) + 1] = cmd
      BY <1>2, <1>3 DEF ToolTypes
<1>6. ToolTypes'
      BY <1>2, <1>5 DEF ToolTypes
<1>7. \A old : Belongs(old) => Belongs(old)'
      BY <1>2, CallsAlone
<1>8. CommandsBelong'
      BY <1>2, <1>4, <1>5, <1>7 DEF CommandsBelong
<1>9. QueuedInCallOrder'
      BY <1>2, <1>3, <1>5 DEF QueuedInCallOrder
<1>10. InFlightIsOpen'
      BY <1>2 DEF ToolCallsHold, InFlightIsOpen
<1>11. WorldIsCurrent'
      BY <1>2, WorldAlone
<1> QED BY <1>2, <1>6, <1>8, <1>9, <1>10, <1>11, CallsAlone DEF ToolCallsHold

(* The worker ends, and with it everything that waits.                     *)
LEMMA HandleShutdown_step == ASSUME ToolsInv, HandleShutdown PROVE ToolsInv'
<1> USE DEF ToolsInv
<1>1. /\ alive' = FALSE /\ commands' = <<>> /\ shown' = world
      /\ UNCHANGED <<calls, placed, world, in_flight, offered, carried_out, cleared>>
      BY DEF HandleShutdown
<1>2. ToolTypes' /\ Len(carried_out) \in Nat
  <2>1. commands' \in Seq(Sendable)
        BY <1>1
  <2>2. alive' \in BOOLEAN
        BY <1>1
  <2> QED BY <1>1, <2>1, <2>2 DEF ToolTypes
<1>3. CommandsBelong' /\ QueuedInCallOrder'
      BY <1>1, CallsAlone DEF CommandsBelong, QueuedInCallOrder
<1>4. InFlightIsOpen'
      BY <1>1 DEF ToolCallsHold, InFlightIsOpen
<1>5. WorldIsCurrent'
      BY <1>1, <1>2 DEF WorldIsCurrent, WorldAfter
<1> QED BY <1>1, <1>2, <1>3, <1>4, <1>5, CallsAlone DEF ToolCallsHold

(* A command makes a world of a world, and a reply of one slot.            *)
LEMMA EffectIsAWorld ==
    ASSUME NEW w \in World, NEW cmd \in Sendable
    PROVE  /\ Effect_of(cmd, w) \in World /\ ReplyTo(cmd, w) \in Reply
           /\ cmd.tool \in {"read_memory", "write_mmio"} => Effect_of(cmd, w) = w
<1> USE DEF World
<1>1. cmd.id \in Nat
      BY DEF Sendable
<1>2. w.saved # <<>> => w.saved[1].reg \in Nat /\ w.saved[1].ram \in Nat /\ w.saved[1].mmio \in Nat
  <2>1. w.saved \in Seq(KeptWorld)
        OBVIOUS
  <2>2. w.saved # <<>> => w.saved[1] \in KeptWorld
        BY <2>1
  <2> QED BY <2>2 DEF KeptWorld
<1>3. Kept(w) \in KeptWorld /\ <<Kept(w)>> \in Seq(KeptWorld) /\ <<>> \in Seq(KeptWorld)
      BY DEF Kept, KeptWorld
<1>4. Effect_of(cmd, w) \in World
  <2>1. CASE cmd.tool = "write_register" /\ cmd.arg = "fits"
        BY <1>1, <2>1 DEF Effect_of
  <2>2. CASE cmd.tool = "write_memory" /\ cmd.arg \in {"fits", "past_end"}
        BY <1>1, <2>2 DEF Effect_of
  <2>3. CASE cmd.tool = "set_breakpoint"
        BY <1>1, <2>3 DEF Effect_of
  <2>4. CASE cmd.tool = "remove_breakpoint"
        BY <2>4 DEF Effect_of
  <2>5. CASE cmd.tool = "save_snapshot"
        BY <1>3, <2>5 DEF Effect_of
  <2>6. CASE cmd.tool = "delete_snapshot"
        BY <1>3, <2>6 DEF Effect_of
  <2>7. CASE cmd.tool = "restore_snapshot" /\ w.saved # <<>>
        BY <1>2, <2>7 DEF Effect_of
  <2>8. CASE cmd.tool = "cpu_reset"
        BY <2>8 DEF Effect_of, Restarted
  <2>9. CASE /\ cmd.tool \notin {"set_breakpoint", "remove_breakpoint", "save_snapshot",
                                  "delete_snapshot", "cpu_reset"}
             /\ ~(cmd.tool = "write_register" /\ cmd.arg = "fits")
             /\ ~(cmd.tool = "write_memory" /\ cmd.arg \in {"fits", "past_end"})
             /\ ~(cmd.tool = "restore_snapshot" /\ w.saved # <<>>)
        BY <2>9 DEF Effect_of
  <2> QED BY <2>1, <2>2, <2>3, <2>4, <2>5, <2>6, <2>7, <2>8, <2>9
<1>5. ReplyTo(cmd, w) \in Reply
  <2>1. Accepts(cmd, w) \in BOOLEAN
        BY UnmappedAssumption DEF Accepts, UnmappedAssumption
  <2> QED BY <2>1 DEF ReplyTo, Reply
<1>6. cmd.tool \in {"read_memory", "write_mmio"} => Effect_of(cmd, w) = w
      BY DEF Effect_of
<1> QED BY <1>4, <1>5, <1>6

(* Whether a command is accepted does not depend on a peripheral register. *)
LEMMA AcceptsFromSaved ==
    ASSUME NEW v, NEW w, v.saved = w.saved, NEW cmd
    PROVE  Accepts(cmd, v) <=> Accepts(cmd, w)
BY DEF Accepts

(* A command that is not accepted changes nothing, unless it writes past   *)
(* the end of the SRAM.                                                    *)
LEMMA RefusedChangesNothing ==
    ASSUME NEW w \in World, NEW cmd \in Sendable, ~Accepts(cmd, w)
    PROVE  cmd.arg = "past_end" \/ Unchanged(w, Effect_of(cmd, w))
<1>1. CASE cmd.tool = "write_register"
      BY <1>1 DEF Accepts, Effect_of, Unchanged
<1>2. CASE cmd.tool = "write_memory"
      BY <1>2 DEF Accepts, Effect_of, Unchanged
<1>3. CASE cmd.tool = "restore_snapshot"
      BY <1>3 DEF Accepts, Effect_of, Unchanged
<1>4. CASE cmd.tool = "delete_snapshot"
  <2>1. w.saved = <<>>
        BY <1>4 DEF Accepts
  <2>2. Effect_of(cmd, w) = [w EXCEPT !.saved = <<>>]
        BY <1>4 DEF Effect_of
  <2> QED BY <2>1, <2>2 DEF Unchanged, World
<1>5. CASE cmd.tool \notin {"write_register", "write_memory", "restore_snapshot", "delete_snapshot"}
      BY <1>5 DEF Accepts
<1> QED BY <1>1, <1>2, <1>3, <1>4, <1>5

(* Memory, registers and breakpoints after a command are those before it   *)
(* with its effect, whatever the peripheral register holds meanwhile.      *)
LEMMA Handle_step == ASSUME ToolsInv, Handle PROVE ToolsInv'
<1> USE DEF ToolsInv
<1>1. PICK cmd, n : cmd = Head(commands) /\ n = Len(carried_out)
      OBVIOUS
<1>2. /\ alive /\ commands # <<>> /\ cmd.tool # "shutdown"
      /\ world' = Effect_of(cmd, world)
      /\ shown' = IF PublishesFirst(cmd, world) THEN world' ELSE shown
      /\ calls' = IF cmd.tool \in Asks /\ calls[cmd.from].id = cmd.id /\ calls[cmd.from].at = "waiting"
                  THEN [calls EXCEPT ![cmd.from].reply = <<ReplyTo(cmd, world)>>] ELSE calls
      /\ carried_out' = Append(carried_out, [command |-> cmd, after |-> world'])
      /\ commands' = Tail(commands)
      /\ UNCHANGED <<placed, alive, in_flight, offered, cleared>>
      BY <1>1 DEF Handle
<1>3. /\ 1 \in DOMAIN commands /\ cmd = commands[1] /\ cmd \in Sendable /\ Belongs(cmd)
      /\ cmd.from \in Callers /\ cmd.id \in Nat \ {0}
  <2>1. 1 \in DOMAIN commands /\ cmd = commands[1]
        BY <1>1, <1>2 DEF ToolTypes
  <2>2. cmd \in Sendable /\ cmd.id \in Nat /\ Belongs(cmd)
        BY <2>1, Numbered DEF CommandsBelong
  <2> QED BY <1>2, <2>1, <2>2 DEF Belongs
<1>4. world \in World /\ world' \in World /\ ReplyTo(cmd, world) \in Reply /\ n \in Nat
      BY <1>1, <1>2, <1>3, EffectIsAWorld DEF ToolTypes
<1>5. /\ carried_out' \in Seq(Handled) /\ Len(carried_out') = n + 1
      /\ \A i \in 1 .. n : carried_out'[i] = carried_out[i]
      /\ carried_out'[n + 1].command = cmd /\ carried_out'[n + 1].after = world'
  <2>1. [command |-> cmd, after |-> world'] \in Handled
        BY <1>3, <1>4 DEF Handled
  <2> QED BY <1>1, <1>2, <2>1 DEF ToolTypes
<1>6. /\ DOMAIN carried_out = 1 .. n /\ DOMAIN carried_out' = 1 .. n + 1
      BY <1>1, <1>5 DEF ToolTypes
<1>7. /\ \A id : CarriedOut(id)' <=> CarriedOut(id) \/ id = cmd.id
      /\ \A m \in 0 .. n : WorldAfter(m)' = WorldAfter(m)
      /\ WorldAfter(n + 1)' = world'
  <2>1. \A id : CarriedOut(id)' <=> CarriedOut(id) \/ id = cmd.id
        BY <1>4, <1>5, <1>6 DEF CarriedOut
  <2>2. \A m \in 0 .. n : WorldAfter(m)' = WorldAfter(m)
        BY <1>5 DEF WorldAfter
  <2>3. WorldAfter(n + 1)' = world'
        BY <1>4, <1>5 DEF WorldAfter
  <2> QED BY <2>1, <2>2, <2>3
<1>8. /\ \A i \in 1 .. n : Restore(i)' <=> Restore(i)
      /\ Restore(n + 1)' <=> PublishesFirst(cmd, world)
  <2>1. \A i \in 1 .. n : Restore(i)' <=> Restore(i)
        BY <1>4, <1>5, <1>7 DEF Restore
  <2>2. WorldAfter(n)'.saved = world.saved
        BY <1>1, <1>4, <1>7 DEF WorldIsCurrent
  <2>3. Restore(n + 1)' <=> PublishesFirst(cmd, world)
        BY <1>4, <1>5, <2>2 DEF Restore, PublishesFirst
  <2> QED BY <2>1, <2>3
<1>a. /\ \A id : Granted(id) => Granted(id)'
      /\ \A id : Denied(id) => Denied(id)'
      /\ IF Accepts(cmd, world) THEN Granted(cmd.id)' ELSE Denied(cmd.id)'
  <2>1. \A id : Granted(id) => Granted(id)'
    <3> SUFFICES ASSUME NEW id, NEW i \in 1 .. n, carried_out[i].command.id = id,
                        Accepts(carried_out[i].command, WorldAfter(i - 1))
                 PROVE  Granted(id)'
        BY <1>6 DEF Granted
    <3>1. /\ i \in 1 .. n + 1 /\ carried_out'[i] = carried_out[i]
          /\ WorldAfter(i - 1)' = WorldAfter(i - 1)
          BY <1>4, <1>5, <1>7
    <3> QED BY <1>6, <3>1 DEF Granted
  <2>2. \A id : Denied(id) => Denied(id)'
    <3> SUFFICES ASSUME NEW id, NEW i \in 1 .. n, carried_out[i].command.id = id,
                        ~Accepts(carried_out[i].command, WorldAfter(i - 1)),
                        \/ carried_out[i].command.arg = "past_end"
                        \/ Unchanged(WorldAfter(i - 1), WorldAfter(i))
                 PROVE  Denied(id)'
        BY <1>6 DEF Denied
    <3>1. /\ i \in 1 .. n + 1 /\ carried_out'[i] = carried_out[i]
          /\ WorldAfter(i - 1)' = WorldAfter(i - 1) /\ WorldAfter(i)' = WorldAfter(i)
          BY <1>4, <1>5, <1>7
    <3> QED BY <1>6, <3>1 DEF Denied
  <2>3. PICK w : w = WorldAfter(n)
        OBVIOUS
  <2>4. /\ world.reg = w.reg /\ world.ram = w.ram /\ world.breakpoint = w.breakpoint
        /\ world.saved = w.saved
        BY <1>1, <2>3 DEF WorldIsCurrent
  <2>5. Accepts(cmd, world) <=> Accepts(cmd, w)
        BY <2>4, AcceptsFromSaved
  <2>6. n + 1 \in 1 .. n + 1 /\ WorldAfter(n)' = w /\ WorldAfter(n + 1)' = world' /\ (n + 1) - 1 = n
        BY <1>4, <1>7, <2>3
  <2>7. CASE Accepts(cmd, world)
        BY <1>5, <1>6, <2>1, <2>2, <2>5, <2>6, <2>7 DEF Granted
  <2>8. CASE ~Accepts(cmd, world)
    <3>1. cmd.arg = "past_end" \/ Unchanged(world, world')
          BY <1>2, <1>3, <1>4, <2>8, RefusedChangesNothing
    <3>2. cmd.arg = "past_end" \/ Unchanged(w, world')
          BY <2>4, <3>1 DEF Unchanged
    <3>3. Denied(cmd.id)'
          BY <1>5, <1>6, <2>5, <2>6, <2>8, <3>2 DEF Denied
    <3> QED BY <2>1, <2>2, <2>8, <3>3
  <2> QED BY <2>7, <2>8
<1>9. PICK reply : reply = <<ReplyTo(cmd, world)>>
      OBVIOUS
<1>10. /\ calls' \in [Callers -> Call]
       /\ \A c \in Callers :
            /\ calls'[c].id = calls[c].id /\ calls'[c].tool = calls[c].tool
            /\ calls'[c].at = calls[c].at /\ calls'[c].answer = calls[c].answer
            /\ calls'[c].got = calls[c].got /\ calls'[c].since = calls[c].since
            /\ calls'[c].arg = calls[c].arg
            /\ \/ calls'[c].reply = calls[c].reply
               \/ /\ calls'[c].reply = reply /\ c = cmd.from /\ cmd.tool \in Asks
                  /\ calls[c].id = cmd.id /\ calls[c].at = "waiting"
  <2>1. CASE calls' = calls
        BY <2>1 DEF ToolTypes
  <2>2. CASE /\ cmd.tool \in Asks /\ calls[cmd.from].id = cmd.id /\ calls[cmd.from].at = "waiting"
             /\ calls' = [calls EXCEPT ![cmd.from].reply = reply]
    <3>1. PICK c \in Callers : c = cmd.from
          BY <1>3
    <3>2. calls[c] \in Call /\ reply \in Seq(Reply)
          BY <1>4, <1>9 DEF ToolTypes
    <3>3. /\ \A d \in Callers : d # c => calls'[d] = calls[d]
          /\ calls'[c] = [calls[c] EXCEPT !.reply = reply]
          /\ calls' = [d \in Callers |-> IF d = c THEN calls'[c] ELSE calls[d]]
          BY <2>2, <3>1 DEF ToolTypes
    <3>4. /\ calls'[c] \in Call /\ calls'[c].reply = reply
          /\ calls'[c].id = calls[c].id /\ calls'[c].tool = calls[c].tool
          /\ calls'[c].at = calls[c].at /\ calls'[c].answer = calls[c].answer
          /\ calls'[c].got = calls[c].got /\ calls'[c].since = calls[c].since
          /\ calls'[c].arg = calls[c].arg
          BY <3>2, <3>3 DEF Call
    <3>5. calls' \in [Callers -> Call]
          BY <3>3, <3>4 DEF ToolTypes
    <3>6. \A d \in Callers : d = c \/ calls'[d] = calls[d]
          BY <3>3
    <3> QED BY <2>2, <3>1, <3>4, <3>5, <3>6
  <2> QED BY <1>2, <1>9, <2>1, <2>2
<1>11. ToolTypes'
  <2>1. commands' \in Seq(Sendable) /\ shown' \in World
        BY <1>2, <1>4 DEF ToolTypes
  <2> QED BY <1>2, <1>4, <1>5, <1>10, <2>1 DEF ToolTypes
<1>12. NumbersHaveOwners'
  <2>1. \A c \in Callers : calls[c].since \in Nat
        BY DEF ToolTypes, Call
  <2> QED BY <1>1, <1>2, <1>4, <1>5, <1>10, <2>1 DEF NumbersHaveOwners
<1>13. \A old : Belongs(old) => Belongs(old)'
       BY <1>2, <1>10 DEF Belongs
<1>14. /\ Len(commands') = Len(commands) - 1 /\ Len(commands) \in Nat \ {0}
       /\ \A i \in DOMAIN commands' : i + 1 \in DOMAIN commands /\ commands'[i] = commands[i + 1]
       /\ \A i, j \in DOMAIN commands' : i < j => i + 1 < j + 1
       /\ \A i \in DOMAIN commands' : 1 < i + 1
       BY <1>2 DEF ToolTypes
<1>15. CommandsBelong'
  <2>1. ASSUME NEW i \in DOMAIN commands'
        PROVE  Belongs(commands[i])'
    <3>1. PICK old : old = commands[i + 1]
          OBVIOUS
    <3>2. old = commands'[i] /\ Belongs(old)'
          BY <1>13, <1>14, <3>1 DEF CommandsBelong
    <3> QED BY <3>2 DEF Belongs
  <2>2. ASSUME NEW i \in 1 .. n + 1
        PROVE  Belongs(carried_out[i].command)' /\ carried_out'[i].command.tool # "shutdown"
    <3>1. PICK old : old = IF i = n + 1 THEN cmd ELSE carried_out[i].command
          OBVIOUS
    <3>2. Belongs(old) /\ old.tool # "shutdown"
          BY <1>2, <1>3, <1>4, <1>6, <3>1 DEF CommandsBelong
    <3>3. old = carried_out'[i].command /\ Belongs(old)'
          BY <1>4, <1>5, <1>13, <3>1, <3>2
    <3> QED BY <3>2, <3>3 DEF Belongs
  <2> QED BY <1>6, <2>1, <2>2 DEF CommandsBelong
<1>16. QueuedInCallOrder'
  <2>1. ASSUME NEW i \in DOMAIN commands', NEW j \in DOMAIN commands', i < j,
               commands'[i].from = commands'[j].from, commands'[i].from \in Callers
        PROVE  commands'[i].id < commands'[j].id
        BY <1>14, <2>1 DEF QueuedInCallOrder
  <2>2. ASSUME NEW i \in DOMAIN carried_out', NEW j \in DOMAIN commands',
               carried_out'[i].command.from = commands'[j].from, commands'[j].from \in Callers
        PROVE  carried_out'[i].command.id < commands'[j].id
    <3>1. CASE i \in 1 .. n
          BY <1>5, <1>6, <1>14, <2>2, <3>1 DEF QueuedInCallOrder
    <3>2. CASE i = n + 1
          BY <1>3, <1>5, <1>14, <2>2, <3>2 DEF QueuedInCallOrder
    <3> QED BY <1>4, <1>6, <3>1, <3>2
  <2> QED BY <2>1, <2>2 DEF QueuedInCallOrder
<1>17. RepliesAreTheirOwn'
  <2> SUFFICES ASSUME NEW c \in Callers, NEW k, k = calls'[c]
               PROVE  /\ k.at = "waiting" /\ k.reply # <<>> =>
                           /\ IF k.reply[1].ok THEN Granted(k.id)' ELSE Denied(k.id)'
                           /\ k.tool = "read_memory" =>
                                \E m \in k.since .. n + 1 : k.reply[1].value = WorldAfter(m)'.ram
                      /\ k.at = "open" => k.reply = <<>>
                      /\ k.at = "idle" /\ k.answer = "closed" => ~alive'
                      /\ k.at = "idle" /\ k.answer = "rejected" => k.arg = "bad_hex"
      BY <1>5 DEF RepliesAreTheirOwn
  <2>1. calls[c].since \in 0 .. n
        BY <1>1, <1>4 DEF NumbersHaveOwners, ToolTypes, Call
  <2>2. /\ k.id = calls[c].id /\ k.tool = calls[c].tool /\ k.at = calls[c].at
        /\ k.answer = calls[c].answer /\ k.since = calls[c].since /\ k.arg = calls[c].arg
        BY <1>10
  <2>3. CASE k.reply = calls[c].reply
    <3>1. ASSUME k.at = "waiting", k.reply # <<>>, k.tool = "read_memory"
          PROVE  \E m \in k.since .. n + 1 : k.reply[1].value = WorldAfter(m)'.ram
      <4>1. calls[c].at = "waiting" /\ calls[c].reply # <<>> /\ calls[c].tool = "read_memory"
            BY <2>2, <2>3, <3>1
      <4>2. PICK m \in calls[c].since .. n : calls[c].reply[1].value = WorldAfter(m).ram
            BY <1>1, <4>1 DEF RepliesAreTheirOwn
      <4> QED BY <1>4, <1>7, <2>1, <2>2, <2>3, <4>2
    <3> QED BY <1>2, <1>a, <2>2, <2>3, <3>1 DEF RepliesAreTheirOwn
  <2>4. CASE /\ k.reply = reply /\ c = cmd.from /\ cmd.tool \in Asks
             /\ calls[c].id = cmd.id /\ calls[c].at = "waiting"
    <3>1. calls[c].tool = cmd.tool
          BY <1>3, <2>4 DEF Belongs
    <3>2. IF reply[1].ok THEN Granted(cmd.id)' ELSE Denied(cmd.id)'
          BY <1>9, <1>a DEF ReplyTo
    <3>3. cmd.tool = "read_memory" => reply[1].value = WorldAfter(n + 1)'.ram
          BY <1>2, <1>3, <1>4, <1>7, <1>9, EffectIsAWorld DEF ReplyTo
    <3>4. n + 1 \in k.since .. n + 1
          BY <1>4, <2>1, <2>2
    <3> QED BY <2>2, <2>4, <3>1, <3>2, <3>3, <3>4
  <2> QED BY <1>10, <2>3, <2>4
<1>18. WorldIsCurrent'
  <2>1. PICK m \in 0 .. n :
          /\ shown.reg = WorldAfter(m).reg /\ shown.breakpoint = WorldAfter(m).breakpoint
          /\ \A i \in m + 1 .. n : ~Restore(i)
        BY <1>1 DEF WorldIsCurrent
  <2>2. CASE PublishesFirst(cmd, world)
    <3>1. shown' = WorldAfter(n + 1)'
          BY <1>2, <1>7, <2>2
    <3>2. n + 1 \in 0 .. Len(carried_out') /\ \A i \in n + 2 .. Len(carried_out') : FALSE
          BY <1>4, <1>5
    <3> QED BY <1>5, <1>7, <3>1, <3>2, <1>4 DEF WorldIsCurrent
  <2>3. CASE ~PublishesFirst(cmd, world)
    <3>1. /\ shown'.reg = WorldAfter(m)'.reg /\ shown'.breakpoint = WorldAfter(m)'.breakpoint
          BY <1>2, <1>7, <2>1, <2>3
    <3>2. \A i \in m + 1 .. n + 1 : ~Restore(i)'
          BY <1>4, <1>8, <2>1, <2>3
    <3> QED BY <1>4, <1>5, <1>7, <2>1, <3>1, <3>2 DEF WorldIsCurrent
  <2> QED BY <2>2, <2>3
<1>19. AnswersAreTheirOwn'
  <2> SUFFICES ASSUME NEW c \in Callers, NEW id, id = calls[c].id,
                      calls[c].at = "idle", calls[c].tool \in Asks
               PROVE  /\ calls[c].answer = "ok" => Granted(id)'
                      /\ calls[c].answer = "refused" => Denied(id)'
                      /\ calls[c].answer \in {"closed", "rejected"} => ~CarriedOut(id)'
      BY <1>10 DEF AnswersAreTheirOwn
  <2>1. /\ calls[c].answer = "ok" => Granted(id)
        /\ calls[c].answer = "refused" => Denied(id)
        /\ calls[c].answer \in {"closed", "rejected"} => ~CarriedOut(id)
        BY DEF ToolCallsHold, AnswersAreTheirOwn
  <2>2. calls[c].answer \in {"closed", "rejected"} => id # cmd.id
    <3>1. CASE calls[c].answer = "closed"
          BY <1>2, <3>1 DEF RepliesAreTheirOwn
    <3>2. CASE calls[c].answer = "rejected"
      <4>1. calls[c].arg = "bad_hex"
            BY <3>2 DEF RepliesAreTheirOwn
      <4> QED BY <1>3, <4>1 DEF Belongs
    <3> QED BY <3>1, <3>2
  <2>3. id # cmd.id /\ ~CarriedOut(id) => ~CarriedOut(id)'
        BY <1>7
  <2>4. (Granted(id) => Granted(id)') /\ (Denied(id) => Denied(id)')
        BY <1>a
  <2> QED BY <2>1, <2>2, <2>3, <2>4
<1>20. ReadsAreInTime'
  <2> SUFFICES ASSUME NEW c \in Callers, calls[c].at = "idle", calls[c].answer = "ok"
               PROVE  /\ calls[c].tool = "read_memory" =>
                           \E m \in calls[c].since .. n + 1 : calls[c].got = WorldAfter(m)'.ram
                      /\ calls[c].tool \in Shown =>
                           \E m \in 0 .. n + 1 :
                               /\ calls[c].got = Seen(calls[c].tool, WorldAfter(m)')
                               /\ \A i \in m + 1 .. calls[c].since : ~Restore(i)'
      BY <1>5, <1>10 DEF ReadsAreInTime
  <2>1. calls[c].since \in 0 .. n
        BY <1>1, <1>4 DEF NumbersHaveOwners, ToolTypes, Call
  <2>2. ASSUME calls[c].tool = "read_memory"
        PROVE  \E m \in calls[c].since .. n + 1 : calls[c].got = WorldAfter(m)'.ram
    <3>1. PICK m \in calls[c].since .. n : calls[c].got = WorldAfter(m).ram
          BY <1>1, <2>2 DEF ToolCallsHold, ReadsAreInTime
    <3> QED BY <1>4, <1>7, <2>1, <3>1
  <2>3. ASSUME calls[c].tool \in Shown
        PROVE  \E m \in 0 .. n + 1 : /\ calls[c].got = Seen(calls[c].tool, WorldAfter(m)')
                                     /\ \A i \in m + 1 .. calls[c].since : ~Restore(i)'
    <3>1. PICK m \in 0 .. n : /\ calls[c].got = Seen(calls[c].tool, WorldAfter(m))
                              /\ \A i \in m + 1 .. calls[c].since : ~Restore(i)
          BY <1>1, <2>3 DEF ToolCallsHold, ReadsAreInTime
    <3> QED BY <1>4, <1>7, <1>8, <2>1, <3>1
  <2> QED BY <2>2, <2>3
<1>21. HandledInCallOrder'
  <2> SUFFICES ASSUME NEW i \in 1 .. n + 1, NEW j \in 1 .. n + 1, i < j,
                      carried_out'[i].command.from = carried_out'[j].command.from
               PROVE  carried_out'[i].command.id < carried_out'[j].command.id
      BY <1>6 DEF HandledInCallOrder
  <2>1. CASE j \in 1 .. n
        BY <1>4, <1>5, <1>6, <2>1 DEF ToolCallsHold, HandledInCallOrder
  <2>2. CASE j = n + 1
        BY <1>3, <1>4, <1>5, <1>6, <2>2 DEF QueuedInCallOrder
  <2> QED BY <1>4, <2>1, <2>2
<1>22. InFlightIsOpen'
  <2>1. {c \in Callers : calls'[c].at # "idle"} = {c \in Callers : calls[c].at # "idle"}
        BY <1>10
  <2> QED BY <1>2, <2>1 DEF ToolCallsHold, InFlightIsOpen
<1> QED BY <1>11, <1>12, <1>15, <1>16, <1>17, <1>18, <1>19, <1>20, <1>21, <1>22 DEF ToolCallsHold

(* Whatever the tools, the sessions and the bound on calls: the answers of *)
(* the MCP server are to the calls they are given to, reads were so while  *)
(* they were made or as last published, a caller's commands are handled in *)
(* the order of its calls, and the spinner counts what is open.            *)
THEOREM ToolsInvariance == Spec => []ToolsInv
<1>1. ASSUME Init PROVE ToolsInv
  <2>1. /\ calls = [c \in Callers |-> NoCall] /\ placed = 0 /\ commands = <<>> /\ world = Before
        /\ shown = Before /\ alive = TRUE /\ in_flight = 0 /\ offered \in Offers
        /\ carried_out = <<>> /\ cleared = FALSE
        BY <1>1 DEF Init, tool_Init
  <2>2. /\ NoCall \in Call /\ NoCall.id = 0 /\ NoCall.at = "idle" /\ NoCall.since = 0
        /\ NoCall.tool = "none" /\ NoCall.answer = "none"
        BY DEF NoCall, Call, Args
  <2>3. Before \in World
    <3>1. [reg |-> 0, ram |-> 0, mmio |-> 0] \in KeptWorld
          BY DEF KeptWorld
    <3> QED BY <3>1 DEF Before, World
  <2>4. ToolTypes
    <3>1. alive \in BOOLEAN
          BY <2>1
    <3>2. cleared \in BOOLEAN
          BY <2>1
    <3>3. /\ calls \in [Callers -> Call] /\ placed \in Nat /\ in_flight \in Nat
          /\ commands \in Seq(Sendable) /\ carried_out \in Seq(Handled)
          BY <2>1, <2>2
    <3> QED BY <2>1, <2>3, <3>1, <3>2, <3>3 DEF ToolTypes
  <2>5. NumbersHaveOwners
        BY <2>1, <2>2 DEF NumbersHaveOwners
  <2>6. CommandsBelong /\ QueuedInCallOrder
        BY <2>1 DEF CommandsBelong, QueuedInCallOrder
  <2>7. RepliesAreTheirOwn
        BY <2>1, <2>2 DEF RepliesAreTheirOwn
  <2>8. WorldIsCurrent
        BY <2>1 DEF WorldIsCurrent, WorldAfter
  <2>9. AnswersAreTheirOwn /\ ReadsAreInTime /\ HandledInCallOrder
        BY <2>1, <2>2, ToolKinds DEF AnswersAreTheirOwn, ReadsAreInTime, HandledInCallOrder
  <2>10. {c \in Callers : calls[c].at # "idle"} = {}
        BY <2>1, <2>2
  <2>11. InFlightIsOpen
    <3>1. Cardinality({c \in Callers : calls[c].at # "idle"}) = 0
          BY <2>10, FS_EmptySet, Zenon
    <3> QED BY <2>1, <3>1 DEF InFlightIsOpen
  <2> QED BY <2>4, <2>5, <2>6, <2>7, <2>8, <2>9, <2>11 DEF ToolsInv, ToolCallsHold
<1>2. ToolsInv /\ [Next]_soc_vars => ToolsInv'
  <2> SUFFICES ASSUME ToolsInv, [Next]_soc_vars PROVE ToolsInv'
      OBVIOUS
  <2>1. CASE UNCHANGED tool_vars
    <3>1. UNCHANGED <<calls, placed, commands, world, shown, alive, in_flight, offered,
                      carried_out, cleared>>
          BY <2>1 DEF tool_vars
    <3>2. ToolTypes' /\ InFlightIsOpen'
          BY <3>1 DEF ToolsInv, ToolTypes, ToolCallsHold, InFlightIsOpen
    <3> QED BY <3>1, <3>2, CallsAlone, QueueAlone, WorldAlone DEF ToolsInv, ToolCallsHold
  <2>2. CASE tool_Next
    <3>1. ASSUME NEW c \in Callers,
                 \/ call_tool(c) \/ ReadShown(c) \/ TakeBank(c) \/ Tell(c) \/ Reject(c)
                 \/ Ask(c) \/ Receive(c) \/ GiveUp(c)
          PROVE  ToolsInv'
          BY <3>1, call_tool_step, ReadShown_step, TakeBank_step, Tell_step, Reject_step,
             Ask_step, Receive_step, GiveUp_step
    <3> QED BY <2>2, <3>1, ClearLog_step, Handle_step, Publish_step, SendShutdown_step,
               HandleShutdown_step DEF tool_Next
  <2> QED BY <2>1, <2>2, StepOfOne
<1> QED BY <1>1, <1>2, PTL DEF Spec

-----------------------------------------------------------------------------
(* The registers.                                                          *)

(* Methods of the bus that leave page and calibrations alone.              *)
LEMMA CalibrationAlone ==
    ASSUME NEW b \in Bus
    PROVE  /\ \A w \in Int : /\ write_data(b, w) \in Bus /\ write_data(b, w).cal = b.cal
                             /\ write_data(b, w).done = b.done
           /\ lane_tick(b) \in Bus /\ lane_tick(b).cal = b.cal /\ lane_tick(b).done = b.done
           /\ \A p \in LanePages : /\ set_page(b, p) \in Bus /\ set_page(b, p).cal = b.cal
                                   /\ set_page(b, p).done = b.done
           /\ \A bits \in SUBSET CmdBits, r \in LaneRegs :
                 /\ clear_cmd_bits_now(write_cmd(b, bits, r)) \in Bus
                 /\ clear_cmd_bits_now(write_cmd(b, bits, r)).cal = b.cal
                 /\ clear_cmd_bits_now(write_cmd(b, bits, r)).done = b.done
<1> USE DEF Bus
<1>1. ASSUME NEW w \in Int
      PROVE  /\ write_data(b, w) \in Bus /\ write_data(b, w).cal = b.cal
             /\ write_data(b, w).done = b.done
      BY DEF write_data
<1>2. lane_tick(b) \in Bus /\ lane_tick(b).cal = b.cal /\ lane_tick(b).done = b.done
  <2>1. PICK state, a : /\ state = IF b.busy = 1 THEN "Done" ELSE b.state
                        /\ a = [b EXCEPT !.busy = b.busy - 1, !.state = state]
        OBVIOUS
  <2>2. state \in {"Idle", "Busy", "Done"} /\ b.busy - 1 \in Int
        BY <2>1
  <2>3. a \in Bus /\ a.cal = b.cal /\ a.done = b.done
        BY <2>1, <2>2
  <2>4. lane_tick(b) = a \/ lane_tick(b) = b
        BY <2>1 DEF lane_tick
  <2> QED BY <2>3, <2>4
<1>3. ASSUME NEW p \in LanePages
      PROVE  set_page(b, p) \in Bus /\ set_page(b, p).cal = b.cal /\ set_page(b, p).done = b.done
      BY DEF set_page
<1>4. ASSUME NEW bits \in SUBSET CmdBits, NEW r \in LaneRegs
      PROVE  /\ clear_cmd_bits_now(write_cmd(b, bits, r)) \in Bus
             /\ clear_cmd_bits_now(write_cmd(b, bits, r)).cal = b.cal
             /\ clear_cmd_bits_now(write_cmd(b, bits, r)).done = b.done
  <2>1. PICK a : a = [b EXCEPT !.cmd = bits, !.pending = IF bits # {} THEN bits ELSE @]
        OBVIOUS
  <2>2. a \in Bus /\ a.cal = b.cal /\ a.done = b.done
        BY <2>1
  <2>3. PICK w : w = IF WriteBit \in bits THEN [a EXCEPT !.regs[r] = a.data] ELSE a
        OBVIOUS
  <2>4. w \in Bus /\ w.cal = b.cal /\ w.done = b.done
    <3>1. [a.regs EXCEPT ![r] = a.data] \in [LaneRegs -> Int]
          BY <2>2
    <3> QED BY <2>2, <2>3, <3>1
  <2>5. PICK e : e = execute_indirect(a, bits, r)
        OBVIOUS
  <2>6. e = IF ReadBit \in bits THEN [w EXCEPT !.data = w.regs[r]] ELSE w
        BY <2>3, <2>5 DEF execute_indirect
  <2>7. w.regs[r] \in Int
        BY <2>4
  <2>8. e \in Bus /\ e.cal = b.cal /\ e.done = b.done
        BY <2>4, <2>6, <2>7
  <2>9. write_cmd(b, bits, r) = e
        BY <2>1, <2>5 DEF write_cmd
  <2> QED BY <2>8, <2>9 DEF clear_cmd_bits_now
<1> QED BY <1>1, <1>2, <1>3, <1>4

(* What is staged is a number, and names a half.                           *)
LEMMA StagedHalf == Staged \subseteq Int /\ \A w \in Staged : Half(w) \in Halves
<1> SUFFICES ASSUME NEW w \in Staged PROVE w \in Int /\ Half(w) \in Halves
    OBVIOUS
<1>1. PICK h \in Halves, c \in {0, 4, 5, 7} : w = h * 8 + c
      BY DEF Staged
<1>2. h \in {0, 1}
      BY LaneBusAssumption DEF LaneBusAssumption
<1>3. w \div 8 = h /\ w \in Int
      BY <1>1, <1>2
<1> QED BY <1>3 DEF Half

(* A calibration counts the reads of its own page and half (lane_bus.rs).  *)
LEMMA CalibrationStep == ASSUME CalibrationInv, mbus_Next PROVE CalibrationInv'
<1> USE DEF CalibrationInv
<1> USE LaneBusAssumption DEF LaneBusAssumption
<1>0. ASSUME NEW T, NEW f \in [Slots -> T], NEW at \in Slots, NEW v \in T
      PROVE  /\ [f EXCEPT ![at] = v] \in [Slots -> T] /\ [f EXCEPT ![at] = v][at] = v
             /\ \A e \in Slots : e # at => [f EXCEPT ![at] = v][e] = f[e]
      BY <1>0
<1>1. ASSUME mbus' \in Bus, mbus'.cal = mbus.cal, mbus'.done = mbus.done, polls' = polls
      PROVE  CalibrationInv'
      BY <1>1
<1>2. CASE WriteMbusData
      BY <1>1, <1>2, CalibrationAlone, StagedHalf DEF WriteMbusData
<1>3. CASE WriteMbusCmd
  <2>1. PICK bits \in SUBSET CmdBits, r \in LaneRegs : mbus' = clear_cmd_bits_now(write_cmd(mbus, bits, r))
        BY <1>3 DEF WriteMbusCmd, CmdBits
  <2> QED BY <1>1, <1>3, <2>1, CalibrationAlone DEF WriteMbusCmd
<1>4. CASE SelectPage \/ Converge \/ mbus_tick
      BY <1>1, <1>4, CalibrationAlone DEF SelectPage, Converge, mbus_tick
<1>5. CASE mbus_reset
  <2>1. NewBus(mbus.ticks) \in Bus
        BY DEF NewBus, Bus, CalIdle
  <2>2. /\ \A at \in Slots : mbus'.cal[at] = CalIdle /\ polls'[at] = NeverStarted
        /\ mbus'.done = {} /\ polls' \in [Slots -> NeverStarted .. CalReads]
        BY <1>5 DEF mbus_reset, bus_reset, NewBus, NeverStarted
  <2> QED BY <1>5, <2>1, <2>2 DEF mbus_reset, bus_reset
<1>6. /\ mbus.page \in LanePages /\ mbus.regs \in [LaneRegs -> Int]
      /\ mbus.cal \in [Slots -> CalIdle .. CalReads]
      /\ mbus.done \in SUBSET Slots
      BY DEF Bus
<1>7. /\ CalIdle = -1 /\ NeverStarted = -1 /\ CalDone = 0
      /\ CalIdle \in CalIdle .. CalReads /\ NeverStarted \in NeverStarted .. CalReads
      BY DEF CalIdle, NeverStarted, CalDone
<1>8. ASSUME NEW c \in [Slots -> CalIdle .. CalReads], NEW d \in SUBSET Slots
      PROVE  /\ [mbus EXCEPT !.cal = c, !.done = d] \in Bus
             /\ [mbus EXCEPT !.cal = c, !.done = d].cal = c
             /\ [mbus EXCEPT !.cal = c, !.done = d].done = d
      BY <1>8 DEF Bus
<1>9. ASSUME NEW at \in Slots, NEW n \in CalIdle .. CalReads, mbus' \in Bus,
             mbus'.cal = [mbus.cal EXCEPT ![at] = n],
             polls' = [polls EXCEPT ![at] = IF n = CalIdle THEN NeverStarted ELSE CalReads - n],
             \A e \in mbus'.done : (e = at /\ n = CalDone) \/ (e # at /\ e \in mbus.done)
      PROVE  CalibrationInv'
  <2>1. PICK v : v = IF n = CalIdle THEN NeverStarted ELSE CalReads - n
        OBVIOUS
  <2>2. v \in NeverStarted .. CalReads
        BY <1>7, <1>9, <2>1
  <2>3. polls' = [polls EXCEPT ![at] = v]
        BY <1>9, <2>1
  <2>4. /\ polls' \in [Slots -> NeverStarted .. CalReads] /\ polls'[at] = v
        /\ \A e \in Slots : e # at => polls'[e] = polls[e]
        BY <1>0, <2>2, <2>3
  <2>5. mbus'.cal[at] = n /\ \A e \in Slots : e # at => mbus'.cal[e] = mbus.cal[e]
        BY <1>0, <1>6, <1>9
  <2> QED BY <1>9, <2>1, <2>4, <2>5
<1>10. CASE ArmRead
  <2>1. PICK w, h, at : w = mbus.regs[0] /\ h = Half(w) /\ at = <<mbus.page, h>>
        OBVIOUS
  <2>2. PICK b : b = IF w \in Staged /\ ~IsCtrl(w) THEN cal_read(mbus, h) ELSE mbus
        OBVIOUS
  <2>3. /\ mbus' = [b EXCEPT !.regs[256] = IF w \in Staged /\ ~IsCtrl(w) /\ at \in b.done THEN Done ELSE 0]
        /\ polls' = IF w \in Staged /\ ~IsCtrl(w) /\ mbus.cal[at] > 0
                      THEN [polls EXCEPT ![at] = @ + 1] ELSE polls
        BY <1>10, <2>1, <2>2 DEF ArmRead
  <2>4. ASSUME b \in Bus
        PROVE  mbus' \in Bus /\ mbus'.cal = b.cal /\ mbus'.done = b.done
    <3>1. PICK filled : filled = [b.regs EXCEPT ![256] = IF w \in Staged /\ ~IsCtrl(w) /\ at \in b.done
                                                        THEN Done ELSE 0]
          OBVIOUS
    <3>2. filled \in [LaneRegs -> Int]
          BY <2>4, <3>1 DEF Bus, Done
    <3>3. mbus' = [b EXCEPT !.regs = filled]
          BY <2>3, <2>4, <3>1 DEF Bus
    <3> QED BY <2>4, <3>2, <3>3 DEF Bus
  <2>5. CASE w \in Staged /\ ~IsCtrl(w) /\ mbus.cal[at] > 0
    <3>1. at \in Slots
          BY <1>6, <2>1, <2>5, StagedHalf DEF Slots
    <3>2. PICK n, d : /\ n = mbus.cal[at] - 1
                      /\ d = IF mbus.cal[at] = 1 THEN mbus.done \cup {at} ELSE mbus.done
          OBVIOUS
    <3>3. n \in CalIdle .. CalReads /\ n # CalIdle /\ d \in SUBSET Slots /\ mbus.cal[at] \in Int
          BY <1>6, <1>7, <2>5, <3>1, <3>2
    <3>4. b = [mbus EXCEPT !.cal = [mbus.cal EXCEPT ![at] = n], !.done = d]
          BY <2>1, <2>2, <2>5, <3>2 DEF cal_read, Bus
    <3>5. b \in Bus /\ b.cal = [mbus.cal EXCEPT ![at] = n] /\ b.done = d
      <4>1. [mbus.cal EXCEPT ![at] = n] \in [Slots -> CalIdle .. CalReads]
            BY <1>0, <1>6, <3>1, <3>3
      <4> QED BY <1>8, <3>3, <3>4, <4>1
    <3>6. mbus' \in Bus /\ mbus'.cal = [mbus.cal EXCEPT ![at] = n] /\ mbus'.done = d
          BY <2>4, <3>5
    <3>7. polls'[at] = CalReads - n /\ polls' = [polls EXCEPT ![at] = CalReads - n]
      <4>1. polls[at] = CalReads - mbus.cal[at]
            BY <1>7, <2>5, <3>1
      <4>2. polls' = [polls EXCEPT ![at] = polls[at] + 1]
            BY <2>3, <2>5
      <4>3. polls[at] + 1 = CalReads - n /\ CalReads - n \in Int
            BY <3>2, <3>3, <4>1
      <4> QED BY <3>1, <4>2, <4>3
    <3>8. \A e \in d : (e = at /\ n = CalDone) \/ (e # at /\ e \in mbus.done)
          BY <1>7, <2>5, <3>1, <3>2
    <3> QED BY <1>9, <3>1, <3>3, <3>6, <3>7, <3>8
  <2>6. CASE ~(w \in Staged /\ ~IsCtrl(w) /\ mbus.cal[at] > 0)
    <3>1. b = mbus /\ polls' = polls
          BY <2>1, <2>2, <2>3, <2>6 DEF cal_read
    <3> QED BY <1>1, <2>4, <3>1
  <2> QED BY <2>5, <2>6
<1>11. CASE ArmWrite
  <2>1. PICK w, h, at : w = mbus.regs[0] /\ h = Half(w) /\ at = <<mbus.page, h>>
        OBVIOUS
  <2>2. /\ w \in Staged /\ at \in Slots
        /\ mbus' = IF IsCtrl(w) THEN cal_write(mbus, h, IsEnable(w), IsCold(w), cal_immediate)
                              ELSE [mbus EXCEPT !.done = @ \ {at}]
        /\ polls' = IF ~IsCtrl(w) THEN polls
                    ELSE IF IsEnable(w) /\ IsCold(w) /\ mbus.cal[at] # CalDone
                      THEN [polls EXCEPT ![at] = IF cal_immediate THEN CalReads - 1 ELSE 0]
                    ELSE IF ~IsEnable(w) THEN [polls EXCEPT ![at] = NeverStarted]
                    ELSE polls
        BY <1>6, <1>11, <2>1, StagedHalf DEF ArmWrite, Slots
  <2>3. CASE ~IsCtrl(w)
        BY <1>6, <2>2, <2>3 DEF Bus
  <2>4. CASE IsCtrl(w) /\ ~IsEnable(w)
    <3>1. mbus' = [mbus EXCEPT !.cal = [mbus.cal EXCEPT ![at] = CalIdle], !.done = mbus.done \ {at}]
          BY <2>1, <2>2, <2>4 DEF cal_write, Bus
    <3>2. /\ mbus' \in Bus /\ mbus'.cal = [mbus.cal EXCEPT ![at] = CalIdle]
          /\ mbus'.done = mbus.done \ {at}
      <4>1. [mbus.cal EXCEPT ![at] = CalIdle] \in [Slots -> CalIdle .. CalReads]
            BY <1>0, <1>6, <1>7, <2>2
      <4>2. mbus.done \ {at} \in SUBSET Slots
            BY <1>6
      <4> QED BY <1>8, <3>1, <4>1, <4>2
    <3>3. polls' = [polls EXCEPT ![at] = NeverStarted]
          BY <2>2, <2>4
    <3> QED BY <1>7, <1>9, <2>2, <3>2, <3>3
  <2>5. CASE IsCtrl(w) /\ IsEnable(w) /\ IsCold(w) /\ mbus.cal[at] # CalDone
    <3>1. PICK n : n = IF cal_immediate THEN 1 ELSE CalReads
          OBVIOUS
    <3>2. mbus' = [mbus EXCEPT !.cal = [mbus.cal EXCEPT ![at] = n], !.done = mbus.done]
          BY <2>1, <2>2, <2>5, <3>1 DEF cal_write, Bus
    <3>3. n \in 1 .. CalReads /\ n \in CalIdle .. CalReads /\ n # CalIdle
          BY <1>7, <3>1
    <3>4. mbus' \in Bus /\ mbus'.cal = [mbus.cal EXCEPT ![at] = n] /\ mbus'.done = mbus.done
      <4>1. [mbus.cal EXCEPT ![at] = n] \in [Slots -> CalIdle .. CalReads]
            BY <1>0, <1>6, <2>2, <3>3
      <4> QED BY <1>6, <1>8, <3>2, <4>1
    <3>5. polls' = [polls EXCEPT ![at] = CalReads - n]
      <4>1. CalReads - n = IF cal_immediate THEN CalReads - 1 ELSE 0
            BY <3>1
      <4>2. polls' = [polls EXCEPT ![at] = IF cal_immediate THEN CalReads - 1 ELSE 0]
            BY <2>2, <2>5
      <4> QED BY <4>1, <4>2
    <3> QED BY <1>9, <2>2, <2>5, <3>3, <3>4, <3>5
  <2>6. CASE IsCtrl(w) /\ IsEnable(w) /\ ~(IsCold(w) /\ mbus.cal[at] # CalDone)
        BY <1>1, <2>1, <2>2, <2>6 DEF cal_write
  <2> QED BY <2>3, <2>4, <2>5, <2>6
<1> QED BY <1>2, <1>3, <1>4, <1>5, <1>10, <1>11 DEF mbus_Next

(* A command bit that shows is always one that will clear.                 *)
LEMMA CommandStep == ASSUME CommandInv, cmd_Next PROVE CommandInv'
<1> USE DEF CommandInv
<1>1. CASE cmd_read_word
  <2>1. /\ reg' = reg \ pending_clear /\ pending_clear' = {} /\ block' = block
        BY <1>1 DEF cmd_read_word, AfterRead
  <2>2. CASE reg \cap cmd_bits(block) \subseteq pending_clear
        BY <2>1, <2>2 DEF CommandBitsEnd, cmd_bits
  <2>3. CASE reg \in PowerOn(block)
    <3>1. \A b \in Blocks : b # "efuse_clk" /\ b # "efuse_sda" =>
             \A r \in PowerOn(b) : \A gone : (r \ gone) \cap cmd_bits(b) = {}
          BY DEF Blocks, PowerOn, cmd_bits
    <3>2. CASE block = "efuse_clk"
          BY <2>1, <2>3, <3>2 DEF CommandBitsEnd, PowerOn, cmd_bits
    <3>3. CASE block = "efuse_sda"
          BY <2>1, <2>3, <3>3 DEF CommandBitsEnd, PowerOn, cmd_bits
    <3> QED BY <2>1, <2>3, <3>1, <3>2, <3>3 DEF CommandBitsEnd, cmd_bits
  <2> QED BY <2>2, <2>3 DEF CommandBitsEnd
<1>2. ASSUME NEW old, NEW armed, NEW val, Written(old, armed, val), armed \subseteq cmd_bits(block)
      PROVE  CommandInv'
  <2>1. /\ block' = block
        /\ pending_clear' = IF val \cap cmd_bits(block) # {} THEN val \cap cmd_bits(block) ELSE armed
        /\ reg' = val \/ cmd_bits(block) = {}
        BY <1>2 DEF Written, cmd_bits
  <2> QED BY <1>2, <2>1 DEF CommandBitsEnd, cmd_bits
<1>3. CASE cmd_write_word
      BY <1>2, <1>3 DEF cmd_write_word
<1>4. CASE cmd_write_part
      BY <1>2, <1>4 DEF cmd_write_part
<1>5. CASE cmd_tick
      BY <1>5 DEF cmd_tick, CommandBitsEnd, cmd_bits
<1>6. CASE ResetSaTable \/ cmd_reset
      BY <1>6 DEF ResetSaTable, cmd_reset, CommandBitsEnd, cmd_bits
<1> QED BY <1>1, <1>3, <1>4, <1>5, <1>6 DEF cmd_Next

(* What the hardware latched is taken only by who has read it.             *)
LEMMA StatusStep == ASSUME StatusInv, status_Next PROVE StatusInv'
<1> USE DEF StatusInv, AcksLoseNothing, Latched, StatusRegs
<1>1. CASE status_tick
      BY <1>1 DEF status_tick, Raised
<1>2. CASE InjectStatus \/ ClearFatal \/ ReadStatus
      BY <1>2 DEF InjectStatus, ClearFatal, ReadStatus, Raised
<1>3. CASE Acknowledge
      BY <1>3 DEF Acknowledge, w1c
<1>4. CASE LineChanges \/ status_reset
      BY <1>4 DEF LineChanges, status_reset
<1> QED BY <1>1, <1>2, <1>3, <1>4 DEF status_Next

(* The anchors and the LLIDs of the session.                               *)
LEMMA LlidStep == ASSUME LlidInv, epon_Next PROVE LlidInv'
<1> USE EponAssumption DEF LlidInv, LlidIsEnforced, EponAssumption
<1>1. CASE WriteAnchorWord
      BY <1>1 DEF WriteAnchorWord, WriteAnchor, EvenLlid, peer
<1>2. CASE SessionStarts \/ SessionEnds \/ ConfigureLlid
      BY <1>2 DEF SessionStarts, SessionEnds, ConfigureLlid, UsedSince
<1>3. CASE epon_tick
      BY <1>3 DEF epon_tick, UsedSince
<1>4. CASE LatchQueue \/ ReadCounter \/ StartDrain
      BY <1>4 DEF LatchQueue, ReadCounter, StartDrain, peer
<1>5. CASE epon_reset
      BY <1>5 DEF epon_reset
<1> QED BY <1>1, <1>2, <1>3, <1>4, <1>5 DEF epon_Next

(* Each file has actions of its own.                                       *)
LEMMA OfOneFile ==
    ASSUME rf_Next
    PROVE  /\ file' = file
           /\ file = "lanes" => LaneStore \/ rf_reset
           /\ file = "filter" => WriteFilterCmd \/ WriteFilterData \/ rf_reset
           /\ file = "banks" => SelectTable \/ WindowStore \/ rf_reset
           /\ file = "ivt" => StartInstall \/ ivt_di_store \/ rf_reset
           /\ file = "timer" => timer_read \/ timer_set \/ rf_reset
           /\ file = "tssync" => write_lock \/ OltMoves \/ tssync_tick \/ rf_reset
           /\ file = "alarms" => force_pending \/ clear_pending \/ rf_reset
BY DEF rf_Next, LaneStore, WriteFilterCmd, WriteFilterData, SelectTable, WindowStore,
       StartInstall, ivt_di_store, timer_read, timer_set, write_lock, OltMoves,
       tssync_tick, force_pending, clear_pending, rf_reset

(* The counter moves with every read: by less than its modulus, and not by *)
(* nothing.                                                                *)
LEMMA NextCount ==
    ASSUME NEW n \in Nat \ {0}, NEW a \in 0 .. n - 1, NEW b \in 1 .. n - 1
    PROVE  (a + b) % n \in 0 .. n - 1 /\ (a + b) % n # a
OBVIOUS

(* The next read of the counter is told by the last one (timer.rs).        *)
LEMMA TimerStep == ASSUME TimerInv, rf_Next PROVE TimerInv'
<1> SUFFICES ASSUME file' = "timer" PROVE TimerInv'
    BY DEF TimerInv
<1>1. file = "timer"
      BY OfOneFile
<1>2. timer_read \/ timer_set \/ rf_reset
      BY <1>1, OfOneFile
<1> USE <1>1, RegisterFilesAssumption DEF TimerInv, TimerMoves, RegisterFilesAssumption
<1>3. CASE timer_read
  <2>1. PICK n, a, b : n = TimerLimit /\ a = cell.counter /\ b = cell.prescaler
        OBVIOUS
  <2>2. n \in Nat \ {0} /\ a \in 0 .. n - 1 /\ b \in 1 .. n - 1 /\ told.last \in -1 .. n - 1
        BY <2>1
  <2>3. cell' = [cell EXCEPT !.counter = (a + b) % n] /\ told' = [prev |-> told.last, last |-> a]
        BY <1>3, <2>1 DEF timer_read
  <2>4. (a + b) % n \in 0 .. n - 1
        BY <2>2, NextCount
  <2>5. told.last # -1 => told.last # a
    <3>1. told.last # -1 => told.last \in 0 .. n - 1 /\ a = (told.last + b) % n
          BY <2>1, <2>2
    <3> QED BY <2>2, <3>1, NextCount
  <2> QED BY <2>1, <2>2, <2>3, <2>4, <2>5
<1>4. CASE timer_set
  <2>1. /\ told' = [prev |-> -1, last |-> -1]
        /\ \/ \E v \in 0 .. TimerLimit - 1 : cell' = [cell EXCEPT !.counter = v]
           \/ \E p \in 1 .. TimerLimit - 1 : cell' = [cell EXCEPT !.prescaler = p]
        BY <1>4 DEF timer_set
  <2> QED BY <2>1
<1>5. CASE rf_reset
  <2>1. cell' = [counter |-> 0, prescaler |-> 1] /\ told' = [prev |-> -1, last |-> -1]
        BY <1>5 DEF rf_reset, Fresh
  <2> QED BY <2>1
<1> QED BY <1>2, <1>3, <1>4, <1>5

(* The hardware level follows the GATEs, tick by tick (mpcp_tssync.rs).    *)
LEMMA LockStep == ASSUME LockInv, rf_Next PROVE LockInv'
<1> SUFFICES ASSUME file' = "tssync" PROVE LockInv'
    BY DEF LockInv
<1>1. file = "tssync"
      BY OfOneFile
<1>2. write_lock \/ OltMoves \/ tssync_tick \/ rf_reset
      BY <1>1, OfOneFile
<1> USE <1>1 DEF LockInv
<1>3. CASE write_lock
      BY <1>3 DEF write_lock
<1>4. CASE OltMoves
      BY <1>4 DEF OltMoves
<1>5. CASE tssync_tick
      BY <1>5 DEF tssync_tick, HwLevel
<1>6. CASE rf_reset
      BY <1>6 DEF rf_reset, Fresh, NoSync
<1> QED BY <1>2, <1>3, <1>4, <1>5, <1>6

-----------------------------------------------------------------------------
(* The lists of the bank.                                                  *)

LEMMA NoneOfTheNextSix ==
    ASSUME NEW S, S \subseteq Nat, \A k \in S : \E j \in S : j < k,
           NEW n \in Nat, \A k \in S : k > n
    PROVE  \A k \in S : k > n + 6
<1>1. n + 1 \notin S
      OBVIOUS
<1>2. n + 2 \notin S
      BY <1>1
<1>3. n + 3 \notin S
      BY <1>1, <1>2
<1>4. n + 4 \notin S
      BY <1>1, <1>2, <1>3
<1>5. n + 5 \notin S
      BY <1>1, <1>2, <1>3, <1>4
<1>6. n + 6 \notin S
      BY <1>1, <1>2, <1>3, <1>4, <1>5
<1> QED BY <1>1, <1>2, <1>3, <1>4, <1>5, <1>6

(* Some index of a list of eighteen is the first.                          *)
LEMMA FirstOfEighteen ==
    ASSUME NEW S, S \subseteq 1 .. 18, S # {}
    PROVE  \E k \in S : \A j \in S : k <= j
<1> SUFFICES ASSUME \A k \in S : \E j \in S : j < k PROVE FALSE
    OBVIOUS
<1>1. S \subseteq Nat /\ \A k \in S : k > 0
      OBVIOUS
<1>2. \A k \in S : k > 6
      BY <1>1, NoneOfTheNextSix
<1>3. \A k \in S : k > 12
      BY <1>1, <1>2, NoneOfTheNextSix
<1>4. \A k \in S : k > 18
      BY <1>1, <1>3, NoneOfTheNextSix
<1>5. PICK k \in S : TRUE
      OBVIOUS
<1>6. k \in 1 .. 18 /\ k > 18
      BY <1>4
<1> QED BY <1>6

(* Every list asks the blocks it has in the order of the longest one.      *)
LEMMA ListedInOneOrder ==
    ASSUME NEW list \in {narrow, peek_word, peripheral_for}
    PROVE  /\ DOMAIN list \subseteq 1 .. 18
           /\ \E at \in [DOMAIN list -> 1 .. 18] :
                 /\ \A k \in DOMAIN list : list[k] = read_word_inner[at[k]]
                 /\ \A j, k \in DOMAIN list : j < k => at[j] < at[k]
<1>1. CASE list \in {narrow, peripheral_for}
  <2>1. PICK at : at = [k \in 1 .. 15 |-> IF k <= 2 THEN k + 1 ELSE IF k <= 14 THEN k + 2 ELSE k + 3]
        OBVIOUS
  <2>2. DOMAIN list = 1 .. 15 /\ at \in [1 .. 15 -> 1 .. 18]
        BY <1>1, <2>1 DEF narrow, peripheral_for
  <2>3. \A k \in 1 .. 15 : list[k] = read_word_inner[at[k]]
        BY <1>1, <2>1 DEF narrow, peripheral_for, read_word_inner
  <2>4. \A j, k \in 1 .. 15 : j < k => at[j] < at[k]
        BY <2>1
  <2> QED BY <2>2, <2>3, <2>4
<1>2. CASE list = peek_word
  <2>1. PICK at : at = [k \in 1 .. 15 |-> k + 1]
        OBVIOUS
  <2>2. DOMAIN list = 1 .. 15 /\ at \in [1 .. 15 -> 1 .. 18]
        BY <1>2, <2>1 DEF peek_word
  <2>3. \A k \in 1 .. 15 : list[k] = read_word_inner[at[k]]
        BY <1>2, <2>1 DEF peek_word, read_word_inner
  <2>4. \A j, k \in 1 .. 15 : j < k => at[j] < at[k]
        BY <2>1
  <2> QED BY <2>2, <2>3, <2>4
<1> QED BY <1>1, <1>2

(* No block stands in the longest list twice.                              *)
LEMMA EachListedOnce ==
    /\ DOMAIN read_word_inner = 1 .. 18
    /\ \A i, j \in 1 .. 18 : read_word_inner[i] = read_word_inner[j] => i = j
BY DEF read_word_inner

(* For every address, not only those at the boundaries.                    *)
LEMMA SameBlock == SameBlockEveryWay
<1>1. read_word_inner = write_word_inner
      BY DEF read_word_inner, write_word_inner
<1>2. ASSUME NEW list \in {narrow, peek_word, peripheral_for}, NEW word,
             word = Dispatch(read_word_inner, probe), word \in ToSet(list)
      PROVE  Dispatch(list, probe) = word
  <2>1. PICK S : S = {k \in 1 .. 18 : claims(read_word_inner[k], probe)}
        OBVIOUS
  <2>2. PICK T : T = {k \in DOMAIN list : claims(list[k], probe)}
        OBVIOUS
  <2>3. PICK at \in [DOMAIN list -> 1 .. 18] :
           /\ \A k \in DOMAIN list : list[k] = read_word_inner[at[k]]
           /\ \A j, k \in DOMAIN list : j < k => at[j] < at[k]
        BY ListedInOneOrder
  <2>4. PICK k \in DOMAIN list : list[k] = word
        BY <1>2 DEF ToSet
  <2>5. word = IF S = {} THEN "unmapped" ELSE read_word_inner[CHOOSE m \in S : \A j \in S : m <= j]
        BY <1>2, <2>1, EachListedOnce DEF Dispatch
  <2>6. Dispatch(list, probe) = IF T = {} THEN "unmapped" ELSE list[CHOOSE m \in T : \A j \in T : m <= j]
        BY <2>2 DEF Dispatch
  <2>7. word # "unmapped"
        BY <2>4 DEF narrow, peek_word, peripheral_for
  <2>8. PICK m \in S : word = read_word_inner[m] /\ \A j \in S : m <= j
        BY <2>1, <2>5, <2>7, FirstOfEighteen
  <2>9. k \in T
        BY <2>1, <2>2, <2>4, <2>8
  <2>10. PICK n \in T : Dispatch(list, probe) = list[n] /\ \A j \in T : n <= j
    <3>1. T \subseteq 1 .. 18
          BY <2>2, ListedInOneOrder
    <3> QED BY <2>6, <2>9, <3>1, FirstOfEighteen
  <2>11. at[n] \in S /\ at[k] = m
    <3>1. at[n] \in S
          BY <2>1, <2>2, <2>3
    <3>2. read_word_inner[at[k]] = read_word_inner[m]
          BY <2>3, <2>4, <2>8
    <3> QED BY <2>1, <2>3, <3>1, <3>2, EachListedOnce
  <2>12. ~(n < k)
        BY <2>1, <2>2, <2>3, <2>8, <2>11
  <2>13. n = k
        BY <2>2, <2>9, <2>10, <2>12, ListedInOneOrder
  <2> QED BY <2>4, <2>10, <2>13
<1> QED BY <1>1, <1>2 DEF SameBlockEveryWay

-----------------------------------------------------------------------------
(* The words of the stores.                                                *)

(* One digit and what lies under it.                                       *)
LEMMA Digits ==
    ASSUME NEW p \in Nat \ {0}, NEW q \in Nat \ {0}, NEW a \in 0 .. p - 1, NEW b \in 0 .. q - 1
    PROVE  a * q + b \in 0 .. p * q - 1
<1>1. a + 1 <= p /\ a * q \in Nat /\ p * q \in Nat
      OBVIOUS
<1>2. (a + 1) * q <= p * q
      BY <1>1
<1>3. (a + 1) * q = a * q + q
      OBVIOUS
<1> QED BY <1>1, <1>2, <1>3

(* A word with the part `a` between what lies above and what lies below.   *)
Laid(high, width, shift, a, low) == high * Power(width + shift) + a * Power(shift) + low

(* A part of a word is what was stored there last, and storing one leaves  *)
(* the others alone.                                                       *)
LEMMA PartOfWord ==
    ASSUME NEW high \in Nat, NEW width \in {1, 2, 4}, NEW shift \in 0 .. 3, width + shift <= 4,
           NEW a \in 0 .. Power(width) - 1, NEW low \in 0 .. Power(shift) - 1
    PROVE  /\ lane_of(Laid(high, width, shift, a, low), shift, width) = a
           /\ \A val \in Nat : merged(Laid(high, width, shift, a, low), shift, width, val)
                                 = Laid(high, width, shift, val, low)
<1>0. PICK word : word = Laid(high, width, shift, a, low)
      OBVIOUS
<1>1. PICK p, q : p = Power(width) /\ q = Power(shift)
      OBVIOUS
<1>2. /\ p \in Nat \ {0} /\ q \in Nat \ {0} /\ Power(width + shift) = p * q
  <2>1. PICK b \in Nat \ {0} : b = ByteBase
        BY RegisterFilesAssumption DEF RegisterFilesAssumption
  <2>2. Power(0) = 1 /\ Power(1) = b /\ Power(2) = b * b /\ Power(3) = b * b * b /\ Power(4) = b * b * b * b
        BY <2>1 DEF Power
  <2>3. /\ b * b \in Nat \ {0} /\ b * b * b \in Nat \ {0} /\ b * b * b * b \in Nat \ {0}
        /\ b * (b * b) = b * b * b /\ b * (b * b * b) = b * b * b * b /\ (b * b) * (b * b) = b * b * b * b
        OBVIOUS
  <2>4. CASE width = 1
    <3>1. CASE shift = 0
          BY <1>1, <2>2, <2>3, <2>4, <3>1
    <3>2. CASE shift = 1
          BY <1>1, <2>2, <2>3, <2>4, <3>2
    <3>3. CASE shift = 2
          BY <1>1, <2>2, <2>3, <2>4, <3>3
    <3>4. CASE shift = 3
          BY <1>1, <2>2, <2>3, <2>4, <3>4
    <3> QED BY <3>1, <3>2, <3>3, <3>4
  <2>5. CASE width = 2
        BY <1>1, <2>2, <2>3, <2>5
  <2>6. CASE width = 4
        BY <1>1, <2>2, <2>3, <2>6
  <2> QED BY <2>4, <2>5, <2>6
<1>3. word = (high * p + a) * q + low
      BY <1>0, <1>1, <1>2 DEF Laid
<1>4. lane_of(word, shift, width) = a
  <2>1. /\ a \in 0 .. p - 1 /\ low \in 0 .. q - 1 /\ high \in Nat
        /\ p \in Nat \ {0} /\ q \in Nat \ {0}
        BY <1>1, <1>2
  <2>2. PICK n \in Nat : n = high * p + a
        BY <2>1
  <2>3. (n * q + low) \div q = n
        BY <2>1
  <2>4. (high * p + a) % p = a
        BY <2>1
  <2> QED BY <1>1, <1>3, <2>2, <2>3, <2>4 DEF lane_of
<1>5. ASSUME NEW val \in Nat
      PROVE  merged(word, shift, width, val) = Laid(high, width, shift, val, low)
      BY <1>0, <1>1, <1>2, <1>4 DEF merged, Laid
<1> QED BY <1>0, <1>4, <1>5

(* Two, three and four bytes written as one number.                        *)
LEMMA NumbersOfBytes ==
    ASSUME NEW t0 \in Bytes, NEW t1 \in Bytes, NEW t2 \in Bytes, NEW t3 \in Bytes
    PROVE  /\ t0 * Power(1) + t1 \in 0 .. Power(2) - 1
           /\ t0 * Power(2) + t1 * Power(1) + t2 \in 0 .. Power(3) - 1
           /\ t0 * Power(3) + t1 * Power(2) + t2 * Power(1) + t3 \in 0 .. Power(4) - 1
<1>1. PICK b \in Nat \ {0} : b = ByteBase
      BY RegisterFilesAssumption DEF RegisterFilesAssumption
<1>2. PICK b2 \in Nat \ {0} : b2 = b * b
      OBVIOUS
<1>3. PICK b3 \in Nat \ {0} : b3 = b * b2
      OBVIOUS
<1>4. /\ Power(1) = b /\ Power(2) = b2 /\ Power(3) = b3 /\ Power(4) = b * b3
      BY <1>1, <1>2, <1>3 DEF Power
<1>5. /\ t0 \in 0 .. b - 1 /\ t1 \in 0 .. b - 1 /\ t2 \in 0 .. b - 1 /\ t3 \in 0 .. b - 1
      BY <1>1 DEF Bytes
<1> HIDE <1>2, <1>3
<1>6. \A m, n \in 0 .. b - 1 : m * b + n \in 0 .. b * b - 1
      BY Digits
<1>7. PICK y \in 0 .. b2 - 1 : y = t1 * b + t2
      BY <1>2, <1>5, <1>6
<1>8. t0 * b2 + y \in 0 .. b * b2 - 1
      BY <1>5, Digits
<1>9. PICK z \in 0 .. b2 - 1 : z = t2 * b + t3
      BY <1>2, <1>5, <1>6
<1>10. PICK x \in 0 .. b3 - 1 : x = t1 * b2 + z
      BY <1>3, <1>5, Digits
<1>11. t0 * b3 + x \in 0 .. b * b3 - 1
      BY <1>5, Digits
<1>12. t0 * Power(1) + t1 \in 0 .. Power(2) - 1
      BY <1>2, <1>4, <1>5, <1>6
<1>13. t0 * Power(2) + t1 * Power(1) + t2 \in 0 .. Power(3) - 1
  <2>1. t0 * b2 + (t1 * b + t2) = t0 * b2 + t1 * b + t2
        BY <1>5
  <2> QED BY <1>3, <1>4, <1>7, <1>8, <2>1
<1>14. t0 * Power(3) + t1 * Power(2) + t2 * Power(1) + t3 \in 0 .. Power(4) - 1
  <2>1. t0 * b3 + (t1 * b2 + (t2 * b + t3)) = t0 * b3 + t1 * b2 + t2 * b + t3
        BY <1>5
  <2> QED BY <1>4, <1>9, <1>10, <1>11, <2>1
<1> QED BY <1>12, <1>13, <1>14

(* Every lane of a word made of four bytes, and the word after a store.    *)
LEMMA LanesOfWord ==
    ASSUME NEW t0 \in Bytes, NEW t1 \in Bytes, NEW t2 \in Bytes, NEW t3 \in Bytes, NEW w,
           w = t0 * Power(3) + t1 * Power(2) + t2 * Power(1) + t3
    PROVE  /\ lane_of(w, 3, 1) = t0 /\ lane_of(w, 2, 1) = t1
           /\ lane_of(w, 1, 1) = t2 /\ lane_of(w, 0, 1) = t3
           /\ lane_of(w, 2, 2) = t0 * Power(1) + t1 /\ lane_of(w, 0, 2) = t2 * Power(1) + t3
           /\ lane_of(w, 0, 4) = w
           /\ \A val \in Nat :
                /\ merged(w, 3, 1, val) = val * Power(3) + t1 * Power(2) + t2 * Power(1) + t3
                /\ merged(w, 2, 1, val) = t0 * Power(3) + val * Power(2) + t2 * Power(1) + t3
                /\ merged(w, 1, 1, val) = t0 * Power(3) + t1 * Power(2) + val * Power(1) + t3
                /\ merged(w, 0, 1, val) = t0 * Power(3) + t1 * Power(2) + t2 * Power(1) + val
                /\ merged(w, 2, 2, val) = val * Power(2) + t2 * Power(1) + t3
                /\ merged(w, 0, 2, val) = t0 * Power(3) + t1 * Power(2) + val
                /\ merged(w, 0, 4, val) = val
<1>1. PICK b \in Nat \ {0} : b = ByteBase
      BY RegisterFilesAssumption DEF RegisterFilesAssumption
<1>2. PICK b2 \in Nat \ {0} : b2 = b * b
      OBVIOUS
<1>3. PICK b3 \in Nat \ {0} : b3 = b * b2
      OBVIOUS
<1>4. /\ Power(0) = 1 /\ Power(1) = b /\ Power(2) = b2 /\ Power(3) = b3 /\ Power(4) = b * b3
      BY <1>1, <1>2, <1>3 DEF Power
<1>5. t0 \in 0 .. b - 1 /\ t1 \in 0 .. b - 1 /\ t2 \in 0 .. b - 1 /\ t3 \in 0 .. b - 1
      BY <1>1 DEF Bytes
<1>6. PICK u01 \in 0 .. b2 - 1 : u01 = t0 * b + t1
      BY <1>4, NumbersOfBytes
<1>7. PICK u23 \in 0 .. b2 - 1 : u23 = t2 * b + t3
      BY <1>4, NumbersOfBytes
<1>8. PICK u012 \in 0 .. b3 - 1 : u012 = t0 * b2 + t1 * b + t2
      BY <1>4, NumbersOfBytes
<1>9. PICK u123 \in 0 .. b3 - 1 : u123 = t1 * b2 + t2 * b + t3
      BY <1>4, NumbersOfBytes
<1>10. w \in 0 .. Power(4) - 1
      BY NumbersOfBytes
<1>11. /\ (t0 * b + t1) * b2 = t0 * b3 + t1 * b2
       /\ (t0 * b2 + t1 * b + t2) * b = t0 * b3 + t1 * b2 + t2 * b
       BY <1>2, <1>3, <1>5
<1>12. /\ \A m, n, o \in Nat : Laid(m, 1, 3, n, o) = m * Power(4) + n * Power(3) + o
       /\ \A m, n, o \in Nat : Laid(m, 1, 2, n, o) = m * Power(3) + n * Power(2) + o
       /\ \A m, n, o \in Nat : Laid(m, 1, 1, n, o) = m * Power(2) + n * Power(1) + o
       /\ \A m, n, o \in Nat : Laid(m, 1, 0, n, o) = m * Power(1) + n + o
       /\ \A m, n, o \in Nat : Laid(m, 2, 2, n, o) = m * Power(4) + n * Power(2) + o
       /\ \A m, n, o \in Nat : Laid(m, 2, 0, n, o) = m * Power(2) + n + o
       /\ \A m, n, o \in Nat : Laid(m, 4, 0, n, o) = m * Power(4) + n + o
       BY <1>4 DEF Laid
<1>13. /\ Power(1) \in Nat /\ Power(2) \in Nat /\ Power(3) \in Nat /\ Power(4) \in Nat
       /\ \A n \in {0, 1, 2, 3, 4} : 0 * Power(n) = 0
       BY <1>4
<1>14. /\ w \in Nat /\ t0 \in Nat /\ t1 \in Nat /\ t2 \in Nat /\ t3 \in Nat
       BY <1>5, <1>10, <1>13
<1>15. /\ w = t0 * Power(3) + u123 /\ w = t0 * Power(3) + t1 * Power(2) + u23
       BY <1>4, <1>5, <1>7, <1>9
<1>16. w = u01 * Power(2) + u23 /\ w = u01 * Power(2) + t2 * Power(1) + t3
       BY <1>4, <1>5, <1>6, <1>7, <1>11, <1>15
<1>17. w = u012 * Power(1) + t3
  <2>1. u012 * b = t0 * b3 + t1 * b2 + t2 * b
        BY <1>8, <1>11
  <2> QED BY <1>4, <2>1
<1>18. /\ w = Laid(0, 1, 3, t0, u123)
       /\ w = Laid(t0, 1, 2, t1, u23)
       /\ w = Laid(u01, 1, 1, t2, t3)
       /\ w = Laid(u012, 1, 0, t3, 0)
       /\ w = Laid(0, 2, 2, u01, u23)
       /\ w = Laid(u01, 2, 0, u23, 0)
       /\ w = Laid(0, 4, 0, w, 0)
  <2>1. /\ u123 \in Nat /\ u23 \in Nat /\ u01 \in Nat /\ u012 \in Nat
        OBVIOUS
  <2>2. /\ u01 * Power(2) \in Nat /\ u012 * Power(1) \in Nat /\ t0 * Power(3) \in Nat
        BY <1>13, <1>14, <2>1
  <2>3. /\ w = Laid(0, 1, 3, t0, u123) /\ w = Laid(0, 2, 2, u01, u23) /\ w = Laid(0, 4, 0, w, 0)
    <3>1. /\ Laid(0, 1, 3, t0, u123) = 0 * Power(4) + t0 * Power(3) + u123
          /\ Laid(0, 2, 2, u01, u23) = 0 * Power(4) + u01 * Power(2) + u23
          /\ Laid(0, 4, 0, w, 0) = 0 * Power(4) + w + 0
          BY <1>12, <1>14, <2>1
    <3>2. 0 * Power(4) = 0
          BY <1>13
    <3> QED BY <1>14, <1>15, <1>16, <2>1, <2>2, <3>1, <3>2
  <2>4. /\ w = Laid(t0, 1, 2, t1, u23) /\ w = Laid(u01, 1, 1, t2, t3)
        BY <1>12, <1>14, <1>15, <1>16, <2>1
  <2>5. /\ w = Laid(u012, 1, 0, t3, 0) /\ w = Laid(u01, 2, 0, u23, 0)
        BY <1>12, <1>14, <1>16, <1>17, <2>1, <2>2
  <2> QED BY <2>3, <2>4, <2>5
<1>19. /\ t0 \in 0 .. Power(1) - 1 /\ t1 \in 0 .. Power(1) - 1
       /\ t2 \in 0 .. Power(1) - 1 /\ t3 \in 0 .. Power(1) - 1
       /\ u01 \in 0 .. Power(2) - 1 /\ u23 \in 0 .. Power(2) - 1 /\ u123 \in 0 .. Power(3) - 1
       /\ 0 \in 0 .. Power(0) - 1 /\ u01 \in Nat /\ u012 \in Nat
       BY <1>4, <1>5
<1> HIDE <1>1, <1>2, <1>3, <1>6, <1>7, <1>8, <1>9
<1>20. /\ lane_of(w, 3, 1) = t0
       /\ \A val \in Nat : merged(w, 3, 1, val) = Laid(0, 1, 3, val, u123)
       BY <1>18, <1>19, PartOfWord
<1>21. /\ lane_of(w, 2, 1) = t1
       /\ \A val \in Nat : merged(w, 2, 1, val) = Laid(t0, 1, 2, val, u23)
       BY <1>14, <1>18, <1>19, PartOfWord
<1>22. /\ lane_of(w, 1, 1) = t2
       /\ \A val \in Nat : merged(w, 1, 1, val) = Laid(u01, 1, 1, val, t3)
       BY <1>18, <1>19, PartOfWord
<1>23. /\ lane_of(w, 0, 1) = t3
       /\ \A val \in Nat : merged(w, 0, 1, val) = Laid(u012, 1, 0, val, 0)
       BY <1>18, <1>19, PartOfWord
<1>24. /\ lane_of(w, 2, 2) = u01
       /\ \A val \in Nat : merged(w, 2, 2, val) = Laid(0, 2, 2, val, u23)
       BY <1>18, <1>19, PartOfWord
<1>25. /\ lane_of(w, 0, 2) = u23
       /\ \A val \in Nat : merged(w, 0, 2, val) = Laid(u01, 2, 0, val, 0)
       BY <1>18, <1>19, PartOfWord
<1>26. /\ lane_of(w, 0, 4) = w
       /\ \A val \in Nat : merged(w, 0, 4, val) = Laid(0, 4, 0, val, 0)
       BY <1>10, <1>18, <1>19, PartOfWord
<1>27. /\ lane_of(w, 2, 2) = t0 * Power(1) + t1 /\ lane_of(w, 0, 2) = t2 * Power(1) + t3
       BY <1>4, <1>6, <1>7, <1>24, <1>25
<1>28. ASSUME NEW val \in Nat
       PROVE  /\ merged(w, 3, 1, val) = val * Power(3) + t1 * Power(2) + t2 * Power(1) + t3
              /\ merged(w, 2, 1, val) = t0 * Power(3) + val * Power(2) + t2 * Power(1) + t3
              /\ merged(w, 1, 1, val) = t0 * Power(3) + t1 * Power(2) + val * Power(1) + t3
              /\ merged(w, 0, 1, val) = t0 * Power(3) + t1 * Power(2) + t2 * Power(1) + val
              /\ merged(w, 2, 2, val) = val * Power(2) + t2 * Power(1) + t3
              /\ merged(w, 0, 2, val) = t0 * Power(3) + t1 * Power(2) + val
              /\ merged(w, 0, 4, val) = val
  <2>1. /\ val * Power(1) \in Nat /\ val * Power(2) \in Nat /\ val * Power(3) \in Nat
        BY <1>13
  <2>2. /\ t0 * Power(3) \in Nat /\ t1 * Power(2) \in Nat /\ t2 * Power(1) \in Nat
        BY <1>13, <1>14
  <2>3. /\ u123 = t1 * Power(2) + t2 * Power(1) + t3 /\ u23 = t2 * Power(1) + t3
        BY <1>4, <1>7, <1>9
  <2>4. /\ u01 * Power(2) = t0 * Power(3) + t1 * Power(2)
        /\ u012 * Power(1) = t0 * Power(3) + t1 * Power(2) + t2 * Power(1)
        BY <1>4, <1>6, <1>8, <1>11
  <2>5. /\ merged(w, 3, 1, val) = val * Power(3) + t1 * Power(2) + t2 * Power(1) + t3
    <3>1. merged(w, 3, 1, val) = 0 * Power(4) + val * Power(3) + u123
          BY <1>12, <1>14, <1>20
    <3>2. 0 * Power(4) = 0
          BY <1>13
    <3> QED BY <1>14, <2>1, <2>2, <2>3, <3>1, <3>2
  <2>6. /\ merged(w, 2, 1, val) = t0 * Power(3) + val * Power(2) + t2 * Power(1) + t3
        BY <1>12, <1>14, <1>21, <2>1, <2>2, <2>3
  <2>7. /\ merged(w, 1, 1, val) = t0 * Power(3) + t1 * Power(2) + val * Power(1) + t3
        BY <1>12, <1>14, <1>22, <2>1, <2>2, <2>4
  <2>8. /\ merged(w, 0, 1, val) = t0 * Power(3) + t1 * Power(2) + t2 * Power(1) + val
    <3>1. merged(w, 0, 1, val) = u012 * Power(1) + val + 0
          BY <1>12, <1>14, <1>19, <1>23
    <3> QED BY <1>14, <2>1, <2>2, <2>4, <3>1
  <2>9. /\ merged(w, 2, 2, val) = val * Power(2) + t2 * Power(1) + t3
        BY <1>12, <1>13, <1>14, <1>24, <2>1, <2>2, <2>3
  <2>10. /\ merged(w, 0, 2, val) = t0 * Power(3) + t1 * Power(2) + val
         BY <1>12, <1>14, <1>25, <2>1, <2>2, <2>4
  <2>11. /\ merged(w, 0, 4, val) = val
         BY <1>12, <1>13, <1>26, <2>1
  <2> QED BY <2>5, <2>6, <2>7, <2>8, <2>9, <2>10, <2>11
<1> QED BY <1>20, <1>21, <1>22, <1>23, <1>26, <1>27, <1>28

(* The weights of the four bytes.                                          *)
LEMMA Weights ==
    /\ Power(1) \in Nat /\ Power(2) \in Nat /\ Power(3) \in Nat /\ Power(1) * Power(2) = Power(3)
    /\ \A m \in Nat : m * Power(1) \in Nat /\ m * Power(2) \in Nat /\ m * Power(3) \in Nat
    /\ 0 * Power(1) = 0 /\ 0 * Power(2) = 0 /\ 0 * Power(3) = 0
<1>1. PICK b \in Nat : b = ByteBase
      BY RegisterFilesAssumption DEF RegisterFilesAssumption
<1>2. /\ b * b \in Nat /\ b * b * b \in Nat /\ b * (b * b) = b * b * b
      OBVIOUS
<1> QED BY <1>1, <1>2 DEF Power

(* What the accesses left in the bytes of a word is what the word is made  *)
(* of (default_store.rs, sysreg_shim.rs).                                  *)
LEMMA LanesStep == ASSUME LanesInv, rf_Next PROVE LanesInv'
<1> SUFFICES ASSUME file' = "lanes" PROVE LanesInv'
    BY DEF LanesInv
<1>1. file = "lanes"
      BY OfOneFile
<1>2. LaneStore \/ rf_reset
      BY <1>1, OfOneFile
<1>3. 0 \in Bytes /\ Bytes \subseteq Nat
      BY RegisterFilesAssumption DEF RegisterFilesAssumption, Bytes
<1>4. PICK p1 \in Nat, p2 \in Nat, p3 \in Nat : p1 = Power(1) /\ p2 = Power(2) /\ p3 = Power(3)
      BY Weights
<1>7. /\ p1 * p2 = p3 /\ 0 * p1 = 0 /\ 0 * p2 = 0 /\ 0 * p3 = 0
      /\ \A m \in Nat : m * p1 \in Nat /\ m * p2 \in Nat /\ m * p3 \in Nat
      BY <1>4, Weights
<1>5. CASE LaneStore
  <2>1. PICK width \in {1, 2, 4} : \E i \in {k \in 0 .. 3 : k % width = 0} :
             \E bytes \in [0 .. width - 1 -> Bytes] :
               /\ cell' = merged(cell, shift_of(i, width), width, value_of(width, bytes))
               /\ told' = [k \in 0 .. 3 |-> IF k \in i .. i + width - 1
                                              THEN bytes[k - i] ELSE told[k]]
        BY <1>5 DEF LaneStore
  <2>2. PICK i :
          /\ i \in {k \in 0 .. 3 : k % width = 0}
          /\ \E bytes \in [0 .. width - 1 -> Bytes] :
               /\ cell' = merged(cell, shift_of(i, width), width, value_of(width, bytes))
               /\ told' = [k \in 0 .. 3 |-> IF k \in i .. i + width - 1
                                              THEN bytes[k - i] ELSE told[k]]
        BY <2>1
  <2>9. PICK bytes :
          /\ bytes \in [0 .. width - 1 -> Bytes]
          /\ cell' = merged(cell, shift_of(i, width), width, value_of(width, bytes))
          /\ told' = [k \in 0 .. 3 |-> IF k \in i .. i + width - 1
                                         THEN bytes[k - i] ELSE told[k]]
        BY <2>2
  <2>10. i \in 0 .. 3 /\ (width = 2 => i \in {0, 2}) /\ (width = 4 => i = 0)
        BY <2>2
  <2>11. \A k \in 0 .. width - 1 : bytes[k] \in Nat
    <3>1. bytes \in [0 .. width - 1 -> Bytes]
          BY <2>9
    <3> QED BY <1>3, <3>1
  <2>3. PICK t0, t1, t2, t3 : t0 = told[0] /\ t1 = told[1] /\ t2 = told[2] /\ t3 = told[3]
        OBVIOUS
  <2>4. /\ told \in [0 .. 3 -> Bytes]
        /\ t0 \in Bytes /\ t1 \in Bytes /\ t2 \in Bytes /\ t3 \in Bytes
        /\ cell = t0 * Power(3) + t1 * Power(2) + t2 * Power(1) + t3
        BY <1>1, <2>3 DEF LanesInv
  <2>5. \A val \in Nat :
                /\ merged(cell, 3, 1, val) = val * p3 + t1 * p2 + t2 * p1 + t3
                /\ merged(cell, 2, 1, val) = t0 * p3 + val * p2 + t2 * p1 + t3
                /\ merged(cell, 1, 1, val) = t0 * p3 + t1 * p2 + val * p1 + t3
                /\ merged(cell, 0, 1, val) = t0 * p3 + t1 * p2 + t2 * p1 + val
                /\ merged(cell, 2, 2, val) = val * p2 + t2 * p1 + t3
                /\ merged(cell, 0, 2, val) = t0 * p3 + t1 * p2 + val
                /\ merged(cell, 0, 4, val) = val
    <3>1. \A val \in Nat :
                    /\ merged(cell, 3, 1, val) = val * Power(3) + t1 * Power(2) + t2 * Power(1) + t3
                    /\ merged(cell, 2, 1, val) = t0 * Power(3) + val * Power(2) + t2 * Power(1) + t3
                    /\ merged(cell, 1, 1, val) = t0 * Power(3) + t1 * Power(2) + val * Power(1) + t3
                    /\ merged(cell, 0, 1, val) = t0 * Power(3) + t1 * Power(2) + t2 * Power(1) + val
                    /\ merged(cell, 2, 2, val) = val * Power(2) + t2 * Power(1) + t3
                    /\ merged(cell, 0, 2, val) = t0 * Power(3) + t1 * Power(2) + val
                    /\ merged(cell, 0, 4, val) = val
          BY <2>4, LanesOfWord
    <3> QED BY <1>4, <3>1
  <2>6. told' \in [0 .. 3 -> Bytes]
        BY <2>9, <2>10, <2>4
  <2>7. \A m, n \in Nat : m * p1 + n \in Nat
        BY <1>7
  <2>8. cell' = told'[0] * p3 + told'[1] * p2 + told'[2] * p1 + told'[3]
    <3>1. CASE width = 1
      <4>1. bytes[0] \in Nat
            BY <2>11, <3>1
      <4>2. cell' = merged(cell, 3 - i, 1, bytes[0]) /\ i \in 0 .. 3
            BY <2>9, <2>10, <3>1 DEF shift_of, value_of
      <4>3. \A k \in 0 .. 3 : told'[k] = IF k = i THEN bytes[0] ELSE told[k]
            BY <2>9, <2>10, <3>1
      <4> QED BY <2>3, <2>5, <4>1, <4>2, <4>3
    <3>2. CASE width = 2
      <4>1. PICK x, y : x = bytes[0] /\ y = bytes[1]
            OBVIOUS
      <4>2. x \in Nat /\ y \in Nat /\ x * p1 + y \in Nat
            BY <2>7, <2>11, <3>2, <4>1
      <4>3. cell' = merged(cell, 2 - i, 2, x * p1 + y) /\ i \in {0, 2}
            BY <1>4, <2>9, <2>10, <3>2, <4>1 DEF shift_of, value_of
      <4>4. CASE i = 0
        <5>1. cell' = (x * p1 + y) * p2 + t2 * p1 + t3
              BY <2>5, <4>2, <4>3, <4>4
        <5>2. (x * p1 + y) * p2 = x * p3 + y * p2
              BY <1>7, <4>2
        <5>3. told'[0] = x /\ told'[1] = y /\ told'[2] = t2 /\ told'[3] = t3
              BY <2>9, <2>3, <3>2, <4>1, <4>4
        <5> QED BY <5>1, <5>2, <5>3
      <4>5. CASE i = 2
        <5>1. cell' = t0 * p3 + t1 * p2 + (x * p1 + y)
              BY <2>5, <4>2, <4>3, <4>5
        <5>2. told'[0] = t0 /\ told'[1] = t1 /\ told'[2] = x /\ told'[3] = y
              BY <2>9, <2>3, <3>2, <4>1, <4>5
        <5>3. /\ t0 * p3 \in Nat /\ t1 * p2 \in Nat /\ x * p1 \in Nat
              BY <1>3, <1>7, <2>4, <4>2
        <5> QED BY <4>2, <5>1, <5>2, <5>3
      <4> QED BY <4>3, <4>4, <4>5
    <3>3. CASE width = 4
      <4>1. PICK x, y, z, u : x = bytes[0] /\ y = bytes[1] /\ z = bytes[2] /\ u = bytes[3]
            OBVIOUS
      <4>2. x \in Nat /\ y \in Nat /\ z \in Nat /\ u \in Nat
            BY <2>11, <3>3, <4>1
      <4>3. x * p3 + y * p2 + z * p1 + u \in Nat
            BY <1>7, <4>2
      <4>4. i = 0 /\ cell' = merged(cell, 0, 4, x * p3 + y * p2 + z * p1 + u)
            BY <1>4, <2>9, <2>10, <3>3, <4>1 DEF shift_of, value_of
      <4>5. told'[0] = x /\ told'[1] = y /\ told'[2] = z /\ told'[3] = u
            BY <2>9, <3>3, <4>1, <4>4
      <4> QED BY <2>5, <4>3, <4>4, <4>5
    <3> QED BY <3>1, <3>2, <3>3
  <2> QED BY <1>4, <2>6, <2>8 DEF LanesInv
<1>6. CASE rf_reset
  <2>1. cell' = 0 /\ told' = [n \in 0 .. 3 |-> 0]
        BY <1>1, <1>6 DEF rf_reset, Fresh, Zero4
  <2> QED BY <1>3, <2>1, Weights DEF LanesInv
<1> QED BY <1>2, <1>5, <1>6

(* So every width of access reads the bytes it covers.                     *)
LEMMA LanesRead == LanesInv => LanesAgree
<1> SUFFICES ASSUME LanesInv, file = "lanes",
                    NEW width \in {1, 2, 4}, NEW i \in {k \in 0 .. 3 : k % width = 0},
                    NEW k \in 0 .. width - 1
             PROVE  lane_of(lane_of(cell, shift_of(i, width), width), width - 1 - k, 1) = told[i + k]
    BY DEF LanesAgree
<1>1. PICK t0, t1, t2, t3 : t0 = told[0] /\ t1 = told[1] /\ t2 = told[2] /\ t3 = told[3]
      OBVIOUS
<1>2. /\ t0 \in Bytes /\ t1 \in Bytes /\ t2 \in Bytes /\ t3 \in Bytes /\ 0 \in Bytes
      /\ cell = t0 * Power(3) + t1 * Power(2) + t2 * Power(1) + t3
      BY <1>1, RegisterFilesAssumption DEF LanesInv, RegisterFilesAssumption, Bytes
<1>3. /\ lane_of(cell, 3, 1) = t0 /\ lane_of(cell, 2, 1) = t1
      /\ lane_of(cell, 1, 1) = t2 /\ lane_of(cell, 0, 1) = t3
      /\ lane_of(cell, 2, 2) = t0 * Power(1) + t1 /\ lane_of(cell, 0, 2) = t2 * Power(1) + t3
      /\ lane_of(cell, 0, 4) = cell
      BY <1>2, LanesOfWord
<1>4. ASSUME NEW x \in Bytes, NEW y \in Bytes
      PROVE  /\ lane_of(x * Power(1) + y, 1, 1) = x /\ lane_of(x * Power(1) + y, 0, 1) = y
             /\ lane_of(y, 0, 1) = y
  <2>1. x \in Nat /\ y \in Nat
        BY RegisterFilesAssumption DEF RegisterFilesAssumption, Bytes
  <2>2. PICK n \in Nat : n = x * Power(1)
        BY <2>1, Weights
  <2>3. /\ x * Power(1) + y = 0 * Power(3) + 0 * Power(2) + x * Power(1) + y
        /\ y = 0 * Power(3) + 0 * Power(2) + 0 * Power(1) + y
    <3>1. 0 * Power(1) = 0 /\ 0 * Power(2) = 0 /\ 0 * Power(3) = 0
          BY Weights
    <3> QED BY <2>1, <2>2, <3>1
  <2> QED BY <1>2, <2>3, LanesOfWord
<1>5. CASE width = 1
  <2>1. k = 0 /\ i \in 0 .. 3 /\ shift_of(i, width) = 3 - i
        BY <1>5 DEF shift_of
  <2> QED BY <1>1, <1>2, <1>3, <1>4, <1>5, <2>1
<1>6. CASE width = 2
  <2>1. k \in {0, 1} /\ i \in {0, 2} /\ shift_of(i, width) = 2 - i
        BY <1>6 DEF shift_of
  <2> QED BY <1>1, <1>2, <1>3, <1>4, <1>6, <2>1
<1>7. CASE width = 4
  <2>1. k \in 0 .. 3 /\ i = 0 /\ shift_of(i, width) = 0
        BY <1>7 DEF shift_of
  <2> QED BY <1>1, <1>2, <1>3, <1>7, <2>1
<1> QED BY <1>5, <1>6, <1>7

(* Power-on selects its table and fills that one only.                     *)
LEMMA PowerOnBanks ==
    /\ PoweredBanks \in [bank : 0 .. BankCount - 1, select : SelectWords,
                         banks : [0 .. BankCount - 1 -> Nat]]
    /\ PoweredBanks.bank = PoweredBanks.select % BankCount
    /\ PoweredTables = PoweredBanks.banks
<1>1. PICK n : n = PowerOnSelect % BankCount
      OBVIOUS
<1>2. n \in 0 .. BankCount - 1 /\ PowerOnSelect \in SelectWords
      BY <1>1, RegisterFilesAssumption DEF RegisterFilesAssumption
<1>3. PICK zeros : zeros = [b \in 0 .. BankCount - 1 |-> 0]
      OBVIOUS
<1>4. [zeros EXCEPT ![n] = 1] = [b \in 0 .. BankCount - 1 |-> IF b = n THEN 1 ELSE 0]
      BY <1>2, <1>3
<1>5. PICK c : c = select_table(EmptyBanks, PowerOnSelect)
      OBVIOUS
<1>6. c = [bank |-> n, select |-> PowerOnSelect, banks |-> zeros]
  <2>1. EmptyBanks = [bank |-> 0, select |-> 0, banks |-> zeros]
        BY <1>3 DEF EmptyBanks
  <2>2. c = [[bank |-> 0, select |-> 0, banks |-> zeros] EXCEPT !.bank = n, !.select = PowerOnSelect]
        BY <1>1, <1>5, <2>1 DEF select_table
  <2> QED BY <2>2
<1>7. PICK d : d = PoweredBanks
      OBVIOUS
<1>8. d = [bank |-> n, select |-> PowerOnSelect,
           banks |-> [b \in 0 .. BankCount - 1 |-> IF b = n THEN 1 ELSE 0]]
  <2>1. d = [c EXCEPT !.banks[c.bank] = 1]
        BY <1>5, <1>7 DEF PoweredBanks, apply_silicon_power_on, window_store
  <2>2. d = [c EXCEPT !.banks = [zeros EXCEPT ![n] = 1]]
        BY <1>6, <2>1
  <2> QED BY <1>4, <1>6, <2>2
<1>9. [b \in 0 .. BankCount - 1 |-> IF b = n THEN 1 ELSE 0] \in [0 .. BankCount - 1 -> Nat]
      OBVIOUS
<1> QED BY <1>1, <1>2, <1>7, <1>8, <1>9 DEF PoweredTables

(* Each table of the filter and of the MPCP banks keeps what was filed     *)
(* under its index (mac_filter.rs, mpcp.rs).                               *)
LEMMA TablesStep == ASSUME TablesInv, rf_Next PROVE TablesInv'
<1>0. file' = file
      BY OfOneFile
<1>1. ASSUME file = "filter"
      PROVE  /\ cell' \in [cmd : FilterIndices \cup {0}, data : FilterData \cup {0},
                           table : [FilterIndices -> FilterData \cup {0}]]
             /\ told' = [data |-> cell'.data, table |-> cell'.table]
  <2>1. /\ cell \in [cmd : FilterIndices \cup {0}, data : FilterData \cup {0},
                     table : [FilterIndices -> FilterData \cup {0}]]
        /\ told = [data |-> cell.data, table |-> cell.table]
        BY <1>1 DEF TablesInv
  <2>2. CASE WriteFilterCmd
    <3>1. PICK index \in FilterIndices, rd \in BOOLEAN, wr \in BOOLEAN :
             /\ FilterCommand(index, rd, wr)
             /\ told' = [told EXCEPT
                  !.data  = IF rd /\ ~wr THEN told.table[index] ELSE @,
                  !.table = IF wr THEN [@ EXCEPT ![index] = told.data] ELSE @]
          BY <2>2 DEF WriteFilterCmd
    <3>2. cell.table[index] \in FilterData \cup {0}
          BY <2>1
    <3>3. [cell.table EXCEPT ![index] = cell.data] \in [FilterIndices -> FilterData \cup {0}]
          BY <2>1
    <3> QED BY <2>1, <3>1, <3>2, <3>3 DEF FilterCommand
  <2>3. CASE WriteFilterData
        BY <2>1, <2>3 DEF WriteFilterData
  <2>4. CASE rf_reset
    <3>1. /\ cell' = [cmd |-> 0, data |-> 0, table |-> [n \in FilterIndices |-> 0]]
          /\ told' = [data |-> 0, table |-> [n \in FilterIndices |-> 0]]
          BY <1>1, <2>4 DEF rf_reset, Fresh, NoFilter
    <3>2. [n \in FilterIndices |-> 0] \in [FilterIndices -> FilterData \cup {0}]
          OBVIOUS
    <3> QED BY <3>1, <3>2
  <2> QED BY <1>1, <2>2, <2>3, <2>4, OfOneFile
<1>2. ASSUME file = "banks"
      PROVE  /\ cell' \in [bank : 0 .. BankCount - 1, select : SelectWords,
                           banks : [0 .. BankCount - 1 -> Nat]]
             /\ cell'.bank = cell'.select % BankCount /\ told' = cell'.banks
  <2>1. /\ cell \in [bank : 0 .. BankCount - 1, select : SelectWords,
                     banks : [0 .. BankCount - 1 -> Nat]]
        /\ cell.bank = cell.select % BankCount /\ told = cell.banks
        BY <1>2 DEF TablesInv
  <2>2. \A val \in SelectWords : val % BankCount \in 0 .. BankCount - 1
        BY RegisterFilesAssumption DEF RegisterFilesAssumption
  <2>3. CASE SelectTable
    <3>1. PICK val \in SelectWords : cell' = [cell EXCEPT !.bank = val % BankCount, !.select = val]
          BY <2>3 DEF SelectTable, select_table
    <3>2. told' = told
          BY <2>3 DEF SelectTable
    <3> QED BY <2>1, <2>2, <3>1, <3>2
  <2>4. CASE WindowStore
    <3>1. PICK val \in 0 .. 2 : /\ cell' = [cell EXCEPT !.banks[cell.bank] = val]
                                /\ told' = [told EXCEPT ![cell.select % BankCount] = val]
          BY <2>4 DEF WindowStore, window_store
    <3>2. [cell.banks EXCEPT ![cell.bank] = val] \in [0 .. BankCount - 1 -> Nat]
          BY <2>1
    <3> QED BY <2>1, <3>1, <3>2
  <2>5. CASE rf_reset
    <3>1. cell' = PoweredBanks /\ told' = PoweredTables
          BY <1>2, <2>5 DEF rf_reset, Fresh
    <3> QED BY <3>1, PowerOnBanks
  <2> QED BY <1>2, <2>3, <2>4, <2>5, OfOneFile
<1> QED BY <1>0, <1>1, <1>2 DEF TablesInv

(* So a table read is what was filed there.                                *)
LEMMA TablesRead == TablesInv => TablesAreFiled
BY DEF TablesInv, TablesAreFiled

(* A vector is installed store by store, in the order of the fields        *)
(* (nco.rs).                                                               *)
LEMMA VectorStep == ASSUME VectorInv, rf_Next PROVE VectorInv'
<1> SUFFICES ASSUME file' = "ivt" PROVE VectorInv'
    BY DEF VectorInv
<1>1. file = "ivt"
      BY OfOneFile
<1>2. StartInstall \/ ivt_di_store \/ rf_reset
      BY <1>1, OfOneFile
<1>3. PICK left, aim, base, was : told = [left |-> left, aim |-> aim, base |-> base, was |-> was]
      BY <1>1 DEF VectorInv
<1>4. PICK opcode, target, written :
         cell = [opcode |-> opcode, target |-> target, written |-> written]
      BY <1>1 DEF VectorInv
<1>5. /\ opcode \in [1 .. 2 -> {0, 1}] /\ target \in [1 .. 2 -> Nat] /\ written \in BOOLEAN
      BY <1>1, <1>4 DEF VectorInv
<1>6. /\ aim \in Targets \cup {<<>>} /\ left \in Seq(SlotStores) /\ Len(left) \in 0 .. 4
      /\ base \in [1 .. 2 -> Nat] /\ (aim = <<>> => left = <<>>)
      BY <1>1, <1>3 DEF VectorInv
<1>12. \A i \in 1 .. Len(left) : left[i] = Install(aim)[4 - Len(left) + i]
      BY <1>1, <1>3 DEF VectorInv
<1>7. /\ was # <<>> => written /\ opcode[1] = 1 /\ opcode[2] = 1
      /\ aim # <<>> =>
           /\ Len(left) <= 3 => written /\ opcode[1] = 1
           /\ Len(left) <= 2 => opcode[2] = 1
           /\ target[1] = IF Len(left) <= 1 THEN aim[1] ELSE base[1]
           /\ target[2] = IF Len(left) = 0 THEN aim[2] ELSE base[2]
      BY <1>1, <1>3, <1>4 DEF VectorInv
<1>8. \A t \in Targets : t \in [1 .. 2 -> Nat] /\ t # <<>>
      BY RegisterFilesAssumption DEF RegisterFilesAssumption
<1>9. CASE StartInstall
  <2>1. PICK t \in Targets :
           told' = [left |-> Install(t), aim |-> t, base |-> cell.target,
                    was |-> interrupt_vector(cell)]
        BY <1>9 DEF StartInstall
  <2>2. cell' = cell
        BY <1>9 DEF StartInstall
  <2>3. Install(t) \in Seq(SlotStores) /\ Len(Install(t)) = 4
        BY <1>8 DEF Install, SlotStores
  <2>4. interrupt_vector(cell) # <<>> => written /\ opcode[1] = 1 /\ opcode[2] = 1
        BY <1>4, <1>5 DEF interrupt_vector, is_installed_vector, J_LIMM
  <2>5. /\ cell' \in [opcode : [1 .. 2 -> {0, 1}], target : [1 .. 2 -> Nat], written : BOOLEAN]
        /\ cell'.opcode = opcode /\ cell'.target = target /\ cell'.written = written
        BY <1>4, <1>5, <2>2
  <2>6. /\ told' = [left |-> told'.left, aim |-> told'.aim, base |-> told'.base, was |-> told'.was]
        /\ told'.left = Install(t) /\ told'.aim = t /\ told'.base = target
        /\ told'.was = interrupt_vector(cell)
        BY <1>4, <2>1
  <2>7. /\ told'.aim \in Targets /\ told'.aim # <<>> /\ told'.left \in Seq(SlotStores)
        /\ Len(told'.left) = 4 /\ told'.base \in [1 .. 2 -> Nat]
        BY <1>5, <1>8, <2>3, <2>6
  <2>8. \A i \in 1 .. Len(told'.left) : told'.left[i] = Install(told'.aim)[4 - Len(told'.left) + i]
        BY <2>6, <2>7
  <2>9. told'.was # <<>> => cell'.written /\ cell'.opcode[1] = 1 /\ cell'.opcode[2] = 1
        BY <2>4, <2>5, <2>6
  <2>10. cell'.target[1] = told'.base[1] /\ cell'.target[2] = told'.base[2]
        BY <2>5, <2>6
  <2>11. told' = [left |-> told'.left, aim |-> told'.aim, base |-> told'.base, was |-> told'.was]
        BY <2>6
  <2> HIDE <2>1, <2>2, <2>6
  <2> QED BY <2>5, <2>7, <2>8, <2>9, <2>10, <2>11 DEF VectorInv
<1>10. CASE ivt_di_store
  <2>1. PICK n : n = Len(left)
        OBVIOUS
  <2>2. n \in 1 .. 4 /\ left # <<>> /\ aim \in Targets /\ aim # <<>>
    <3>1. left # <<>>
          BY <1>3, <1>10 DEF ivt_di_store
    <3> QED BY <1>6, <1>8, <2>1, <3>1
  <2>3. PICK behind : behind = Tail(left)
        OBVIOUS
  <2>4. /\ behind \in Seq(SlotStores) /\ Len(behind) = n - 1
        /\ \A i \in 1 .. n - 1 : behind[i] = left[i + 1]
        BY <1>6, <2>1, <2>2, <2>3
  <2>5. \A i \in 1 .. n - 1 : behind[i] = Install(aim)[4 - (n - 1) + i]
        BY <1>12, <2>1, <2>2, <2>4
  <2>6. told' = [left |-> behind, aim |-> aim, base |-> base, was |-> was]
        BY <1>3, <1>10, <2>3 DEF ivt_di_store
  <2>7. Head(left) = Install(aim)[5 - n]
        BY <1>6, <1>12, <2>1, <2>2
  <2>8. /\ n = 4 => Head(left) = <<"opcode", 1, 1>>
        /\ n = 3 => Head(left) = <<"opcode", 2, 1>>
        /\ n = 2 => Head(left) = <<"target", 1, aim[1]>>
        /\ n = 1 => Head(left) = <<"target", 2, aim[2]>>
        BY <2>2, <2>7 DEF Install
  <2>9. cell' = IF Head(left)[1] = "opcode"
                  THEN [opcode |-> [opcode EXCEPT ![Head(left)[2]] = Head(left)[3]],
                        target |-> target, written |-> TRUE]
                  ELSE [opcode |-> opcode,
                        target |-> [target EXCEPT ![Head(left)[2]] = Head(left)[3]],
                        written |-> TRUE]
    <3>1. PICK a, b, c : a = Head(left)[1] /\ b = Head(left)[2] /\ c = Head(left)[3]
          OBVIOUS
    <3>2. PICK ops, tgt : ops = [opcode EXCEPT ![b] = c] /\ tgt = [target EXCEPT ![b] = c]
          OBVIOUS
    <3>3. cell.opcode = opcode /\ cell.target = target
          BY <1>4
    <3>4. cell' = IF a = "opcode" THEN [cell EXCEPT !.opcode = ops, !.written = TRUE]
                                  ELSE [cell EXCEPT !.target = tgt, !.written = TRUE]
          BY <1>3, <1>10, <3>1, <3>2, <3>3 DEF ivt_di_store
    <3>5. cell' = IF a = "opcode"
                    THEN [opcode |-> ops, target |-> target, written |-> TRUE]
                    ELSE [opcode |-> opcode, target |-> tgt, written |-> TRUE]
      <4>1. PICK c1, c2 : /\ c1 = [cell EXCEPT !.opcode = ops, !.written = TRUE]
                          /\ c2 = [cell EXCEPT !.target = tgt, !.written = TRUE]
            OBVIOUS
      <4>2. c1 = [opcode |-> ops, target |-> target, written |-> TRUE]
            BY <1>4, <4>1
      <4>3. c2 = [opcode |-> opcode, target |-> tgt, written |-> TRUE]
            BY <1>4, <4>1
      <4> QED BY <3>4, <4>1, <4>2, <4>3
    <3> QED BY <3>1, <3>2, <3>5
  <2>10. /\ cell' \in [opcode : [1 .. 2 -> {0, 1}], target : [1 .. 2 -> Nat], written : BOOLEAN]
         /\ cell'.written /\ cell'.opcode[1] = 1
         /\ n <= 3 => cell'.opcode[2] = 1
         /\ was # <<>> => cell'.opcode[2] = 1
         /\ cell'.target[1] = IF n <= 2 THEN aim[1] ELSE base[1]
         /\ cell'.target[2] = IF n = 1 THEN aim[2] ELSE base[2]
    <3>1. aim[1] \in Nat /\ aim[2] \in Nat
          BY <1>8, <2>2
    <3>2. CASE n = 4
          BY <1>5, <1>7, <2>1, <2>2, <2>8, <2>9, <3>2
    <3>3. CASE n = 3
          BY <1>5, <1>7, <2>1, <2>2, <2>8, <2>9, <3>3
    <3>4. CASE n = 2
          BY <1>5, <1>7, <2>1, <2>2, <2>8, <2>9, <3>1, <3>4
    <3>5. CASE n = 1
          BY <1>5, <1>7, <2>1, <2>2, <2>8, <2>9, <3>1, <3>5
    <3> QED BY <2>2, <3>2, <3>3, <3>4, <3>5
  <2>11. /\ told' = [left |-> told'.left, aim |-> told'.aim, base |-> told'.base, was |-> told'.was]
         /\ told'.left = behind /\ told'.aim = aim /\ told'.base = base /\ told'.was = was
         BY <2>6
  <2>12. /\ told'.aim \in Targets /\ told'.aim # <<>> /\ told'.left \in Seq(SlotStores)
         /\ Len(told'.left) = n - 1 /\ told'.base \in [1 .. 2 -> Nat]
         BY <1>6, <2>2, <2>4, <2>11
  <2>13. \A i \in 1 .. Len(told'.left) : told'.left[i] = Install(told'.aim)[4 - Len(told'.left) + i]
         BY <2>4, <2>5, <2>11
  <2>14. /\ Len(told'.left) \in 0 .. 3
         /\ Len(told'.left) <= 2 => cell'.opcode[2] = 1
         /\ cell'.target[1] = IF Len(told'.left) <= 1 THEN told'.aim[1] ELSE told'.base[1]
         /\ cell'.target[2] = IF Len(told'.left) = 0 THEN told'.aim[2] ELSE told'.base[2]
         BY <2>2, <2>10, <2>11, <2>12
  <2>15. /\ cell' \in [opcode : [1 .. 2 -> {0, 1}], target : [1 .. 2 -> Nat], written : BOOLEAN]
         /\ cell'.written /\ cell'.opcode[1] = 1
         /\ told'.was # <<>> => cell'.opcode[2] = 1
         BY <2>10, <2>11
  <2>17. told' = [left |-> told'.left, aim |-> told'.aim, base |-> told'.base, was |-> told'.was]
         BY <2>11
  <2> QED BY <2>12, <2>13, <2>14, <2>15, <2>17 DEF VectorInv
<1>11. CASE rf_reset
  <2>1. /\ cell' = [opcode |-> <<0, 0>>, target |-> <<0, 0>>, written |-> FALSE]
        /\ told' = [left |-> <<>>, aim |-> <<>>, base |-> <<0, 0>>, was |-> <<>>]
        BY <1>1, <1>11 DEF rf_reset, Fresh, EmptySlot
  <2>2. /\ <<0, 0>> \in [1 .. 2 -> {0, 1}] /\ <<0, 0>> \in [1 .. 2 -> Nat]
        /\ <<>> \in Seq(SlotStores) /\ Len(<<>>) = 0
        OBVIOUS
  <2> QED BY <2>1, <2>2 DEF VectorInv
<1> QED BY <1>2, <1>9, <1>10, <1>11

(* So an interrupt finds the target as far as it has been stored.          *)
LEMMA VectorRead == VectorInv => VectorsAreInstalled
<1> SUFFICES ASSUME VectorInv, file = "ivt" PROVE VectorsAreInstalled
    BY DEF VectorsAreInstalled
<1>1. PICK v, n : v = interrupt_vector(cell) /\ n = Len(told.left)
      OBVIOUS
<1>2. /\ n \in 0 .. 4 /\ (told.left = <<>> <=> n = 0)
      /\ cell.opcode \in [1 .. 2 -> {0, 1}] /\ cell.target \in [1 .. 2 -> Nat]
      /\ told.base \in [1 .. 2 -> Nat]
  <2>1. told.left \in Seq(SlotStores) /\ n \in 0 .. 4
        BY <1>1 DEF VectorInv
  <2> QED BY <1>1, <2>1 DEF VectorInv
<1>3. CASE told.aim = <<>>
  <2>1. v = <<>> /\ told.was = <<>>
        BY <1>1, <1>3 DEF VectorInv, interrupt_vector, is_installed_vector
  <2> QED BY <1>1, <1>3, <2>1 DEF VectorsAreInstalled
<1>4. CASE told.aim # <<>>
  <2>1. told.aim \in [1 .. 2 -> Nat]
        BY <1>4, RegisterFilesAssumption DEF VectorInv, RegisterFilesAssumption
  <2>2. /\ told.was # <<>> => cell.written /\ cell.opcode[1] = 1 /\ cell.opcode[2] = 1
        /\ n = 0 => cell.written /\ cell.opcode[1] = 1 /\ cell.opcode[2] = 1
        /\ cell.target[1] = IF n <= 1 THEN told.aim[1] ELSE told.base[1]
        /\ cell.target[2] = IF n = 0 THEN told.aim[2] ELSE told.base[2]
        BY <1>1, <1>2, <1>4 DEF VectorInv
  <2>3. cell.written /\ cell.opcode[1] = 1 /\ cell.opcode[2] = 1 => is_installed_vector(cell)
        BY <1>2 DEF is_installed_vector, J_LIMM
  <2>4. v = IF is_installed_vector(cell) THEN cell.target ELSE <<>>
        BY <1>1 DEF interrupt_vector
  <2>5. cell.target # <<>>
        BY <1>2
  <2>6. n = 0 => cell.target = told.aim
        BY <1>2, <2>1, <2>2
  <2>7. n >= 2 => cell.target = told.base
        BY <1>2, <2>2
  <2>8. n = 1 => cell.target[1] = told.aim[1] /\ cell.target[2] = told.base[2]
        BY <2>2
  <2>9. \/ v \in {<<>>, told.base, told.aim}
        \/ v[1] = told.aim[1] /\ v[2] = told.base[2]
        BY <1>2, <2>4, <2>6, <2>7, <2>8
  <2>10. (told.was # <<>> => v # <<>>) /\ (told.left = <<>> => v = told.aim)
        BY <1>2, <2>2, <2>3, <2>4, <2>5, <2>6
  <2> QED BY <1>1, <2>9, <2>10 DEF VectorsAreInstalled
<1> QED BY <1>3, <1>4

-----------------------------------------------------------------------------
(* The alarms that are forced (alarm_events.rs).                           *)

(* Nothing is taken from a list that does not hold the alarm.              *)
LEMMA NothingToTake ==
    ASSUME NEW S, NEW s \in Seq(S), NEW op, \A i \in DOMAIN s : s[i] # op
    PROVE  retained(s, op) = s
<1>1. PICK n \in Nat : n = Len(s)
      OBVIOUS
<1>2. DOMAIN s = 1 .. n
      BY <1>1
<1>3. {i \in DOMAIN s : s[i] # op} = 1 .. n
      BY <1>2
<1>4. Cardinality(1 .. n) = n
      BY FS_Interval
<1>5. ASSUME NEW k \in 1 .. n
      PROVE  staying(1 .. n, k) = k
  <2>1. \A i \in 1 .. n : Cardinality({j \in 1 .. n : j <= i}) = i
    <3>1. ASSUME NEW i \in 1 .. n PROVE Cardinality({j \in 1 .. n : j <= i}) = i
      <4>1. {j \in 1 .. n : j <= i} = 1 .. i
            OBVIOUS
      <4>2. Cardinality(1 .. i) = i
            BY FS_Interval
      <4> QED BY <4>1, <4>2
    <3> QED BY <3>1
  <2> QED BY <2>1 DEF staying
<1>6. retained(s, op) = [k \in 1 .. n |-> s[staying(1 .. n, k)]]
      BY <1>3, <1>4 DEF retained
<1>7. retained(s, op) = [k \in 1 .. n |-> s[k]]
      BY <1>5, <1>6
<1>8. s = [k \in 1 .. n |-> s[k]]
      BY <1>1
<1> QED BY <1>7, <1>8

(* And from one that holds it once, that one.                              *)
LEMMA OneToTake ==
    ASSUME NEW S, NEW s \in Seq(S), NEW m \in 1 .. Len(s), NEW op,
           s[m] = op, \A i \in DOMAIN s : s[i] = op => i = m
    PROVE  retained(s, op) = [k \in 1 .. Len(s) - 1 |-> IF k < m THEN s[k] ELSE s[k + 1]]
<1>1. PICK n \in Nat : n = Len(s)
      OBVIOUS
<1>2. PICK kept : kept = (1 .. n) \ {m}
      OBVIOUS
<1>3. {i \in DOMAIN s : s[i] # op} = kept
      BY <1>1, <1>2
<1>4. Cardinality(kept) = n - 1
  <2>1. IsFiniteSet(1 .. n)
        BY FS_Interval
  <2>2. Cardinality(1 .. n) = n
        BY FS_Interval
  <2>3. Cardinality((1 .. n) \ {m}) = n - 1
        BY <1>1, <2>1, <2>2, FS_RemoveElement
  <2> QED BY <1>2, <2>3
<1>5. \A i \in kept : Cardinality({j \in kept : j <= i}) = IF i < m THEN i ELSE i - 1
  <2>1. ASSUME NEW i \in kept
        PROVE  Cardinality({j \in kept : j <= i}) = IF i < m THEN i ELSE i - 1
    <3>0. i \in 1 .. n /\ i # m
          BY <1>2
    <3>4. IsFiniteSet(1 .. i)
          BY <3>0, FS_Interval
    <3>1. Cardinality(1 .. i) = i
          BY <3>0, FS_Interval
    <3>2. {j \in kept : j <= i} = (1 .. i) \ {m}
          BY <1>2, <3>0
    <3>3. Cardinality((1 .. i) \ {m}) = IF m \in 1 .. i THEN i - 1 ELSE i
          BY <3>1, <3>4, FS_RemoveElement
    <3>5. m \in 1 .. i <=> ~(i < m)
          BY <1>1, <3>0
    <3> QED BY <3>2, <3>3, <3>5
  <2> QED BY <2>1
<1>6. ASSUME NEW k \in 1 .. n - 1
      PROVE  staying(kept, k) = IF k < m THEN k ELSE k + 1
  <2>1. PICK at : at = IF k < m THEN k ELSE k + 1
        OBVIOUS
  <2>2. at \in kept /\ (IF at < m THEN at ELSE at - 1) = k
        BY <1>1, <1>2, <2>1
  <2>3. \A i \in kept : (IF i < m THEN i ELSE i - 1) = k => i = at
        BY <1>1, <1>2, <2>1
  <2>4. \A i \in kept : Cardinality({j \in kept : j <= i}) = k <=> i = at
        BY <1>5, <2>2, <2>3
  <2>5. staying(kept, k) = at
        BY <2>2, <2>4 DEF staying
  <2> QED BY <2>1, <2>5
<1>7. retained(s, op) = [k \in 1 .. n - 1 |-> s[staying(kept, k)]]
      BY <1>3, <1>4 DEF retained
<1> QED BY <1>1, <1>6, <1>7

(* An alarm is forced once and taken back whole.                           *)
LEMMA AlarmsStep == ASSUME AlarmsInv, rf_Next PROVE AlarmsInv'
<1> SUFFICES ASSUME file' = "alarms" PROVE AlarmsInv'
    BY DEF AlarmsInv
<1>1. file = "alarms"
      BY OfOneFile
<1>2. force_pending \/ clear_pending \/ rf_reset
      BY <1>1, OfOneFile
<1>3. PICK n : n = Len(cell)
      OBVIOUS
<1>4. /\ cell \in Seq(AlarmOpcodes) /\ n \in Nat /\ DOMAIN cell = 1 .. n /\ IsFiniteSet(told)
      /\ \A i, j \in 1 .. n : cell[i] = cell[j] => i = j
      /\ told = {cell[i] : i \in 1 .. n} /\ Cardinality(told) = n /\ n <= ForcedOpcodeCapacity
      BY <1>1, <1>3 DEF AlarmsInv, AlarmsAreASet
<1>5. ASSUME NEW op \in AlarmOpcodes, op \notin told, n < ForcedOpcodeCapacity,
             cell' = Append(cell, op), told' = told \cup {op}
      PROVE  AlarmsInv'
  <2>1. /\ cell' \in Seq(AlarmOpcodes) /\ Len(cell') = n + 1 /\ DOMAIN cell' = 1 .. n + 1
        /\ \A i \in 1 .. n : cell'[i] = cell[i]
        /\ cell'[n + 1] = op
        BY <1>3, <1>4, <1>5
  <2>2. IsFiniteSet(told') /\ Cardinality(told') = n + 1
        BY <1>4, <1>5, FS_AddElement
  <2>3. \A i \in 1 .. n : cell[i] # op
        BY <1>4, <1>5
  <2>4. \A i, j \in 1 .. n + 1 : cell'[i] = cell'[j] => i = j
        BY <1>4, <2>1, <2>3
  <2>5. {cell'[i] : i \in 1 .. n + 1} = told'
        BY <1>4, <1>5, <2>1
  <2>6. n + 1 <= ForcedOpcodeCapacity
        BY <1>4, <1>5, RegisterFilesAssumption DEF RegisterFilesAssumption
  <2> QED BY <2>1, <2>2, <2>4, <2>5, <2>6 DEF AlarmsInv, AlarmsAreASet
<1>6. ASSUME NEW op \in AlarmOpcodes, cell' = retained(cell, op), told' = told \ {op}
      PROVE  AlarmsInv'
  <2>1. CASE op \notin told
    <3>1. cell' = cell
          BY <1>4, <1>6, <2>1, NothingToTake
    <3>2. told' = told
          BY <1>6, <2>1
    <3> QED BY <1>1, <3>1, <3>2 DEF AlarmsInv, AlarmsAreASet
  <2>2. CASE op \in told
    <3>1. PICK m \in 1 .. n : cell[m] = op
          BY <1>4, <2>2
    <3>2. cell' = [k \in 1 .. n - 1 |-> IF k < m THEN cell[k] ELSE cell[k + 1]]
      <4>1. \A i \in DOMAIN cell : cell[i] = op => i = m
            BY <1>4, <3>1
      <4> QED BY <1>3, <1>4, <1>6, <3>1, <4>1, OneToTake
    <3>3. n - 1 \in Nat /\ \A k \in 1 .. n - 1 : k \in 1 .. n /\ k + 1 \in 1 .. n
          BY <1>4, <3>1
    <3>4. \A k \in 1 .. n : cell[k] \in AlarmOpcodes
          BY <1>4
    <3>5. \A k \in 1 .. n - 1 : (IF k < m THEN cell[k] ELSE cell[k + 1]) \in AlarmOpcodes
          BY <3>3, <3>4
    <3>6. cell' \in Seq(AlarmOpcodes) /\ Len(cell') = n - 1 /\ DOMAIN cell' = 1 .. n - 1
          BY <3>2, <3>3, <3>5
    <3>7. \A i, j \in 1 .. n - 1 : cell'[i] = cell'[j] => i = j
      <4>1. ASSUME NEW i \in 1 .. n - 1, NEW j \in 1 .. n - 1, cell'[i] = cell'[j]
            PROVE  i = j
        <5>1. PICK x, y : x = (IF i < m THEN i ELSE i + 1) /\ y = (IF j < m THEN j ELSE j + 1)
              OBVIOUS
        <5>2. cell'[i] = cell[x] /\ cell'[j] = cell[y] /\ x \in 1 .. n /\ y \in 1 .. n
              BY <3>2, <3>3, <5>1
        <5>3. x = y
              BY <1>4, <4>1, <5>2
        <5> QED BY <5>1, <5>3
      <4> QED BY <4>1
    <3>8. {cell'[i] : i \in 1 .. n - 1} = told'
      <4>1. ASSUME NEW i \in 1 .. n - 1 PROVE cell'[i] \in told'
        <5>1. PICK x : x = (IF i < m THEN i ELSE i + 1)
              OBVIOUS
        <5>2. cell'[i] = cell[x] /\ x \in 1 .. n /\ x # m
              BY <3>2, <3>3, <5>1
        <5> QED BY <1>4, <1>6, <3>1, <5>2
      <4>2. ASSUME NEW a \in told' PROVE \E i \in 1 .. n - 1 : cell'[i] = a
        <5>1. PICK x \in 1 .. n : cell[x] = a
              BY <1>4, <1>6, <4>2
        <5>2. x # m
              BY <1>6, <3>1, <4>2, <5>1
        <5>3. PICK i : i = (IF x < m THEN x ELSE x - 1)
              OBVIOUS
        <5>4. i \in 1 .. n - 1 /\ x = (IF i < m THEN i ELSE i + 1)
              BY <1>4, <5>2, <5>3
        <5> QED BY <3>2, <5>1, <5>4
      <4> QED BY <4>1, <4>2
    <3>9. IsFiniteSet(told') /\ Cardinality(told') = n - 1
      <4>1. IsFiniteSet(told) /\ Cardinality(told) = n
            BY <1>4
      <4>2. IsFiniteSet(told \ {op}) /\ Cardinality(told \ {op}) = n - 1
            BY <2>2, <4>1, FS_RemoveElement
      <4> QED BY <1>6, <4>2
    <3>10. n - 1 <= ForcedOpcodeCapacity
           BY <1>4, RegisterFilesAssumption DEF RegisterFilesAssumption
    <3> QED BY <3>6, <3>7, <3>8, <3>9, <3>10 DEF AlarmsInv, AlarmsAreASet
  <2> QED BY <2>1, <2>2
<1>7. ASSUME cell' = <<>>, told' = {}
      PROVE  AlarmsInv'
  <2>1. /\ cell' \in Seq(AlarmOpcodes) /\ Len(cell') = 0 /\ DOMAIN cell' = {}
        BY <1>7
  <2>2. IsFiniteSet(told') /\ Cardinality(told') = 0 /\ 0 <= ForcedOpcodeCapacity
        BY <1>7, FS_EmptySet, RegisterFilesAssumption DEF RegisterFilesAssumption
  <2>3. {cell'[i] : i \in DOMAIN cell'} = told'
        BY <1>7, <2>1
  <2> QED BY <2>1, <2>2, <2>3 DEF AlarmsInv, AlarmsAreASet
<1>8. CASE force_pending
  <2>1. PICK op \in AlarmOpcodes :
          IF (\A i \in DOMAIN cell : cell[i] # op) /\ Len(cell) < ForcedOpcodeCapacity
            THEN cell' = Append(cell, op) /\ told' = told \cup {op}
            ELSE UNCHANGED <<cell, told>>
        BY <1>8 DEF force_pending
  <2>2. CASE cell' = cell /\ told' = told
        BY <1>1, <2>2 DEF AlarmsInv, AlarmsAreASet
  <2>3. CASE (\A i \in DOMAIN cell : cell[i] # op) /\ Len(cell) < ForcedOpcodeCapacity
    <3>1. op \notin told
          BY <1>4, <2>3
    <3> QED BY <1>3, <1>5, <2>1, <2>3, <3>1
  <2> QED BY <2>1, <2>2, <2>3
<1>9. CASE clear_pending
      BY <1>6, <1>7, <1>9 DEF clear_pending
<1>10. CASE rf_reset
       BY <1>1, <1>7, <1>10 DEF rf_reset, Fresh
<1> QED BY <1>2, <1>8, <1>9, <1>10

-----------------------------------------------------------------------------
(* The invariants of the registers and of the stores, each in a device of  *)
(* its own.                                                                *)

RegistersInv ==
    CalibrationInv /\ CommandInv /\ StatusInv /\ LlidInv /\ TimerInv /\ LockInv

StoresInv == LanesInv /\ TablesInv /\ VectorInv /\ AlarmsInv

(* A store that is not looked at stays, and so does what is true of it.    *)
LEMMA StoresAlone ==
    ASSUME UNCHANGED rf_vars, StoresInv, TimerInv, LockInv
    PROVE  StoresInv' /\ TimerInv' /\ LockInv'
<1>1. file' = file /\ cell' = cell /\ told' = told
      BY DEF rf_vars
<1>2. TimerInv' /\ LockInv' /\ LanesInv' /\ TablesInv'
      BY <1>1 DEF TimerInv, TimerMoves, LockInv, LanesInv, TablesInv, StoresInv
<1>3. VectorInv'
      BY <1>1 DEF VectorInv, interrupt_vector, is_installed_vector, StoresInv
<1>4. AlarmsInv'
      BY <1>1 DEF AlarmsInv, AlarmsAreASet, StoresInv
<1> QED BY <1>2, <1>3, <1>4 DEF StoresInv

(* The calibrations, the command words, the acknowledgements, the LLIDs,   *)
(* the counter and the lock keep what they are known by.                   *)
THEOREM RegistersInvariance == Spec => [](RegistersInv /\ StoresInv)
<1>1. ASSUME Init PROVE RegistersInv /\ StoresInv
  <2> USE <1>1 DEF Init
  <2>1. CalibrationInv
    <3>1. mbus = NewBus(BusTicks) /\ polls = [at \in Slots |-> NeverStarted]
          BY DEF mbus_Init
    <3>2. /\ 0 \in LanePages /\ CalReads \in Nat \ {0} /\ BusTicks \in Nat
          BY LaneBusAssumption DEF LaneBusAssumption
    <3>3. [at \in Slots |-> CalIdle] \in [Slots -> CalIdle .. CalReads]
          BY <3>2 DEF CalIdle
    <3>4. [r \in LaneRegs |-> 0] \in [LaneRegs -> Int]
          OBVIOUS
    <3>5. NewBus(BusTicks) \in Bus
          BY <3>2, <3>3, <3>4 DEF NewBus, Bus
    <3>6. mbus.cal = [at \in Slots |-> CalIdle] /\ mbus.done = {}
          BY <3>1 DEF NewBus
    <3> QED BY <3>1, <3>2, <3>5, <3>6 DEF CalibrationInv, NeverStarted
  <2>2. CommandInv
        BY DEF cmd_Init, CommandInv, CommandBitsEnd
  <2>3. StatusInv
        BY DEF status_Init, StatusInv, AcksLoseNothing
  <2>4. LlidInv
    <3>1. \A a \in Anchors : [hi |-> 1, lo |-> FreeLlid] \in [hi : {0, 1}, lo : Nat]
          BY EponAssumption DEF EponAssumption
    <3> QED BY <3>1 DEF epon_Init, LlidInv, LlidIsEnforced
  <2>5. /\ file \in Files /\ cell = Fresh(file)[1] /\ told = Fresh(file)[2]
        BY DEF rf_Init
  <2> HIDE <1>1
  <2>6. ASSUME file = "timer" PROVE TimerInv
    <3>1. cell = [counter |-> 0, prescaler |-> 1] /\ told = [prev |-> -1, last |-> -1]
          BY <2>5, <2>6 DEF Fresh
    <3> QED BY <3>1, RegisterFilesAssumption DEF TimerInv, TimerMoves, RegisterFilesAssumption
  <2>7. ASSUME file = "tssync" PROVE LockInv
        BY <2>5, <2>7 DEF Fresh, NoSync, LockInv
  <2>8. ASSUME file = "lanes" PROVE LanesInv
    <3>1. cell = 0 /\ told = [n \in 0 .. 3 |-> 0]
          BY <2>5, <2>8 DEF Fresh, Zero4
    <3>2. 0 \in Bytes
          BY RegisterFilesAssumption DEF RegisterFilesAssumption, Bytes
    <3> QED BY <3>1, <3>2, Weights DEF LanesInv
  <2>9. ASSUME file \in {"filter", "banks"} PROVE TablesInv
    <3>1. ASSUME file = "filter"
          PROVE  /\ cell = [cmd |-> 0, data |-> 0, table |-> [n \in FilterIndices |-> 0]]
                 /\ told = [data |-> 0, table |-> [n \in FilterIndices |-> 0]]
          BY <2>5, <3>1 DEF Fresh, NoFilter
    <3>2. ASSUME file = "banks" PROVE cell = PoweredBanks /\ told = PoweredTables
          BY <2>5, <3>2 DEF Fresh
    <3>3. [n \in FilterIndices |-> 0] \in [FilterIndices -> FilterData \cup {0}]
          OBVIOUS
    <3> QED BY <3>1, <3>2, <3>3, PowerOnBanks DEF TablesInv
  <2>10. ASSUME file = "ivt" PROVE VectorInv
    <3>1. /\ cell = [opcode |-> <<0, 0>>, target |-> <<0, 0>>, written |-> FALSE]
          /\ told = [left |-> <<>>, aim |-> <<>>, base |-> <<0, 0>>, was |-> <<>>]
          BY <2>5, <2>10 DEF Fresh, EmptySlot
    <3>2. /\ <<0, 0>> \in [1 .. 2 -> {0, 1}] /\ <<0, 0>> \in [1 .. 2 -> Nat]
          /\ <<>> \in Seq(SlotStores) /\ Len(<<>>) = 0
          OBVIOUS
    <3> QED BY <3>1, <3>2 DEF VectorInv
  <2>11. ASSUME file = "alarms" PROVE AlarmsInv
    <3>1. cell = <<>> /\ told = {}
          BY <2>5, <2>11 DEF Fresh
    <3>2. /\ cell \in Seq(AlarmOpcodes) /\ Len(cell) = 0 /\ DOMAIN cell = {}
          BY <3>1
    <3>3. IsFiniteSet(told) /\ Cardinality(told) = 0 /\ 0 <= ForcedOpcodeCapacity
          BY <3>1, FS_EmptySet, RegisterFilesAssumption DEF RegisterFilesAssumption
    <3>4. {cell[i] : i \in DOMAIN cell} = told
          BY <3>1, <3>2
    <3> QED BY <3>2, <3>3, <3>4 DEF AlarmsInv, AlarmsAreASet
  <2>12. /\ file # "timer" => TimerInv
         /\ file # "tssync" => LockInv
         /\ file # "lanes" => LanesInv
         /\ file # "ivt" => VectorInv
         /\ file # "alarms" => AlarmsInv
         /\ file \notin {"filter", "banks"} => TablesInv
         BY DEF TimerInv, LockInv, LanesInv, VectorInv, AlarmsInv, TablesInv
  <2> QED BY <2>1, <2>2, <2>3, <2>4, <2>6, <2>7, <2>8, <2>9, <2>10, <2>11, <2>12
          DEF RegistersInv, StoresInv
<1>2. RegistersInv /\ StoresInv /\ [Next]_soc_vars => RegistersInv' /\ StoresInv'
  <2> SUFFICES ASSUME RegistersInv, StoresInv, [Next]_soc_vars PROVE RegistersInv' /\ StoresInv'
      OBVIOUS
  <2>0. CalibrationInv /\ CommandInv /\ StatusInv /\ LlidInv /\ TimerInv /\ LockInv
        BY DEF RegistersInv
  <2>1. CalibrationInv'
    <3>1. CASE UNCHANGED mbus_vars
          BY <2>0, <3>1 DEF CalibrationInv, mbus_vars
    <3> QED BY <2>0, <3>1, CalibrationStep, StepOfOne
  <2>2. CommandInv'
    <3>1. CASE UNCHANGED cmd_vars
          BY <2>0, <3>1 DEF CommandInv, CommandBitsEnd, cmd_vars
    <3> QED BY <2>0, <3>1, CommandStep, StepOfOne
  <2>3. StatusInv'
    <3>1. CASE UNCHANGED status_vars
          BY <2>0, <3>1 DEF StatusInv, AcksLoseNothing, status_vars
    <3> QED BY <2>0, <3>1, StatusStep, StepOfOne
  <2>4. LlidInv'
    <3>1. CASE UNCHANGED epon_vars
          BY <2>0, <3>1 DEF LlidInv, LlidIsEnforced, epon_vars, Anchors
    <3> QED BY <2>0, <3>1, LlidStep, StepOfOne
  <2>5. TimerInv' /\ LockInv' /\ StoresInv'
    <3>1. CASE rf_Next
          BY <2>0, <3>1, TimerStep, LockStep, LanesStep, TablesStep, VectorStep, AlarmsStep
          DEF StoresInv
    <3> QED BY <2>0, <3>1, StoresAlone, StepOfOne
  <2> QED BY <2>1, <2>2, <2>3, <2>4, <2>5 DEF RegistersInv
<1> QED BY <1>1, <1>2, PTL DEF Spec

(* Whatever the words, the pages, the prescalers and the number of reads a *)
(* calibration takes: a done bit and a lock are earned, command bits end,  *)
(* an acknowledgement takes only what was read, the anchors hold the LLID  *)
(* of the session, and the counter moves when it is read.                  *)
THEOREM RegistersAreTrue == Spec => []RegistersTellTheTruth
<1>1. CalibrationInv => CalibrationIsEarned
  <2>1. ASSUME CalibrationInv, NEW p \in LanePages, NEW h \in Halves
        PROVE  /\ (<<p, h>> \in mbus.done) => (polls[p, h] = CalReads)
               /\ (mbus.cal[p, h] = CalDone) <=> (polls[p, h] = CalReads)
    <3>1. PICK at \in Slots : at = <<p, h>>
          BY DEF Slots
    <3>2. /\ polls[at] = IF mbus.cal[at] = CalIdle THEN NeverStarted ELSE CalReads - mbus.cal[at]
          /\ at \in mbus.done => mbus.cal[at] = CalDone
          BY <2>1 DEF CalibrationInv
    <3>3. mbus.cal[at] \in CalIdle .. CalReads /\ CalReads \in Nat \ {0}
          BY <2>1, LaneBusAssumption DEF CalibrationInv, Bus, LaneBusAssumption
    <3>4. (mbus.cal[at] = CalDone) <=> (polls[at] = CalReads)
          BY <3>2, <3>3 DEF CalIdle, CalDone, NeverStarted
    <3>5. at \in mbus.done => polls[at] = CalReads
          BY <3>2, <3>4, Zenon
    <3>6. mbus.cal[p, h] = mbus.cal[at] /\ polls[p, h] = polls[at]
          BY <3>1, Zenon
    <3> QED BY <3>1, <3>4, <3>5, <3>6, Zenon
  <2> QED BY <2>1 DEF CalibrationIsEarned
<1>2. LockInv => LockIsEarned
  <2>1. SUFFICES ASSUME LockInv, file = "tssync"
                 PROVE  /\ told.fresh /\ told.up /\ cell.fw = 0 => (read_lock(cell) = 1 <=> told.gates)
                        /\ cell.hw => told.gates
        BY DEF LockIsEarned
  <2>2. (cell.hw => told.gates) /\ (told.fresh /\ told.up => (cell.hw <=> told.gates))
        BY <2>1 DEF LockInv
  <2>3. cell.fw = 0 => (read_lock(cell) = 1 <=> cell.hw)
        BY DEF read_lock
  <2> QED BY <2>2, <2>3
<1>3. TimerInv => TimerMoves
      BY DEF TimerInv, TimerMoves
<1>4. RegistersInv => RegistersTellTheTruth
      BY <1>1, <1>2, <1>3
      DEF RegistersInv, RegistersTellTheTruth, CommandInv, StatusInv, LlidInv, TimerInv
<1> QED BY <1>4, RegistersInvariance, PTL

(* Whatever the widths of the accesses, the tables, the targets, the alarms*)
(* and the tools: what was stored is found again.                          *)
THEOREM StoresAreSound == Spec => []StoresAreFoundAgain
<1>1. ToolsInv => ToolCallsHold
      BY DEF ToolsInv
<1>2. AlarmsInv => AlarmsAreASet
      BY DEF AlarmsInv, AlarmsAreASet
<1>3. StoresInv /\ ToolsInv => StoresAreFoundAgain
      BY <1>1, <1>2, SameBlock, LanesRead, TablesRead, VectorRead DEF StoresInv, StoresAreFoundAgain
<1> QED BY <1>3, RegistersInvariance, ToolsInvariance, PTL

-----------------------------------------------------------------------------
(* The console.                                                            *)

(* The end of what was printed, with one byte more.                        *)
LEMMA EndGrows ==
    ASSUME NEW S, NEW s \in Seq(S), NEW t \in Seq(S), NEW b \in S,
           Len(t) <= Len(s), t = SubSeq(s, Len(s) - Len(t) + 1, Len(s))
    PROVE  LET u == Append(s, b)  v == Append(t, b)
           IN  v = SubSeq(u, Len(u) - Len(v) + 1, Len(u))
<1> DEFINE u == Append(s, b)
           v == Append(t, b)
<1>1. PICK m \in Nat, n \in Nat : m = Len(s) /\ n = Len(t)
      OBVIOUS
<1>2. /\ u \in Seq(S) /\ v \in Seq(S)
      /\ Len(u) = m + 1 /\ Len(v) = n + 1
      /\ \A i \in 1 .. m : u[i] = s[i]
      /\ \A i \in 1 .. n : v[i] = t[i]
      /\ u[m + 1] = b /\ v[n + 1] = b
      BY <1>1, AppendProperties
<1>3. \A i \in 1 .. n : t[i] = s[m - n + i]
  <2>1. PICK first \in Int, last \in Int : first = m - n + 1 /\ last = m
        OBVIOUS
  <2>2. \A i \in first .. last : s[i] \in S
        BY <1>1, <2>1, ElementOfSeq
  <2>3. \A i \in 1 .. last - first + 1 : SubSeq(s, first, last)[i] = s[first + i - 1]
        BY <2>2, SubSeqProperties
  <2>4. t = SubSeq(s, first, last)
        BY <1>1, <2>1
  <2>5. ASSUME NEW i \in 1 .. n PROVE t[i] = s[m - n + i]
    <3>1. i \in 1 .. last - first + 1 /\ first + i - 1 = m - n + i
          BY <1>1, <2>1
    <3>2. SubSeq(s, first, last)[i] = s[first + i - 1]
          BY <2>3, <3>1
    <3> QED BY <2>4, <3>1, <3>2, Zenon
  <2> QED BY <2>5
<1> HIDE DEF u, v
<1>4. \A i \in 1 .. n + 1 : v[i] = u[m - n + i]
  <2> SUFFICES ASSUME NEW i \in 1 .. n + 1 PROVE v[i] = u[m - n + i]
      OBVIOUS
  <2>1. CASE i = n + 1
        BY <1>2, <2>1
  <2>2. CASE i # n + 1
    <3>1. i \in 1 .. n /\ m - n + i \in 1 .. m
          BY <1>1, <2>2
    <3> QED BY <1>2, <1>3, <3>1
  <2> QED BY <2>1, <2>2
<1>5. PICK first \in Int, last \in Int : first = m - n + 1 /\ last = m + 1
      OBVIOUS
<1> DEFINE w == SubSeq(u, first, last)
<1>6. /\ w \in Seq(S) /\ Len(w) = IF first <= last THEN last - first + 1 ELSE 0
      /\ \A i \in 1 .. last - first + 1 : w[i] = u[first + i - 1]
  <2>1. \A i \in first .. last : u[i] \in S
        BY <1>1, <1>2, <1>5, ElementOfSeq
  <2> QED BY <2>1, SubSeqProperties
<1> HIDE DEF w
<1>7. v = w
  <2>1. Len(w) = n + 1 /\ \A i \in 1 .. n + 1 : w[i] = u[m - n + i]
        BY <1>1, <1>5, <1>6
  <2> QED BY <1>2, <1>4, <1>6, <2>1, SeqEqual
<1>8. Len(u) - Len(v) + 1 = first /\ Len(u) = last
      BY <1>2, <1>5
<1> QED BY <1>7, <1>8 DEF u, v, w

(* The end of what was printed, without its first byte.                    *)
LEMMA EndShrinks ==
    ASSUME NEW S, NEW s \in Seq(S), NEW t \in Seq(S), t # <<>>,
           Len(t) <= Len(s), t = SubSeq(s, Len(s) - Len(t) + 1, Len(s))
    PROVE  /\ Tail(t) \in Seq(S) /\ Len(Tail(t)) = Len(t) - 1
           /\ Tail(t) = SubSeq(s, Len(s) - Len(Tail(t)) + 1, Len(s))
<1>1. PICK m \in Nat, n \in Nat : m = Len(s) /\ n = Len(t)
      OBVIOUS
<1>2. n > 0 /\ Tail(t) \in Seq(S) /\ Len(Tail(t)) = n - 1
      BY <1>1, HeadTailProperties, EmptySeq
<1>3. Tail(SubSeq(s, m - n + 1, m)) = SubSeq(s, m - n + 2, m)
  <2>1. m - n + 1 \in 1 .. m /\ m \in (m - n + 1) .. m /\ m - n + 1 + 1 = m - n + 2
        BY <1>1, <1>2
  <2> QED BY <1>1, <2>1, HeadTailOfSubSeq
<1>4. Len(s) - Len(Tail(t)) + 1 = m - n + 2
      BY <1>1, <1>2
<1> QED BY <1>1, <1>2, <1>3, <1>4

ConsoleInv ==
    /\ typed \in Seq(UartBytes) /\ taken \in Seq(UartBytes)
    /\ rx_queue \in Seq(UartBytes) /\ rx_channel \in Seq(UartBytes)
    /\ printed \in Seq(UartBytes) /\ tx_log \in Seq(UartBytes)
    /\ typed = (taken \o rx_queue) \o rx_channel
    /\ tx_log = SubSeq(printed, Len(printed) - Len(tx_log) + 1, Len(printed))
    /\ Len(tx_log) = IF Len(printed) < TxLogCapacity THEN Len(printed) ELSE TxLogCapacity

(* One byte more on the screen: it goes to the end of the log, and the     *)
(* oldest leaves a full one.                                               *)
LEMMA PrintedOnce ==
    ASSUME ConsoleInv, NEW b \in UartBytes
    PROVE  LET s == Append(printed, b)  t == log_tx_byte(b)
           IN  /\ s \in Seq(UartBytes) /\ t \in Seq(UartBytes)
               /\ t = SubSeq(s, Len(s) - Len(t) + 1, Len(s))
               /\ Len(t) = IF Len(s) < TxLogCapacity THEN Len(s) ELSE TxLogCapacity
<1> DEFINE s == Append(printed, b)
           t == log_tx_byte(b)
           k == IF Len(tx_log) = TxLogCapacity THEN Tail(tx_log) ELSE tx_log
<1>1. PICK m \in Nat, n \in Nat, c \in Nat \ {0} :
          m = Len(printed) /\ n = Len(tx_log) /\ c = TxLogCapacity
      BY UartAssumption DEF UartAssumption, ConsoleInv
<1>2. n <= m /\ n = IF m < c THEN m ELSE c
      BY <1>1 DEF ConsoleInv
<1>3. /\ k \in Seq(UartBytes) /\ Len(k) <= m
      /\ k = SubSeq(printed, Len(printed) - Len(k) + 1, Len(printed))
      /\ Len(k) = IF n = c THEN n - 1 ELSE n
  <2>1. CASE n = c
    <3>1. tx_log # <<>>
          BY <1>1, <2>1
    <3>2. /\ printed \in Seq(UartBytes) /\ tx_log \in Seq(UartBytes)
          /\ tx_log = SubSeq(printed, Len(printed) - Len(tx_log) + 1, Len(printed))
          BY DEF ConsoleInv
    <3>3. Len(tx_log) <= Len(printed)
          BY <1>1, <1>2
    <3>4. /\ Tail(tx_log) \in Seq(UartBytes) /\ Len(Tail(tx_log)) = Len(tx_log) - 1
          /\ Tail(tx_log) = SubSeq(printed, Len(printed) - Len(Tail(tx_log)) + 1, Len(printed))
          BY <3>1, <3>2, <3>3, EndShrinks, Zenon
    <3>5. k = Tail(tx_log)
          BY <1>1, <2>1
    <3> HIDE DEF k
    <3> QED BY <1>1, <1>2, <2>1, <3>4, <3>5
  <2>2. CASE n # c
        BY <1>1, <1>2, <2>2 DEF ConsoleInv
  <2> QED BY <2>1, <2>2
<1>4. t = Append(k, b)
      BY DEF log_tx_byte
<1>5. /\ s \in Seq(UartBytes) /\ Len(s) = m + 1
      /\ t \in Seq(UartBytes) /\ Len(t) = Len(k) + 1
      BY <1>1, <1>3, <1>4, AppendProperties DEF ConsoleInv
<1>6. t = SubSeq(s, Len(s) - Len(t) + 1, Len(s))
  <2>1. printed \in Seq(UartBytes) /\ Len(k) <= Len(printed)
        BY <1>1, <1>3 DEF ConsoleInv
  <2>2. k \in Seq(UartBytes) /\ k = SubSeq(printed, Len(printed) - Len(k) + 1, Len(printed))
        BY <1>3
  <2> HIDE DEF k
  <2>3. LET u == Append(printed, b)  v == Append(k, b)
        IN  v = SubSeq(u, Len(u) - Len(v) + 1, Len(u))
        BY <2>1, <2>2, EndGrows, Zenon
  <2> QED BY <1>4, <2>3
<1>7. Len(t) = IF Len(s) < TxLogCapacity THEN Len(s) ELSE TxLogCapacity
  <2> HIDE DEF k, s, t
  <2> QED BY <1>1, <1>2, <1>3, <1>5
<1> HIDE DEF s, t
<1> QED BY <1>5, <1>6, <1>7 DEF s, t

LEMMA ConsoleStep == ASSUME ConsoleInv, uart_Next PROVE ConsoleInv'
<1> DEFINE B == Seq(UartBytes)
           Screen == /\ tx_log' = tx_log /\ printed' = printed
           Console == /\ typed' \in B /\ taken' \in B /\ rx_queue' \in B /\ rx_channel' \in B
                    /\ typed' = (taken' \o rx_queue') \o rx_channel'
<1>1. /\ typed \in B /\ taken \in B /\ rx_queue \in B /\ rx_channel \in B
      /\ typed = (taken \o rx_queue) \o rx_channel
      /\ taken \o rx_queue \in B
      BY ConcatProperties DEF ConsoleInv
<1>2. /\ <<>> \in B
      /\ \A x \in B : x \o <<>> = x /\ <<>> \o x = x
      BY ConcatEmptySeq
<1>3. \A x, y \in B : x \o y \in B
      BY ConcatProperties
<1>0. \A x, y, z \in B : (x \o y) \o z = x \o (y \o z)
      BY ConcatAssociative
<1>4. \A x \in B, b \in UartBytes : <<b>> \in B /\ Append(x, b) \in B /\ Append(x, b) = x \o <<b>>
  <2>1. \A x \in B, b \in UartBytes : Append(x, b) \in B
        BY AppendProperties
  <2>2. \A x \in B, b \in UartBytes : Append(x, b) = x \o <<b>>
        BY AppendIsConcat
  <2> QED BY <2>1, <2>2
<1> HIDE DEF B
<1>5. ASSUME Console, Screen PROVE ConsoleInv'
      BY <1>5 DEF ConsoleInv, B
<1>6. ASSUME NEW b \in UartBytes, rx_channel' = Append(rx_channel, b),
             typed' = Append(typed, b), UNCHANGED <<taken, rx_queue>>
      PROVE  Console
  <2>1. Append(typed, b) = ((taken \o rx_queue) \o rx_channel) \o <<b>>
        BY <1>1, <1>4
  <2>2. ((taken \o rx_queue) \o rx_channel) \o <<b>> = (taken \o rx_queue) \o (rx_channel \o <<b>>)
    <3>1. taken \o rx_queue \in B /\ rx_channel \in B /\ <<b>> \in B
          BY <1>1, <1>4
    <3> QED BY <1>0, <3>1, Zenon
  <2> QED BY <1>1, <1>4, <1>6, <2>1, <2>2
<1>7. ASSUME Type PROVE ConsoleInv'
      BY <1>5, <1>6, <1>7 DEF Type
<1>8. ASSUME uart_tick PROVE ConsoleInv'
  <2>1. /\ rx_queue' = rx_queue \o rx_channel /\ rx_channel' = <<>>
        /\ UNCHANGED <<typed, taken, tx_log, printed>>
        BY <1>8 DEF uart_tick
  <2>2. (taken \o rx_queue') \o rx_channel' = taken \o (rx_queue \o rx_channel)
        BY <1>0, <1>1, <1>2, <1>3, <2>1
  <2>3. Console
    <3>1. rx_queue \o rx_channel \in B /\ taken \o (rx_queue \o rx_channel) = typed
      <4>1. rx_queue \o rx_channel \in B
            BY <1>1, <1>3
      <4>2. (taken \o rx_queue) \o rx_channel = taken \o (rx_queue \o rx_channel)
        <5>1. taken \in B /\ rx_queue \in B /\ rx_channel \in B
              BY <1>1
        <5> QED BY <1>0, <5>1, Zenon
      <4> QED BY <1>1, <4>1, <4>2
    <3>3. (taken' \o rx_queue') \o rx_channel' = taken \o (rx_queue \o rx_channel)
          BY <2>1, <2>2
    <3> QED BY <1>1, <1>2, <2>1, <3>1, <3>3
  <2> QED BY <1>5, <2>1, <2>3
<1>9. ASSUME ReadData PROVE ConsoleInv'
  <2>1. CASE rx_queue = <<>>
    <3>1. rx_queue' = rx_queue /\ taken' = taken \o <<>>
          /\ UNCHANGED <<typed, rx_channel, tx_log, printed>>
          BY <1>9, <2>1 DEF ReadData
    <3>2. Console
          BY <1>1, <1>2, <3>1
    <3> QED BY <1>5, <3>1, <3>2
  <2>2. CASE rx_queue # <<>>
    <3>1. /\ rx_queue' = Tail(rx_queue) /\ taken' = taken \o <<Head(rx_queue)>>
          /\ UNCHANGED <<typed, rx_channel, tx_log, printed>>
          BY <1>9, <2>2 DEF ReadData, uart_peek
    <3>2. Head(rx_queue) \in UartBytes /\ Tail(rx_queue) \in B
          BY <1>1, <2>2, HeadTailProperties DEF B
    <3>3. <<Head(rx_queue)>> \o Tail(rx_queue) = rx_queue
          BY <1>1, <2>2 DEF B
    <3>4. <<Head(rx_queue)>> \in B
          BY <3>2 DEF B
    <3>5. (taken \o <<Head(rx_queue)>>) \o Tail(rx_queue) = taken \o rx_queue
      <4>1. (taken \o <<Head(rx_queue)>>) \o Tail(rx_queue)
                = taken \o (<<Head(rx_queue)>> \o Tail(rx_queue))
        <5>1. taken \in B /\ <<Head(rx_queue)>> \in B /\ Tail(rx_queue) \in B
              BY <1>1, <3>2, <3>4
        <5> QED BY <1>0, <5>1, Zenon
      <4> QED BY <3>3, <4>1
    <3>6. Console
          BY <1>1, <1>3, <3>1, <3>2, <3>4, <3>5
    <3> QED BY <1>5, <3>1, <3>6
  <2> QED BY <2>1, <2>2
<1>10. ASSUME WriteData PROVE ConsoleInv'
  <2>1. PICK b \in UartBytes : tx_log' = log_tx_byte(b) /\ printed' = Append(printed, b)
        BY <1>10 DEF WriteData
  <2>2. UNCHANGED <<typed, taken, rx_queue, rx_channel>>
        BY <1>10 DEF WriteData
  <2> QED BY <1>1, <2>1, <2>2, PrintedOnce DEF ConsoleInv, B
<1>11. ASSUME WriteIer PROVE ConsoleInv'
       BY <1>1, <1>5, <1>11 DEF WriteIer
<1>12. ASSUME InjectBytes PROVE ConsoleInv'
  <2>1. PICK b \in UartBytes : rx_queue' = Append(rx_queue, b) /\ typed' = Append(typed, b)
        BY <1>12 DEF InjectBytes
  <2>2. rx_channel = <<>> /\ rx_channel' = <<>> /\ UNCHANGED <<taken, tx_log, printed>>
        BY <1>12 DEF InjectBytes
  <2>3. typed = taken \o rx_queue
        BY <1>1, <1>2, <2>2
  <2>4. Append(typed, b) = taken \o Append(rx_queue, b)
    <3>1. Append(typed, b) = typed \o <<b>> /\ Append(rx_queue, b) = rx_queue \o <<b>>
          BY <1>1, <1>4
    <3>2. (taken \o rx_queue) \o <<b>> = taken \o (rx_queue \o <<b>>)
      <4>1. taken \in B /\ rx_queue \in B /\ <<b>> \in B
            BY <1>1, <1>4
      <4> QED BY <1>0, <4>1, Zenon
    <3> QED BY <2>3, <3>1, <3>2
  <2>5. /\ Append(typed, b) \in B /\ Append(rx_queue, b) \in B
        /\ taken \o Append(rx_queue, b) \in B
        BY <1>1, <1>3, <1>4
  <2>6. (taken \o Append(rx_queue, b)) \o <<>> = taken \o Append(rx_queue, b)
        BY <1>2, <2>5
  <2>7. Console
        BY <1>1, <2>1, <2>2, <2>4, <2>5, <2>6
  <2> QED BY <1>5, <2>2, <2>7
<1>13. ASSUME ClearTxLog PROVE ConsoleInv'
  <2>1. tx_log' = <<>> /\ printed' = <<>> /\ UNCHANGED <<typed, taken, rx_queue, rx_channel>>
        BY <1>13 DEF ClearTxLog
  <2>2. <<>> = SubSeq(<<>>, 1, 0) /\ Len(<<>>) = 0
        BY SubSeqEmpty
  <2> QED BY <1>1, <1>2, <2>1, <2>2, UartAssumption DEF UartAssumption, ConsoleInv, B
<1>14. ASSUME uart_reset PROVE ConsoleInv'
  <2>1. /\ rx_queue' = <<>> /\ typed' = taken \o rx_channel
        /\ UNCHANGED <<taken, rx_channel, tx_log, printed>>
        BY <1>14 DEF uart_reset
  <2>2. Console
        BY <1>0, <1>1, <1>2, <1>3, <2>1
  <2> QED BY <1>5, <2>1, <2>2
<1> QED BY <1>7, <1>8, <1>9, <1>10, <1>11, <1>12, <1>13, <1>14 DEF uart_Next

-----------------------------------------------------------------------------
(* The words of the I2C bus.                                               *)

(* One word more, in bytes.                                                *)
LEMMA OneWordMore ==
    ASSUME NEW a \in Int, NEW w \in Int
    PROVE  a * w \in Int /\ (a + 1) * w = a * w + w /\ 1 * w = w /\ 0 * w = 0
OBVIOUS

Fetched == {Nack} \cup [1 .. WordBytes -> {0, 1} \X Offset \X Nat]

(* What is known of a word that was fetched from ptr.                      *)
FetchedFrom(word, ptr) ==
    word # Nack =>
      /\ \A k \in 1 .. WordBytes : word[k][2] = (ptr + k - 1) % PageSize
      /\ \A j, k \in 1 .. WordBytes :
            /\ word[j][1] = 1 /\ {word[j][2], word[k][2]} \subseteq DdmBytes
            => word[j][3] = word[k][3]

TransferInv ==
    /\ got \in Seq(Fetched) /\ eeprom_ptr \in Nat
    /\ sub_addr \in Nat /\ pending_sub_addr \in Nat
    /\ a0 \in Nat /\ a2 \in Nat /\ ddm \in Nat
    /\ \A n \in 1 .. Len(got) :
          FetchedFrom(got[n], eeprom_ptr - (Len(got) - n + 1) * WordBytes)
    /\ protocol = "Armed" => eeprom_ptr = sub_addr + Len(got) * WordBytes

(* The word a read command fetches.                                        *)
LEMMA FetchedWord ==
    ASSUME NEW dev \in {0, 1}, NEW ptr \in Nat, a0 \in Nat, a2 \in Nat, ddm \in Nat
    PROVE  sfp_word(dev, ptr) \in Fetched /\ FetchedFrom(sfp_word(dev, ptr), ptr)
<1> DEFINE w == sfp_word(dev, ptr)
<1>1. PageSize \in Nat \ {0} /\ WordBytes \in Nat \ {0}
      BY BscAssumption DEF BscAssumption
<1>2. ASSUME NEW k \in 1 .. WordBytes
      PROVE  /\ w[k] = sfp_byte(dev, ptr + k - 1)
             /\ w[k][1] = dev /\ w[k][2] = (ptr + k - 1) % PageSize
             /\ w[k][3] = IF dev = 1 THEN (IF w[k][2] \in DdmBytes THEN ddm ELSE a2) ELSE a0
             /\ w[k] \in {0, 1} \X Offset \X Nat
  <2>1. PICK o : o = (ptr + k - 1) % PageSize
        OBVIOUS
  <2>2. o \in Offset
    <3>1. PICK x \in Nat, p \in Nat \ {0} : x = ptr + k - 1 /\ p = PageSize
          BY <1>1
    <3>2. x % p \in 0 .. p - 1
          OBVIOUS
    <3> QED BY <2>1, <3>1, <3>2 DEF Offset
  <2>3. w[k] = sfp_byte(dev, ptr + k - 1)
        BY DEF sfp_word
  <2>4. PICK v : v = IF dev = 1 THEN (IF o \in DdmBytes THEN ddm ELSE a2) ELSE a0
        OBVIOUS
  <2>5. w[k] = <<dev, o, v>> /\ v \in Nat
        BY <2>1, <2>3, <2>4 DEF sfp_byte
  <2>6. w[k] \in {0, 1} \X Offset \X Nat
        BY <2>2, <2>5
  <2>7. w[k][1] = dev /\ w[k][2] = o /\ w[k][3] = v
        BY <2>5
  <2> HIDE DEF w
  <2> QED BY <2>1, <2>3, <2>4, <2>6, <2>7
<1>3. w = [k \in 1 .. WordBytes |-> w[k]]
      BY DEF sfp_word
<1> HIDE DEF w
<1>4. w \in [1 .. WordBytes -> {0, 1} \X Offset \X Nat]
      BY <1>2, <1>3
<1>5. FetchedFrom(w, ptr)
      BY <1>2 DEF FetchedFrom
<1> QED BY <1>4, <1>5 DEF w, Fetched

LEMMA TransferStep == ASSUME TransferInv, bsc_Next PROVE TransferInv'
<1>1. PICK W \in Nat \ {0} : W = WordBytes
      BY BscAssumption DEF BscAssumption
<1>2. SubAddrs \subseteq Nat /\ 0 \in Nat
      BY BscAssumption DEF BscAssumption
<1>3. ASSUME UNCHANGED <<got, eeprom_ptr, sub_addr, protocol>>,
             pending_sub_addr' \in Nat, a0' \in Nat, a2' \in Nat, ddm' \in Nat
      PROVE  TransferInv'
      BY <1>3 DEF TransferInv
<1>4. ASSUME got' = <<>>, eeprom_ptr' \in Nat, sub_addr' \in Nat,
             protocol' = "Armed" => eeprom_ptr' = sub_addr',
             pending_sub_addr' \in Nat, a0' \in Nat, a2' \in Nat, ddm' \in Nat
      PROVE  TransferInv'
  <2>1. Len(got') = 0 /\ got' \in Seq(Fetched)
        BY <1>4
  <2>2. Len(got') * WordBytes = 0
        BY <1>1, <2>1, OneWordMore
  <2> QED BY <1>4, <2>1, <2>2 DEF TransferInv
<1>5. ASSUME WriteDataReg PROVE TransferInv'
      BY <1>2, <1>3, <1>5 DEF WriteDataReg, TransferInv, transfer, sfp
<1>6. ASSUME issue_command, Latch PROVE TransferInv'
      BY <1>6 DEF issue_command, Latch, TransferInv, sfp
<1>7. ASSUME issue_command, FetchWord, protocol = "Armed", bytes_read < byte_count
      PROVE  TransferInv'
  <2> DEFINE word == IF force_nack THEN Nack ELSE sfp_word(last_device', eeprom_ptr)
  <2>1. /\ got' = Append(got, word) /\ eeprom_ptr' = eeprom_ptr + WordBytes
        /\ protocol' \in {"Idle", protocol}
        /\ UNCHANGED <<sub_addr, pending_sub_addr, a0, a2, ddm>>
        BY <1>7 DEF issue_command, FetchWord, sfp
  <2>2. word \in Fetched /\ FetchedFrom(word, eeprom_ptr)
    <3>1. last_device' \in {0, 1}
          BY <1>7 DEF issue_command
    <3>2. CASE force_nack
          BY <3>2 DEF Fetched, FetchedFrom
    <3>3. CASE ~force_nack
          BY <3>1, <3>3, FetchedWord DEF TransferInv
    <3> QED BY <3>2, <3>3
  <2> HIDE DEF word
  <2>3. PICK L \in Nat, ptr \in Nat : L = Len(got) /\ ptr = eeprom_ptr
        BY DEF TransferInv
  <2>4. /\ got' \in Seq(Fetched) /\ Len(got') = L + 1
        /\ \A n \in 1 .. L : got'[n] = got[n]
        /\ got'[L + 1] = word
        BY <2>1, <2>2, <2>3, AppendProperties DEF TransferInv
  <2>5. eeprom_ptr' = ptr + W
        BY <1>1, <2>1, <2>3
  <2>6. ASSUME NEW n \in 1 .. L + 1
        PROVE  FetchedFrom(got'[n], ptr + W - (L + 1 - n + 1) * W)
    <3>1. CASE n = L + 1
      <4>1. (L + 1 - n + 1) * W = W
            BY <3>1, OneWordMore
      <4>2. ptr + W - (L + 1 - n + 1) * W = ptr
            BY <4>1
      <4> QED BY <2>2, <2>3, <2>4, <3>1, <4>2
    <3>2. CASE n # L + 1
      <4>1. PICK c \in Int : c = L - n + 1
            OBVIOUS
      <4>2. PICK d \in Int : d = c * W
            BY OneWordMore
      <4>3. (c + 1) * W = d + W
            BY <4>2, OneWordMore
      <4>4. L + 1 - n + 1 = c + 1
            BY <4>1
      <4>5. ptr + W - (L + 1 - n + 1) * W = ptr - d
            BY <4>3, <4>4
      <4>6. FetchedFrom(got[n], ptr - d)
            BY <1>1, <2>3, <3>2, <4>1, <4>2 DEF TransferInv
      <4> QED BY <2>4, <3>2, <4>5, <4>6
    <3> QED BY <3>1, <3>2
  <2>7. ptr + W = sub_addr + (L + 1) * W
    <3>1. ptr = sub_addr + L * W
          BY <1>1, <1>7, <2>3 DEF TransferInv
    <3>2. PICK d \in Int : d = L * W
          BY OneWordMore
    <3>3. (L + 1) * W = d + W
          BY <3>2, OneWordMore
    <3> QED BY <3>1, <3>2, <3>3 DEF TransferInv
  <2>8. \A n \in 1 .. Len(got') :
            FetchedFrom(got'[n], eeprom_ptr' - (Len(got') - n + 1) * WordBytes)
        BY <1>1, <2>4, <2>5, <2>6
  <2>9. eeprom_ptr' = sub_addr' + Len(got') * WordBytes
        BY <1>1, <2>1, <2>4, <2>5, <2>7
  <2>10. (\A n \in 1 .. Len(got) :
             FetchedFrom(got[n], eeprom_ptr - (Len(got) - n + 1) * WordBytes))'
        BY <2>8 DEF FetchedFrom
  <2>11. eeprom_ptr' \in Nat
         BY <2>3, <2>5
  <2> QED BY <2>1, <2>4, <2>9, <2>10, <2>11 DEF TransferInv
<1>8. ASSUME issue_command, FetchWord, ~(protocol = "Armed" /\ bytes_read < byte_count)
      PROVE  TransferInv'
      BY <1>3, <1>8 DEF issue_command, FetchWord, TransferInv, sfp
<1>9. ASSUME WriteStat PROVE TransferInv'
  <2>1. UNCHANGED <<pending_sub_addr, sub_addr, a0, a2, ddm>>
        BY <1>9 DEF WriteStat, sfp
  <2>2. \/ UNCHANGED <<got, eeprom_ptr, protocol>>
        \/ got' = <<>> /\ eeprom_ptr' = sub_addr
        BY <1>9 DEF WriteStat
  <2> QED BY <1>3, <1>4, <2>1, <2>2 DEF TransferInv
<1>10. ASSUME bsc_reset PROVE TransferInv'
       BY <1>2, <1>4, <1>10 DEF bsc_reset
<1>11. ASSUME ReadDataReg \/ ReadCmd \/ OtherLane \/ WriteLane2Data \/ bsc_tick
       PROVE  TransferInv'
       BY <1>3, <1>11 DEF ReadDataReg, ReadCmd, OtherLane, WriteLane2Data, bsc_tick,
                          TransferInv, transfer, sfp
<1>12. ASSUME ForceNack \/ ResetBus PROVE TransferInv'
       BY <1>3, <1>12 DEF ForceNack, ResetBus, TransferInv, transfer, sfp
<1>13. ASSUME SetReading \/ load_pages PROVE TransferInv'
  <2>1. a0' \in Nat /\ a2' \in Nat /\ ddm' \in Nat
        BY <1>13 DEF SetReading, load_pages, TransferInv
  <2> QED BY <1>3, <1>13, <2>1 DEF SetReading, load_pages, TransferInv, transfer
<1> QED BY <1>5, <1>6, <1>7, <1>8, <1>9, <1>10, <1>11, <1>12, <1>13
        DEF bsc_Next, issue_command

LEMMA TransferRead == TransferInv => TransfersAreWhole
<1> SUFFICES ASSUME TransferInv, NEW n \in DOMAIN got, got[n] # Nack
             PROVE  /\ \A k \in 1 .. WordBytes :
                          got[n][k][2] = (eeprom_ptr - (Len(got) - n + 1) * WordBytes + k - 1) % PageSize
                    /\ \A j, k \in 1 .. WordBytes :
                          /\ got[n][j][1] = 1 /\ {got[n][j][2], got[n][k][2]} \subseteq DdmBytes
                          => got[n][j][3] = got[n][k][3]
                    /\ protocol = "Armed" => eeprom_ptr = sub_addr + Len(got) * WordBytes
    BY DEF TransfersAreWhole
<1>1. n \in 1 .. Len(got)
      BY DEF TransferInv
<1>2. FetchedFrom(got[n], eeprom_ptr - (Len(got) - n + 1) * WordBytes)
      BY <1>1 DEF TransferInv
<1> QED BY <1>2 DEF FetchedFrom, TransferInv

-----------------------------------------------------------------------------
(* The mailbox.                                                            *)

(* The words of a submission hold its bytes and the two of padding, and    *)
(* one word less would not.                                                *)
LEMMA WordsOfLength ==
    ASSUME NEW len \in ETHERNET_HEADER_LEN .. 2047
    PROVE  /\ word_count(len) \in Nat
           /\ 4 * word_count(len) >= 2 + len /\ 4 * (word_count(len) - 1) < 2 + len
           /\ len # 2047 => word_count(len) <= 512
<1>1. PICK q \in Nat, r \in 0 .. 3 :
        q = (len + 6) \div 4 /\ r = (len + 6) % 4 /\ len + 6 = 4 * q + r
      BY DEF ETHERNET_HEADER_LEN
<1>2. len >= 14 /\ len <= 2047 /\ q >= 2
      BY <1>1 DEF ETHERNET_HEADER_LEN
<1>3. word_count(len) = 1 + (q - 2) + (IF r # 0 THEN 1 ELSE 0)
      BY <1>1, <1>2 DEF word_count
<1> QED BY <1>1, <1>2, <1>3

MailInv ==
    /\ asm = NoSubmission
         \/ /\ asm \in [len : ETHERNET_HEADER_LEN .. 2047, words : Nat]
            /\ asm.words < word_count(asm.len)
    /\ out.kind = "frame" => 4 * out.words >= 2 + out.len /\ 4 * (out.words - 1) < 2 + out.len
    /\ out.kind = "dropped" /\ out.len > 0 => out.len = 2047

LEMMA MailStep == ASSUME MailInv, codec_Next PROVE MailInv'
<1>1. ASSUME UNCHANGED <<asm, out>> PROVE MailInv'
      BY <1>1 DEF MailInv
<1>2. ASSUME NEW len \in Announced, begin(len) PROVE MailInv'
  <2>1. len \in ETHERNET_HEADER_LEN .. 2047
        BY <1>2, CodecAssumption DEF begin, CodecAssumption, ETHERNET_HEADER_LEN
  <2>2. 0 < word_count(len)
        BY <2>1, WordsOfLength DEF ETHERNET_HEADER_LEN
  <2>3. asm' = [len |-> len, words |-> 0]
        BY <1>2 DEF begin
  <2>4. out'.kind # "frame" /\ out'.len = 0
        BY <1>2 DEF begin, Idle
  <2> QED BY <2>1, <2>2, <2>3, <2>4 DEF MailInv
<1>3. ASSUME push_word PROVE MailInv'
  <2>1. PICK len \in ETHERNET_HEADER_LEN .. 2047, w \in Nat :
          asm = [len |-> len, words |-> w] /\ w < word_count(len)
        BY <1>3 DEF MailInv, push_word
  <2>2. /\ word_count(len) \in Nat
        /\ 4 * word_count(len) >= 2 + len /\ 4 * (word_count(len) - 1) < 2 + len
        /\ len # 2047 => word_count(len) <= 512
        BY <2>1, WordsOfLength
  <2>3. PICK n \in Nat : n = word_count(len)
        BY <2>2
  <2>4. MaxWords \in Nat /\ MaxWords >= 512
        BY CodecAssumption DEF CodecAssumption
  <2> DEFINE a == [asm EXCEPT !.words = w + 1]
  <2>5. a = [len |-> len, words |-> w + 1] /\ a.len = len /\ a.words = w + 1
        BY <2>1
  <2>6. \/ /\ a.words > MaxWords
           /\ asm' = NoSubmission
           /\ out' = [kind |-> "dropped", len |-> a.len, words |-> a.words]
        \/ /\ a.words <= MaxWords /\ ~Complete_words(a)
           /\ asm' = a /\ out' = Idle
        \/ /\ a.words <= MaxWords /\ Complete_words(a)
           /\ asm' = NoSubmission
           /\ out' = [kind |-> IF 4 * a.words >= 2 + a.len THEN "frame" ELSE "dropped",
                      len |-> a.len, words |-> a.words]
        BY <1>3, <2>1 DEF push_word
  <2> HIDE DEF a
  <2>7. CASE w + 1 > MaxWords
    <3>1. asm' = NoSubmission /\ out' = [kind |-> "dropped", len |-> len, words |-> w + 1]
          BY <2>4, <2>5, <2>6, <2>7
    <3>2. len = 2047
          BY <2>1, <2>2, <2>3, <2>4, <2>7
    <3> QED BY <3>1, <3>2 DEF MailInv
  <2>8. CASE w + 1 <= MaxWords /\ w + 1 < n
    <3>1. asm' = [len |-> len, words |-> w + 1] /\ out' = Idle
          BY <2>3, <2>4, <2>5, <2>6, <2>8 DEF Complete_words
    <3> QED BY <2>1, <2>3, <2>8, <3>1 DEF MailInv, Idle
  <2>9. CASE w + 1 <= MaxWords /\ w + 1 = n
    <3>1. /\ asm' = NoSubmission
          /\ out' = [kind |-> IF 4 * (w + 1) >= 2 + len THEN "frame" ELSE "dropped",
                     len |-> len, words |-> w + 1]
          BY <2>3, <2>4, <2>5, <2>6, <2>9 DEF Complete_words
    <3>2. out' = [kind |-> "frame", len |-> len, words |-> n]
          BY <2>2, <2>3, <2>9, <3>1
    <3> QED BY <2>2, <2>3, <3>1, <3>2 DEF MailInv
  <2> QED BY <2>1, <2>3, <2>4, <2>7, <2>8, <2>9
<1> QED BY <1>1, <1>2, <1>3 DEF codec_Next, Write, Cut, Submit, Push

LEMMA MailRead == MailInv => SubmissionsFit /\ MailboxWordsHold
<1>1. ASSUME MailInv PROVE SubmissionsFit
  <2>1. ASSUME asm # NoSubmission PROVE asm.words < MaxWords \/ asm.len = 2047
        BY <1>1, <2>1, WordsOfLength, CodecAssumption DEF MailInv, CodecAssumption
  <2> QED BY <1>1, <2>1 DEF MailInv, SubmissionsFit
<1>2. MailboxWordsHold
  <2>1. SUFFICES ASSUME NEW len \in Announced, len < 2042
                 PROVE  encode_length(len) - 6 = len /\ 4 * (encode_words(len) - 1) >= 2 + len
        BY DEF MailboxWordsHold
  <2>2. len \in 0 .. 2041
        BY <2>1, CodecAssumption DEF CodecAssumption
  <2>3. encode_length(len) = len + 6
        BY <2>2 DEF encode_length
  <2>4. CASE len <= 2
        BY <2>2, <2>3, <2>4 DEF encode_words
  <2>5. CASE len > 2
    <3>1. PICK q \in Nat, r \in 0 .. 3 : q = (len + 1) \div 4 /\ len + 1 = 4 * q + r
          BY <2>2
    <3>2. encode_words(len) = 2 + q
          BY <2>2, <2>5, <3>1 DEF encode_words
    <3> QED BY <2>2, <2>3, <3>1, <3>2
  <2> QED BY <2>2, <2>4, <2>5
<1> QED BY <1>1, <1>2

-----------------------------------------------------------------------------
(* The upstream line.                                                      *)

UpKinds == {"request", "data"}

(* The first words of a submission.                                        *)
FirstWords(id, m) == [n \in 1 .. m |-> <<id, n>>]

UpFrames == [kind : UpKinds, words : {FirstWords(id, UpWords) : id \in Nat \ {0}}]
              \cup [kind : {"burst"}, words : {<<>>}]
              \cup [kind : {"report"}, words : {<<n>> : n \in Nat}]

Sent == [frame : UpFrames, arrives_at : Nat, session : Nat]

(* A frame that may be sent by now: of a submission announced so far, of a *)
(* template long enough, and nothing synthetic once a frame was captured.  *)
MayBeSent(f, ids, captured) ==
    /\ f \in UpFrames
    /\ IsFirmwareFrame(f) => captured /\ \E id \in 1 .. ids : f.words = FirstWords(id, UpWords)
    /\ f.kind = "report" => f.words[1] >= MinMpcpdu

LineInv(line, ids, breaks, captured) ==
    /\ line \in Seq(Sent)
    /\ \A i \in 1 .. Len(line) : /\ MayBeSent(line[i].frame, ids, captured)
                                 /\ line[i].session = breaks
    /\ \A i, j \in 1 .. Len(line) :
          i < j /\ IsFirmwareFrame(line[i].frame) => line[j].frame.kind # "burst"

AssemblerInv ==
    /\ context \in [Ports -> [id : Nat, kind : UpKinds, pushed : Nat]]
    /\ \A p \in Ports : context[p].id <= made.ids /\ context[p].pushed < UpWords
    /\ tx_assembler \in [port : Ports \cup {NoPort}, id : Nat, kind : UpKinds,
                         words : Seq(Nat \X Nat)]
    /\ \A p \in Ports : tx_assembler.port = p =>
          tx_assembler.words = FirstWords(context[p].id, context[p].pushed)

UplinkInv ==
    /\ made \in [ids : Nat, reports : Nat, triggers : Nat, breaks : Nat]
    /\ up_tick \in Nat /\ real_tx_seen \in BOOLEAN
    /\ report_template.length \in Nat
    /\ LineInv(upstream, made.ids, made.breaks, real_tx_seen)
    /\ AssemblerInv
    /\ grants_answered \in Nat /\ made.reports <= grants_answered
    /\ far_end.granted = grants_answered

(* A frame more on the line, if there is room for it.                      *)
LEMMA LineGrows ==
    ASSUME NEW line, NEW ids \in Nat, NEW captured \in BOOLEAN, NEW by_now \in BOOLEAN, NEW f,
           LineInv(line, ids, made.breaks, captured), captured => by_now,
           MayBeSent(f, ids, by_now), f.kind = "burst" => ~captured,
           made.breaks \in Nat, NEW at \in Nat
    PROVE  LineInv(on_tx_frame(line, f, at), ids, made.breaks, by_now)
<1> DEFINE x == [frame |-> f, arrives_at |-> at + Crossing, session |-> made.breaks]
           more == Append(line, x)
<1>1. \A i \in 1 .. Len(line) : MayBeSent(line[i].frame, ids, by_now) /\ line[i].session = made.breaks
      BY DEF LineInv, MayBeSent
<1>2. LineInv(line, ids, made.breaks, by_now)
      BY <1>1 DEF LineInv
<1>3. x \in Sent
  <2>1. at + Crossing \in Nat
        BY UplinkAssumption DEF UplinkAssumption
  <2> QED BY <2>1 DEF Sent, MayBeSent
<1>4. x.frame = f /\ x.session = made.breaks
      OBVIOUS
<1> HIDE DEF x
<1>5. PICK L \in Nat : L = Len(line)
      BY DEF LineInv
<1>6. /\ more \in Seq(Sent) /\ Len(more) = L + 1
      /\ \A i \in 1 .. L : more[i] = line[i]
      /\ more[L + 1] = x
      BY <1>3, <1>5, AppendProperties DEF LineInv
<1> HIDE DEF more
<1>7. ASSUME NEW i \in 1 .. L + 1
      PROVE  MayBeSent(more[i].frame, ids, by_now) /\ more[i].session = made.breaks
      BY <1>1, <1>4, <1>5, <1>6
<1>8. ASSUME NEW i \in 1 .. L + 1, NEW j \in 1 .. L + 1, i < j, IsFirmwareFrame(more[i].frame)
      PROVE  more[j].frame.kind # "burst"
  <2>1. i \in 1 .. L /\ more[i] = line[i]
        BY <1>6, <1>8
  <2>2. captured
        BY <1>5, <1>8, <2>1 DEF LineInv, MayBeSent
  <2>3. CASE j = L + 1
        BY <1>4, <1>6, <2>2, <2>3
  <2>4. CASE j # L + 1
    <3>1. j \in 1 .. L /\ more[j] = line[j]
          BY <1>6, <2>4
    <3>2. i < j /\ IsFirmwareFrame(line[i].frame)
          BY <1>8, <2>1
    <3>3. \A a, b \in 1 .. L : a < b /\ IsFirmwareFrame(line[a].frame) => line[b].frame.kind # "burst"
          BY <1>5 DEF LineInv
    <3>4. line[j].frame.kind # "burst"
          BY <2>1, <3>1, <3>2, <3>3
    <3> QED BY <3>1, <3>4
  <2> QED BY <2>3, <2>4
<1>9. LineInv(more, ids, made.breaks, by_now)
      BY <1>6, <1>7, <1>8 DEF LineInv
<1> QED BY <1>2, <1>9 DEF on_tx_frame, more, x

(* What has landed is gone, and the rest of the line is as it was.         *)
LEMMA LineMoves ==
    ASSUME NEW line, NEW ids, NEW breaks, NEW captured, LineInv(line, ids, breaks, captured),
           NEW landed \in 0 .. Len(line)
    PROVE  LineInv(SubSeq(line, landed + 1, Len(line)), ids, breaks, captured)
<1>1. PICK L \in Nat, first \in Nat : L = Len(line) /\ first = landed + 1 /\ first <= L + 1
      BY DEF LineInv
<1> DEFINE ahead == SubSeq(line, first, L)
<1>2. \A i \in first .. L : line[i] \in Sent
      BY <1>1, ElementOfSeq DEF LineInv
<1>3. /\ ahead \in Seq(Sent)
      /\ Len(ahead) = IF first <= L THEN L - first + 1 ELSE 0
      /\ \A i \in 1 .. L - first + 1 : ahead[i] = line[first + i - 1]
      BY <1>2, SubSeqProperties
<1> HIDE DEF ahead
<1>4. Len(ahead) = L - first + 1
      BY <1>1, <1>3
<1>5. ASSUME NEW i \in 1 .. Len(ahead)
      PROVE  first + i - 1 \in 1 .. L /\ ahead[i] = line[first + i - 1]
      BY <1>1, <1>3, <1>4
<1>6. \A i \in 1 .. Len(ahead) : MayBeSent(ahead[i].frame, ids, captured) /\ ahead[i].session = breaks
      BY <1>1, <1>5 DEF LineInv
<1>7. ASSUME NEW i \in 1 .. Len(ahead), NEW j \in 1 .. Len(ahead), i < j,
             IsFirmwareFrame(ahead[i].frame)
      PROVE  ahead[j].frame.kind # "burst"
  <2>1. first + i - 1 < first + j - 1
        BY <1>1, <1>3, <1>7
  <2> QED BY <1>1, <1>5, <1>7, <2>1 DEF LineInv
<1>8. LineInv(ahead, ids, breaks, captured)
      BY <1>3, <1>6, <1>7 DEF LineInv
<1> QED BY <1>1, <1>8 DEF ahead

(* One word more.                                                          *)
LEMMA NextWord ==
    ASSUME NEW id \in Nat, NEW m \in Nat
    PROVE  /\ Append(FirstWords(id, m), <<id, m + 1>>) = FirstWords(id, m + 1)
           /\ Len(Append(FirstWords(id, m), <<id, m + 1>>)) = m + 1
<1> DEFINE s == FirstWords(id, m)
           t == FirstWords(id, m + 1)
           a == Append(s, <<id, m + 1>>)
<1>1. s \in Seq(Nat \X Nat) /\ Len(s) = m /\ \A n \in 1 .. m : s[n] = <<id, n>>
      BY DEF FirstWords
<1>2. t \in Seq(Nat \X Nat) /\ Len(t) = m + 1 /\ \A n \in 1 .. m + 1 : t[n] = <<id, n>>
      BY DEF FirstWords
<1> HIDE DEF s, t
<1>3. <<id, m + 1>> \in Nat \X Nat
      OBVIOUS
<1>4. /\ a \in Seq(Nat \X Nat) /\ Len(a) = m + 1
      /\ \A n \in 1 .. m : a[n] = s[n]
      /\ a[m + 1] = <<id, m + 1>>
      BY <1>1, <1>3, AppendProperties
<1> HIDE DEF a
<1>5. \A n \in 1 .. m + 1 : a[n] = t[n]
      BY <1>1, <1>2, <1>4
<1>6. a = t
      BY <1>2, <1>4, <1>5, SeqEqual
<1> QED BY <1>4, <1>6 DEF a, s, t

(* What is announced later may only add submissions.                       *)
LEMMA AnnouncedSince ==
    ASSUME NEW line, NEW ids \in Nat, NEW breaks, NEW captured, LineInv(line, ids, breaks, captured)
    PROVE  LineInv(line, ids + 1, breaks, captured)
<1>1. \A i \in 1 .. Len(line) : MayBeSent(line[i].frame, ids, captured) => MayBeSent(line[i].frame, ids + 1, captured)
      BY DEF MayBeSent
<1> QED BY <1>1 DEF LineInv

LEMMA EmptyLine ==
    ASSUME NEW ids, NEW breaks, NEW captured
    PROVE  LineInv(<<>>, ids, breaks, captured)
BY DEF LineInv

LEMMA AnnounceStep ==
    ASSUME UplinkInv, NEW p \in Ports, NEW kind \in UpKinds, AnnounceFrame(p, kind)
    PROVE  UplinkInv'
<1>1. PICK k \in Nat : k = made.ids
      BY DEF UplinkInv
<1>2. /\ context' = [context EXCEPT ![p] = [id |-> k + 1, kind |-> kind, pushed |-> 0]]
      /\ tx_assembler' = [port |-> p, id |-> k + 1, kind |-> kind, words |-> <<>>]
      /\ made' = [made EXCEPT !.ids = k + 1]
      /\ UNCHANGED <<report_template, real_tx_seen, grants_answered, upstream, far_end, up_tick>>
      BY <1>1 DEF AnnounceFrame
<1>3. /\ made' \in [ids : Nat, reports : Nat, triggers : Nat, breaks : Nat]
      /\ made'.ids = k + 1 /\ made'.reports = made.reports /\ made'.breaks = made.breaks
      BY <1>1, <1>2 DEF UplinkInv
<1>4. LineInv(upstream', made'.ids, made'.breaks, real_tx_seen')
      BY <1>1, <1>2, <1>3, AnnouncedSince DEF UplinkInv
<1>5. AssemblerInv'
  <2>1. UpWords \in Nat \ {0}
        BY UplinkAssumption DEF UplinkAssumption
  <2>2. context' \in [Ports -> [id : Nat, kind : UpKinds, pushed : Nat]]
        BY <1>2 DEF UplinkInv, AssemblerInv
  <2>3. /\ context'[p].id = k + 1 /\ context'[p].pushed = 0
        /\ \A q \in Ports : q # p => context'[q] = context[q]
        BY <1>2 DEF UplinkInv, AssemblerInv
  <2>4. \A q \in Ports : context'[q].id <= made'.ids /\ context'[q].pushed < UpWords
    <3>1. \A q \in Ports : context[q].id \in Nat /\ context[q].id <= k /\ context[q].pushed < UpWords
          BY <1>1 DEF UplinkInv, AssemblerInv
    <3> QED BY <1>3, <2>1, <2>3, <3>1
  <2>5. <<>> = FirstWords(context'[p].id, context'[p].pushed)
        BY <2>3 DEF FirstWords
  <2>6. /\ tx_assembler'.port = p /\ tx_assembler'.words = <<>>
        /\ tx_assembler' \in [port : Ports \cup {NoPort}, id : Nat, kind : UpKinds,
                              words : Seq(Nat \X Nat)]
    <3>1. <<>> \in Seq(Nat \X Nat)
          OBVIOUS
    <3> QED BY <1>2, <3>1
  <2> QED BY <2>2, <2>4, <2>5, <2>6 DEF AssemblerInv
<1> QED BY <1>2, <1>3, <1>4, <1>5 DEF UplinkInv, LineInv, MayBeSent

LEMMA PushStep == ASSUME UplinkInv, NEW p \in Ports, PushData(p) PROVE UplinkInv'
<1>1. PICK id \in Nat, m \in Nat :
        /\ id = context[p].id /\ m = context[p].pushed
        /\ id # 0 /\ id <= made.ids /\ m < UpWords
      BY DEF UplinkInv, AssemblerInv, PushData
<1>2. UpWords \in Nat \ {0} /\ "none" \notin Ports
      BY UplinkAssumption DEF UplinkAssumption
<1>3. /\ context' = [context EXCEPT ![p] = IF m + 1 = UpWords THEN AtRest
                                           ELSE [context[p] EXCEPT !.pushed = m + 1]]
      /\ UNCHANGED <<report_template, grants_answered, up_tick, made>>
  <2>1. context' = [context EXCEPT ![p] =
                       IF context[p].pushed + 1 = UpWords THEN AtRest
                       ELSE [context[p] EXCEPT !.pushed = context[p].pushed + 1]]
        BY DEF PushData, Takes
  <2>2. UNCHANGED <<report_template, grants_answered, up_tick, made>>
        BY DEF PushData, Takes
  <2> QED BY <1>1, <2>1, <2>2
<1>4. /\ context' \in [Ports -> [id : Nat, kind : UpKinds, pushed : Nat]]
      /\ \A q \in Ports : q # p => context'[q] = context[q]
      /\ context'[p] = IF m + 1 = UpWords THEN AtRest ELSE [context[p] EXCEPT !.pushed = m + 1]
  <2>1. PICK c : c = IF m + 1 = UpWords THEN AtRest ELSE [context[p] EXCEPT !.pushed = m + 1]
        OBVIOUS
  <2>2. c \in [id : Nat, kind : UpKinds, pushed : Nat]
    <3>1. context[p] \in [id : Nat, kind : UpKinds, pushed : Nat]
          BY DEF UplinkInv, AssemblerInv
    <3>2. AtRest \in [id : Nat, kind : UpKinds, pushed : Nat]
          BY DEF AtRest, UpKinds
    <3> QED BY <2>1, <3>1, <3>2
  <2>3. context' = [context EXCEPT ![p] = c]
        BY <1>3, <2>1
  <2> QED BY <2>1, <2>2, <2>3 DEF UplinkInv, AssemblerInv
<1>5. \A q \in Ports : context'[q].id <= made'.ids /\ context'[q].pushed < UpWords
  <2>1. made.ids \in Nat /\ made'.ids = made.ids
        BY <1>3 DEF UplinkInv
  <2>2. context'[p].id <= made.ids /\ context'[p].pushed < UpWords
    <3>1. CASE m + 1 = UpWords
          BY <1>2, <1>4, <2>1, <3>1 DEF AtRest
    <3>2. CASE m + 1 # UpWords
      <4>1. context'[p].id = id /\ context'[p].pushed = m + 1
            BY <1>1, <1>4, <3>2 DEF UplinkInv, AssemblerInv
      <4> QED BY <1>1, <1>2, <3>2, <4>1
    <3> QED BY <3>1, <3>2
  <2> QED BY <1>4, <2>1, <2>2 DEF UplinkInv, AssemblerInv
<1>6. CASE tx_assembler.port # p
  <2>1. UNCHANGED <<tx_assembler, upstream, real_tx_seen, far_end>>
        BY <1>6 DEF PushData, Takes
  <2>2. AssemblerInv'
        BY <1>4, <1>5, <1>6, <2>1 DEF UplinkInv, AssemblerInv
  <2> QED BY <1>3, <2>1, <2>2 DEF UplinkInv, LineInv, MayBeSent
<1>7. CASE tx_assembler.port = p
  <2> DEFINE words == Append(tx_assembler.words, <<context[p].id, context[p].pushed + 1>>)
  <2>1. words = FirstWords(id, m + 1) /\ Len(words) = m + 1
    <3>1. tx_assembler.words = FirstWords(id, m)
          BY <1>1, <1>7 DEF UplinkInv, AssemblerInv
    <3>2. words = Append(FirstWords(id, m), <<id, m + 1>>)
          BY <1>1, <3>1
    <3> HIDE DEF words
    <3> QED BY <3>2, NextWord
  <2> HIDE DEF words
  <2>2. words \in Seq(Nat \X Nat)
    <3>1. <<context[p].id, context[p].pushed + 1>> \in Nat \X Nat
          BY <1>1
    <3> QED BY <3>1, AppendProperties DEF UplinkInv, AssemblerInv, words
  <2>3. CASE m + 1 # UpWords
    <3>1. /\ tx_assembler' = [tx_assembler EXCEPT !.words = words]
          /\ UNCHANGED <<upstream, real_tx_seen, far_end>>
          BY <1>2, <1>7, <2>1, <2>3 DEF PushData, Takes, words
    <3>2. /\ tx_assembler'.port = p /\ tx_assembler'.words = FirstWords(id, m + 1)
          /\ tx_assembler' \in [port : Ports \cup {NoPort}, id : Nat, kind : UpKinds,
                                words : Seq(Nat \X Nat)]
          BY <1>7, <2>1, <2>2, <3>1 DEF UplinkInv, AssemblerInv
    <3>3. context'[p].id = id /\ context'[p].pushed = m + 1
          BY <1>1, <1>4, <2>3 DEF UplinkInv, AssemblerInv
    <3>4. AssemblerInv'
          BY <1>4, <1>5, <3>2, <3>3 DEF AssemblerInv
    <3> QED BY <1>3, <3>1, <3>4 DEF UplinkInv, LineInv, MayBeSent
  <2>4. CASE m + 1 = UpWords
    <3> DEFINE f == [kind |-> tx_assembler.kind, words |-> words]
    <3>1. /\ tx_assembler' = NoPending /\ on_captured_tx(f)
          BY <1>2, <1>7, <2>1, <2>4 DEF PushData, Takes, words
    <3>2. MayBeSent(f, made.ids, TRUE)
      <4>1. f.kind \in UpKinds /\ f.words = FirstWords(id, UpWords)
            BY <2>1, <2>4 DEF UplinkInv, AssemblerInv
      <4>2. f \in UpFrames
            BY <1>1, <2>1, <2>4, <4>1 DEF UpFrames
      <4>3. id \in 1 .. made.ids
            BY <1>1 DEF UplinkInv
      <4> QED BY <4>1, <4>2, <4>3 DEF MayBeSent, UpKinds
    <3>3. f.kind # "burst"
          BY DEF UplinkInv, AssemblerInv, UpKinds
    <3> HIDE DEF f
    <3>4. LineInv(on_tx_frame(upstream, f, up_tick), made.ids, made.breaks, TRUE)
      <4>1. made.ids \in Nat /\ made.breaks \in Nat /\ up_tick \in Nat /\ real_tx_seen \in BOOLEAN
            BY DEF UplinkInv
      <4> QED BY <3>2, <3>3, <4>1, LineGrows DEF UplinkInv
    <3>5. upstream' = on_tx_frame(upstream, f, up_tick) /\ real_tx_seen' = TRUE /\ far_end'.granted = far_end.granted
          BY <3>1 DEF on_captured_tx
    <3>6. LineInv(upstream', made'.ids, made'.breaks, real_tx_seen')
          BY <1>3, <3>4, <3>5
    <3>7. AssemblerInv'
      <4>1. NoPending \in [port : Ports \cup {NoPort}, id : Nat, kind : UpKinds,
                           words : Seq(Nat \X Nat)]
            BY DEF NoPending, UpKinds
      <4>2. tx_assembler'.port \notin Ports
            BY <1>2, <3>1 DEF NoPending, NoPort
      <4> QED BY <1>4, <1>5, <3>1, <4>1, <4>2 DEF AssemblerInv
    <3> QED BY <1>3, <3>5, <3>6, <3>7 DEF UplinkInv
  <2> QED BY <2>3, <2>4
<1> QED BY <1>6, <1>7

(* A step that leaves the assembler, the template and the grants alone.    *)
LEMMA OnlyTheLine ==
    ASSUME UplinkInv, UNCHANGED <<context, tx_assembler, report_template>>,
           made' \in [ids : Nat, reports : Nat, triggers : Nat, breaks : Nat],
           made'.ids = made.ids, made'.reports <= grants_answered', up_tick' \in Nat,
           grants_answered' \in Nat, far_end'.granted = grants_answered',
           real_tx_seen' = real_tx_seen,
           LineInv(upstream', made.ids, made'.breaks, real_tx_seen)
    PROVE  UplinkInv'
<1>1. AssemblerInv'
      BY DEF UplinkInv, AssemblerInv
<1> QED BY <1>1 DEF UplinkInv

LEMMA BurstStep == ASSUME UplinkInv, BurstTrigger PROVE UplinkInv'
<1> DEFINE f == [kind |-> "burst", words |-> <<>>]
<1>1. /\ real_tx_seen = FALSE /\ upstream' = on_tx_frame(upstream, f, up_tick)
      /\ made' = [made EXCEPT !.triggers = made.triggers + 1]
      /\ UNCHANGED <<context, tx_assembler, report_template, real_tx_seen, grants_answered,
                     far_end, up_tick>>
      BY DEF BurstTrigger, UplinkInv
<1>2. /\ made' \in [ids : Nat, reports : Nat, triggers : Nat, breaks : Nat]
      /\ made'.ids = made.ids /\ made'.reports = made.reports /\ made'.breaks = made.breaks
      BY <1>1 DEF UplinkInv
<1>3. MayBeSent(f, made.ids, real_tx_seen)
      BY DEF MayBeSent, UpFrames, UpKinds, IsFirmwareFrame
<1> HIDE DEF f
<1>4. LineInv(on_tx_frame(upstream, f, up_tick), made.ids, made.breaks, real_tx_seen)
  <2>1. made.ids \in Nat /\ made.breaks \in Nat /\ up_tick \in Nat /\ real_tx_seen \in BOOLEAN
        BY DEF UplinkInv
  <2> QED BY <1>1, <1>3, <2>1, LineGrows DEF UplinkInv
<1> QED BY <1>1, <1>2, <1>4, OnlyTheLine DEF UplinkInv

LEMMA TickStep == ASSUME UplinkInv, uplink_tick PROVE UplinkInv'
<1>1. PICK landed \in 0 .. Len(upstream), n \in GrantsPerTick, known \in BOOLEAN :
        /\ far_end'.granted = far_end.granted + n
        /\ answer_grants(SubSeq(upstream, landed + 1, Len(upstream)), far_end.granted + n, known,
                         up_tick + 1)
  <2>1. PICK landed \in 0 .. Len(upstream), registered \in BOOLEAN, n \in GrantsPerTick :
          LET hears == \E i \in 1 .. landed : upstream[i].frame.kind \in {"request", "burst"}
          IN /\ far_end' = [known |-> far_end.known \/ hears, asked |-> far_end.asked \/ hears,
                            registered |-> registered, granted |-> far_end.granted + n]
             /\ answer_grants(SubSeq(upstream, landed + 1, Len(upstream)), far_end.granted + n,
                              far_end.known \/ hears, up_tick + 1)
        BY DEF uplink_tick
  <2>2. PICK known \in BOOLEAN :
          /\ far_end'.granted = far_end.granted + n
          /\ answer_grants(SubSeq(upstream, landed + 1, Len(upstream)), far_end.granted + n, known,
                         up_tick + 1)
    <3> DEFINE known == far_end.known \/ \E i \in 1 .. landed :
                                           upstream[i].frame.kind \in {"request", "burst"}
    <3>1. known \in BOOLEAN
          OBVIOUS
    <3>2. /\ far_end'.granted = far_end.granted + n
          /\ answer_grants(SubSeq(upstream, landed + 1, Len(upstream)), far_end.granted + n, known,
                         up_tick + 1)
          BY <2>1
    <3> HIDE DEF known
    <3> QED BY <3>1, <3>2
  <2> QED BY <2>2
<1>2. /\ up_tick' = up_tick + 1
      /\ UNCHANGED <<context, tx_assembler, report_template, real_tx_seen>>
      BY DEF uplink_tick
<1> DEFINE ahead == SubSeq(upstream, landed + 1, Len(upstream))
           reports == far_end.granted + n > grants_answered /\ is_armed /\ known
           f == [kind |-> "report", words |-> <<report_template.length>>]
<1>3. LineInv(ahead, made.ids, made.breaks, real_tx_seen)
      BY LineMoves DEF UplinkInv
<1>4. /\ grants_answered' = far_end.granted + n
      /\ upstream' = IF reports THEN on_tx_frame(ahead, f, up_tick + 1) ELSE ahead
      /\ made' = [made EXCEPT !.reports = made.reports + (IF reports THEN 1 ELSE 0)]
      BY <1>1 DEF answer_grants
<1>5. n \in Nat
      BY UplinkAssumption DEF UplinkAssumption
<1>6. /\ made' \in [ids : Nat, reports : Nat, triggers : Nat, breaks : Nat]
      /\ made'.ids = made.ids /\ made'.breaks = made.breaks
      /\ made'.reports = made.reports + (IF reports THEN 1 ELSE 0)
      BY <1>4 DEF UplinkInv
<1>7. LineInv(upstream', made.ids, made.breaks, real_tx_seen)
  <2>1. CASE reports
    <3>1. MayBeSent(f, made.ids, real_tx_seen)
      <4>1. f \in UpFrames
            BY DEF UpFrames, UplinkInv
      <4>2. f.kind = "report" /\ f.words[1] = report_template.length
            OBVIOUS
      <4>3. report_template.length >= MinMpcpdu
            BY <2>1 DEF is_armed
      <4> HIDE DEF f
      <4> QED BY <4>1, <4>2, <4>3 DEF MayBeSent, IsFirmwareFrame
    <3>2. f.kind # "burst"
          OBVIOUS
    <3>3. made.ids \in Nat /\ made.breaks \in Nat /\ up_tick + 1 \in Nat /\ real_tx_seen \in BOOLEAN
          BY DEF UplinkInv
    <3> HIDE DEF ahead, f
    <3>4. PICK now \in Nat : now = up_tick + 1
          BY <3>3
    <3>5. LineInv(on_tx_frame(ahead, f, now), made.ids, made.breaks, real_tx_seen)
          BY <1>3, <3>1, <3>2, <3>3, LineGrows
    <3> QED BY <1>4, <2>1, <3>4, <3>5
  <2>2. CASE ~reports
        BY <1>3, <1>4, <2>2
  <2> QED BY <2>1, <2>2
<1>8. made'.reports <= grants_answered' /\ grants_answered' \in Nat
  <2>1. reports => far_end.granted + n > grants_answered
        OBVIOUS
  <2>2. /\ grants_answered' = far_end.granted + n
        /\ made'.reports = made.reports + (IF reports THEN 1 ELSE 0)
        BY <1>4, <1>6
  <2> HIDE DEF reports
  <2> QED BY <1>5, <2>1, <2>2 DEF UplinkInv
<1>9. up_tick' \in Nat
      BY <1>2 DEF UplinkInv
<1> QED BY <1>1, <1>2, <1>4, <1>6, <1>7, <1>8, <1>9, OnlyTheLine

LEMMA SetLineStep == ASSUME UplinkInv, NEW up \in BOOLEAN, set_line(up) PROVE UplinkInv'
<1>1. /\ far_end'.granted = far_end.granted
      /\ UNCHANGED <<context, tx_assembler, report_template, real_tx_seen, grants_answered, up_tick>>
      BY DEF set_line
<1>2. CASE up
  <2>1. UNCHANGED <<upstream, made>>
        BY <1>2 DEF set_line
  <2> QED BY <1>1, <2>1, OnlyTheLine DEF UplinkInv
<1>3. CASE ~up
  <2>1. upstream' = <<>> /\ made' = [made EXCEPT !.breaks = made.breaks + 1]
        BY <1>3 DEF set_line
  <2>2. /\ made' \in [ids : Nat, reports : Nat, triggers : Nat, breaks : Nat]
        /\ made'.ids = made.ids /\ made'.reports = made.reports
        BY <2>1 DEF UplinkInv
  <2>3. LineInv(upstream', made.ids, made'.breaks, real_tx_seen)
        BY <2>1, EmptyLine
  <2> QED BY <1>1, <2>2, <2>3, OnlyTheLine DEF UplinkInv
<1> QED BY <1>2, <1>3

(* At power-on and after a reset nothing is announced and nothing sent.    *)
LEMMA NothingSubmitted ==
    /\ UpWords \in Nat \ {0}
    /\ AtRest \in [id : Nat, kind : UpKinds, pushed : Nat] /\ AtRest.id = 0 /\ AtRest.pushed = 0
    /\ NoPending \in [port : Ports \cup {NoPort}, id : Nat, kind : UpKinds,
                       words : Seq(Nat \X Nat)]
    /\ NoPending.port \notin Ports
BY UplinkAssumption DEF UplinkAssumption, AtRest, NoPending, NoPort, UpKinds

LEMMA UplinkStart == uplink_Init => UplinkInv
<1> SUFFICES ASSUME uplink_Init PROVE UplinkInv
    OBVIOUS
<1>1. /\ made \in [ids : Nat, reports : Nat, triggers : Nat, breaks : Nat]
      /\ made.ids = 0 /\ made.reports = 0
      BY DEF uplink_Init
<1>2. AssemblerInv
  <2>1. context = [p \in Ports |-> AtRest] /\ tx_assembler = NoPending
        BY DEF uplink_Init
  <2> QED BY <1>1, <2>1, NothingSubmitted DEF AssemblerInv
<1>3. LineInv(upstream, made.ids, made.breaks, real_tx_seen)
      BY EmptyLine DEF uplink_Init
<1>4. /\ far_end.granted = 0 /\ report_template.length = 0
      /\ grants_answered = 0 /\ up_tick = 0 /\ real_tx_seen \in BOOLEAN
      BY DEF uplink_Init, NewPeer
<1> QED BY <1>1, <1>2, <1>3, <1>4 DEF UplinkInv

LEMMA UplinkResetStep == ASSUME UplinkInv, uplink_reset PROVE UplinkInv'
<1>1. /\ made' \in [ids : Nat, reports : Nat, triggers : Nat, breaks : Nat]
      /\ made'.ids = made.ids /\ made'.reports = 0
  <2>1. PICK b \in Nat : b = made.breaks + 1
        BY DEF UplinkInv
  <2>2. made' = [made EXCEPT !.breaks = b, !.reports = 0]
        BY <2>1 DEF uplink_reset
  <2> QED BY <2>2 DEF UplinkInv
<1>2. AssemblerInv'
  <2>1. context' = [p \in Ports |-> AtRest] /\ tx_assembler' = NoPending
        BY DEF uplink_reset
  <2>2. made.ids \in Nat
        BY DEF UplinkInv
  <2> QED BY <1>1, <2>1, <2>2, NothingSubmitted DEF AssemblerInv
<1>3. LineInv(upstream', made'.ids, made'.breaks, real_tx_seen')
      BY EmptyLine DEF uplink_reset
<1>4. /\ far_end'.granted = 0 /\ report_template'.length = 0
      /\ grants_answered' = 0 /\ up_tick' = up_tick /\ real_tx_seen' \in BOOLEAN
      BY DEF uplink_reset, NewPeer
<1> QED BY <1>1, <1>2, <1>3, <1>4 DEF UplinkInv

LEMMA UplinkStep == ASSUME UplinkInv, uplink_Next PROVE UplinkInv'
<1>1. ASSUME NEW n \in TemplateLengths, WriteTemplate(n) PROVE UplinkInv'
  <2>1. n \in Nat /\ report_template'.length = n
        BY <1>1, UplinkAssumption DEF UplinkAssumption, WriteTemplate
  <2>2. UNCHANGED <<context, tx_assembler, real_tx_seen, grants_answered, upstream, far_end,
                    up_tick, made>>
        BY <1>1 DEF WriteTemplate
  <2> QED BY <2>1, <2>2 DEF UplinkInv, AssemblerInv, LineInv, MayBeSent
<1> QED BY <1>1, AnnounceStep, PushStep, BurstStep, TickStep, SetLineStep, UplinkResetStep
        DEF uplink_Next, UpKinds

LEMMA UplinkRead == UplinkInv => UplinkIsWhole
<1> SUFFICES ASSUME UplinkInv PROVE UplinkIsWhole
    OBVIOUS
<1>1. DOMAIN upstream = 1 .. Len(upstream)
      BY DEF UplinkInv, LineInv
<1> QED BY <1>1 DEF UplinkInv, LineInv, MayBeSent, UplinkIsWhole, FirstWords

-----------------------------------------------------------------------------
(* The invariants of the streams, each in a device of its own.             *)

StreamsInv == ConsoleInv /\ TransferInv /\ MailInv /\ UplinkInv

(* What is between the host, the firmware, the EEPROM, the mailbox and the *)
(* far end keeps its order and its number, as every step of every device   *)
(* is taken.                                                               *)
THEOREM StreamsInvariance == Spec => []StreamsInv
<1>1. ASSUME Init PROVE StreamsInv
  <2>1. ConsoleInv
    <3>1. /\ typed = <<>> /\ taken = <<>> /\ rx_queue = <<>> /\ rx_channel = <<>>
          /\ printed = <<>> /\ tx_log = <<>>
          BY <1>1 DEF Init, uart_Init
    <3>2. <<>> \in Seq(UartBytes) /\ Len(<<>>) = 0
          BY EmptySeq
    <3>3. (<<>> \o <<>>) \o <<>> = <<>>
          BY <3>2, ConcatEmptySeq
    <3>4. <<>> = SubSeq(<<>>, 1, 0)
          BY SubSeqEmpty
    <3> QED BY <3>1, <3>2, <3>3, <3>4, UartAssumption DEF UartAssumption, ConsoleInv
  <2>2. TransferInv
    <3>1. /\ got = <<>> /\ eeprom_ptr = 0 /\ sub_addr = 0 /\ pending_sub_addr = 0
          /\ a0 = 0 /\ a2 = 0 /\ ddm = 0 /\ protocol = "Idle"
          BY <1>1 DEF Init, bsc_Init
    <3>2. <<>> \in Seq(Fetched) /\ Len(<<>>) = 0
          BY EmptySeq
    <3> QED BY <3>1, <3>2 DEF TransferInv
  <2>3. MailInv
        BY <1>1 DEF Init, codec_Init, MailInv, Idle
  <2>4. UplinkInv
        BY <1>1, UplinkStart DEF Init
  <2> QED BY <2>1, <2>2, <2>3, <2>4 DEF StreamsInv
<1>2. StreamsInv /\ [Next]_soc_vars => StreamsInv'
  <2> SUFFICES ASSUME StreamsInv, [Next]_soc_vars PROVE StreamsInv'
      OBVIOUS
  <2>1. ConsoleInv'
    <3>1. CASE UNCHANGED uart_vars
          BY <3>1 DEF StreamsInv, ConsoleInv, uart_vars
    <3> QED BY <3>1, ConsoleStep, StepOfOne DEF StreamsInv
  <2>2. TransferInv'
    <3>1. CASE UNCHANGED bsc_vars
          BY <3>1 DEF StreamsInv, TransferInv, bsc_vars
    <3> QED BY <3>1, TransferStep, StepOfOne DEF StreamsInv
  <2>3. MailInv'
    <3>1. CASE UNCHANGED codec_vars
          BY <3>1 DEF StreamsInv, MailInv, codec_vars
    <3> QED BY <3>1, MailStep, StepOfOne DEF StreamsInv
  <2>4. UplinkInv'
    <3>1. CASE UNCHANGED uplink_vars
      <4>1. AssemblerInv'
            BY <3>1 DEF StreamsInv, UplinkInv, AssemblerInv, uplink_vars
      <4>2. LineInv(upstream', made'.ids, made'.breaks, real_tx_seen')
            BY <3>1 DEF StreamsInv, UplinkInv, uplink_vars
      <4> QED BY <3>1, <4>1, <4>2 DEF StreamsInv, UplinkInv, uplink_vars
    <3> QED BY <3>1, UplinkStep, StepOfOne DEF StreamsInv
  <2> QED BY <2>1, <2>2, <2>3, <2>4 DEF StreamsInv
<1> QED BY <1>1, <1>2, PTL DEF Spec

(* Whatever is typed, fetched, submitted and sent, by however many         *)
(* contexts, and whatever the sizes of the log, of a page, of a submission *)
(* and of the line: bytes keep their order and their number.               *)
THEOREM BytesKeepTheirPlace == Spec => []StreamsAreWhole
<1>1. ConsoleInv => ConsoleKeepsOrder
  <2> SUFFICES ASSUME ConsoleInv PROVE ConsoleKeepsOrder
      OBVIOUS
  <2>1. (taken \o rx_queue) \o rx_channel = taken \o (rx_queue \o rx_channel)
    <3>1. /\ taken \in Seq(UartBytes) /\ rx_queue \in Seq(UartBytes)
          /\ rx_channel \in Seq(UartBytes)
          BY DEF ConsoleInv
    <3>2. \A x, y, z \in Seq(UartBytes) : (x \o y) \o z = x \o (y \o z)
          BY ConcatAssociative
    <3> QED BY <3>1, <3>2, Zenon
  <2> QED BY <2>1 DEF ConsoleInv, ConsoleKeepsOrder
<1>2. StreamsInv => StreamsAreWhole
      BY <1>1, TransferRead, MailRead, UplinkRead DEF StreamsInv, StreamsAreWhole
<1> QED BY <1>2, StreamsInvariance, PTL
=============================================================================
