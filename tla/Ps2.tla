---------------------------------- MODULE Ps2 ----------------------------------
(***************************************************************************)
(* How bytes of the keyboard and of the mouse reach their handlers         *)
(* (mouse.c, the port read in keyboard.c, the interrupt controllers as     *)
(* interrupts.c drives them).  Both devices share one output buffer of the *)
(* 8042 controller, of one byte; the driver is told which of them filled   *)
(* it by the interrupt line, which the PIC latches, and by a status bit,   *)
(* at which only the mouse's handler looks.                                *)
(*                                                                         *)
(* mouse_initialize polls the controller with interrupts off; a byte it    *)
(* takes leaves its latched interrupt behind.  A handler runs with         *)
(* interrupts off, but the devices do not wait for it: entry and reading   *)
(* are two steps.  From the moment the buffer is full it cannot change     *)
(* until it is read, so a handler's status read and data read are one.     *)
(*                                                                         *)
(* A byte is known by its kind, by whether it has the bit (0x08) that the  *)
(* first byte of a packet always has, and by the packet it is of.          *)
(***************************************************************************)
EXTENDS Naturals, Sequences

CONSTANTS KeysMax,   \* bound: key bytes waiting in the keyboard
          AuxMax     \* the mouse's own queue; a packet without room is not sent

ASSUME Ps2Assumption == KeysMax \in Nat /\ AuxMax \in Nat /\ AuxMax >= 2

VARIABLES
  present,   \* whether a mouse is plugged in
  keys,      \* key bytes waiting in the keyboard
  aux,       \* bytes waiting in the mouse
  reply,     \* whether the controller's command byte is waiting to be read
  out, full, \* the output buffer's byte, which stays when it was read; status bit 0x01
  enabled,   \* lines that the controller's command byte lets interrupt
  off,       \* devices that the command byte has switched off
  latched,   \* interrupt requests the PICs have latched
  serving,   \* interrupts that were not yet ended with an EOI
  pc,        \* where the processor is, see Locations
  garbled,   \* what was read as the command byte was something else
  packet,    \* g_packet[0 .. g_packet_index - 1]
  tag,       \* history: number of the next packet, modulo 2
  plain,     \* history: bytes of the current packet the mouse's handler has read
             \* in a row, those after the first without the marker bit; 3 after the last
  start,     \* history: "booting"; "clean" if no key and no packet came until the
             \* interrupts left over from booting were handled, or else "disturbed"
  misread    \* history: a key was lost, or the keyboard's handler read a packet's byte

deviceVars == <<present, keys, aux, reply, tag>>
linkVars   == <<enabled, off, garbled>>
bufferVars == <<out, full>>
picVars    == <<latched, serving>>
driverVars == <<packet, plain, misread>>
vars == <<deviceVars, linkVars, bufferVars, picVars, driverVars, pc, start>>

Lines == {"kbd", "aux"}
Polls == {"readConfig", "ackDefaults", "ackEnable"}
Booting == {"enableAux", "askConfig", "writeConfig", "setDefaults", "enableReporting"} \cup Polls
Locations == Booting \cup {"run"} \cup Lines

PacketKinds == <<"first", "second", "third">>
Bytes == [kind : {"key", "reply", "ack", "first", "second", "third"},
          mark : BOOLEAN, tag : 0 .. 1]
Key   == [kind |-> "key", mark |-> FALSE, tag |-> 0]
Reply == [kind |-> "reply", mark |-> FALSE, tag |-> 0]
Ack   == [kind |-> "ack", mark |-> TRUE, tag |-> 0]
Packet(second, third) ==
  << [kind |-> "first", mark |-> TRUE, tag |-> tag],
     [kind |-> "second", mark |-> second, tag |-> tag],
     [kind |-> "third", mark |-> third, tag |-> tag] >>

FromMouse(byte) == byte.kind \notin {"key", "reply"}
OfPacket(byte) == byte.kind \in {"first", "second", "third"}
LineOf(byte) == IF FromMouse(byte) THEN "aux" ELSE "kbd"

(* The firmware may or may not have used either device. *)
Init ==
  /\ present \in BOOLEAN /\ keys = 0 /\ aux = << >> /\ reply = FALSE
  /\ out = Key /\ full = FALSE
  /\ enabled \in SUBSET Lines /\ off \in {{}, {"aux"}}
  /\ latched = {} /\ serving = {}
  /\ pc = "enableAux" /\ garbled = FALSE
  /\ packet = << >> /\ plain = 0 /\ tag = 0
  /\ start = "booting" /\ misread = FALSE
-----------------------------------------------------------------------------
(* The devices and the controller. *)

KeyPress ==
  /\ keys < KeysMax /\ keys' = keys + 1
  /\ UNCHANGED <<present, aux, reply, tag, linkVars, bufferVars, picVars, driverVars, pc>>

(* The mouse was told to report (F4) in the step that leads to "ackEnable". *)
Reporting == present /\ pc \in {"ackEnable", "run"} \cup Lines

MouseMove ==
  /\ Reporting /\ Len(aux) + 3 <= AuxMax
  /\ \E second, third \in BOOLEAN : aux' = aux \o Packet(second, third)
  /\ tag' = 1 - tag
  /\ UNCHANGED <<present, keys, reply, linkVars, bufferVars, picVars, driverVars, pc>>

(* A byte goes to the empty output buffer and raises its line. *)
Deliver(byte) ==
  /\ ~ full /\ full' = TRUE /\ out' = byte
  /\ latched' = latched \cup (enabled \cap {LineOf(byte)})
  /\ UNCHANGED <<serving, linkVars, driverVars, pc>>

DeliverReply ==
  /\ reply /\ reply' = FALSE
  /\ Deliver(Reply)
  /\ UNCHANGED <<present, keys, aux, tag>>

DeliverKey ==
  /\ ~ reply /\ keys > 0 /\ "kbd" \notin off
  /\ keys' = keys - 1
  /\ Deliver(Key)
  /\ UNCHANGED <<present, aux, reply, tag>>

DeliverAux ==
  /\ ~ reply /\ aux # << >> /\ "aux" \notin off
  /\ aux' = Tail(aux)
  /\ Deliver(Head(aux))
  /\ UNCHANGED <<present, keys, reply, tag>>
-----------------------------------------------------------------------------
(* mouse_initialize.  Each of its writes waits for the controller to be ready
   to take it, which it always is in the end. *)

Goto(from, to) == pc = from /\ pc' = to

EnableAux ==
  /\ Goto("enableAux", "askConfig")
  /\ off' = off \ {"aux"}
  /\ UNCHANGED <<deviceVars, enabled, garbled, bufferVars, picVars, driverVars>>

AskConfig ==
  /\ Goto("askConfig", "readConfig")
  /\ reply' = TRUE
  /\ UNCHANGED <<present, keys, aux, tag, linkVars, bufferVars, picVars, driverVars>>

(* The loop of ps2_wait_output_full gives up when nothing is coming. *)
NothingComes ==
  /\ ~ full /\ ~ reply
  /\ keys = 0 \/ "kbd" \in off
  /\ aux = << >> \/ "aux" \in off

(* ps2_read_data: whatever is in the buffer, or was there last.  A key that is
   taken for an answer is lost, and so is the packet a byte of it was of.  The
   poll's 200000 reads of the status port are taken to outlast a byte that is on
   its way: it gives up when nothing comes. *)
Poll ==
  /\ full \/ NothingComes
  /\ full' = FALSE
  /\ misread' = (misread \/ (full /\ out.kind = "key"))
  /\ plain' = IF full /\ OfPacket(out) THEN 0 ELSE plain
  /\ UNCHANGED <<out, packet, deviceVars, enabled, off, picVars>>

ReadConfig ==
  /\ Goto("readConfig", "writeConfig") /\ Poll
  /\ garbled' = (out.kind # "reply")

(* The command byte with both interrupts on.  A byte that waits already may
   or may not raise its line now.  Written from something else than what the
   controller said, it may switch devices off. *)
WriteConfig ==
  /\ Goto("writeConfig", "setDefaults")
  /\ enabled' = Lines
  /\ IF garbled THEN off' \in SUBSET Lines ELSE UNCHANGED off
  /\ \/ UNCHANGED latched
     \/ full /\ latched' = latched \cup {LineOf(out)}
  /\ UNCHANGED <<deviceVars, garbled, bufferVars, serving, driverVars>>

(* mouse_write: a mouse that is there answers each command. *)
MouseWrite(from, to) ==
  /\ Goto(from, to)
  /\ aux' = IF present THEN Append(aux, Ack) ELSE aux
  /\ UNCHANGED <<present, keys, reply, tag, linkVars, bufferVars, picVars, driverVars>>

SetDefaults == MouseWrite("setDefaults", "ackDefaults")
EnableReporting == MouseWrite("enableReporting", "ackEnable")

(* mouse_expect_ack, whose answer is not looked at; after the second, sti. *)
ExpectAck ==
  /\ Goto("ackDefaults", "enableReporting") \/ Goto("ackEnable", "run")
  /\ Poll
  /\ UNCHANGED garbled

Initialize ==
  EnableAux \/ AskConfig \/ ReadConfig \/ WriteConfig \/ SetDefaults \/ EnableReporting \/ ExpectAck
-----------------------------------------------------------------------------
(* The interrupts.  The keyboard's goes first. *)

Dispatch(line) ==
  /\ Goto("run", line)
  /\ line \in latched /\ serving \cap {"kbd", line} = {}
  /\ line = "aux" => "kbd" \notin latched
  /\ latched' = latched \ {line} /\ serving' = serving \cup {line}
  /\ UNCHANGED <<deviceVars, linkVars, bufferVars, driverVars>>

(* Mutant of Ended: the second PIC is never told. *)
EndedAtMaster(line) == IF line = "aux" THEN serving ELSE serving \ {line}

(* pic_send_eoi *)
Ended(line) == serving \ {line}

Return(line) ==
  /\ Goto(line, "run")
  /\ serving' = Ended(line)
  /\ UNCHANGED <<deviceVars, linkVars, latched>>

(* Mutant of KeyboardIrq: no break before the case of the mouse. *)
KeyboardIrqFallsThrough ==
  /\ Goto("kbd", "aux")
  /\ serving' = {"aux"} /\ full' = FALSE
  /\ UNCHANGED <<deviceVars, linkVars, latched, out, packet, plain, misread>>

(* keyboard_handle_irq reads the port without a look at the status. *)
KeyboardIrq ==
  /\ Return("kbd")
  /\ full' = FALSE
  /\ misread' = (misread \/ OfPacket(out) \/ (~ full /\ out.kind = "key" /\ start # "booting"))
  /\ plain' = IF full /\ OfPacket(out) THEN 0 ELSE plain
  /\ UNCHANGED <<out, packet>>

(* Mutant of Assembled: any byte may come first. *)
AssembledUnmarked(byte) == IF Len(packet) = 2 THEN << >> ELSE Append(packet, byte)

(* Mutant of Assembled: the index is not set back after the third byte. *)
AssembledNoReset(byte) ==
  IF packet = << >> /\ ~ byte.mark THEN << >> ELSE Append(packet, byte)

(* What is in g_packet after one more byte: a byte that comes first must have
   the marker, and the third makes an event and begins anew. *)
Assembled(byte) ==
  IF packet = << >> /\ ~ byte.mark THEN << >>
  ELSE IF Len(packet) = 2 THEN << >> ELSE Append(packet, byte)

(* How far the bytes read in a row are those of one packet. *)
Plain(byte) ==
  CASE byte.kind = "first" -> 1
    [] byte.kind = "second" /\ ~ byte.mark /\ plain = 1 -> 2
    [] byte.kind = "third" /\ ~ byte.mark /\ plain = 2 -> 3
    [] OTHER -> 0

(* Mutant of MouseIrq: every byte is taken for the mouse's. *)
MouseIrqBlind ==
  /\ Return("aux")
  /\ full' = FALSE
  /\ packet' = Assembled(out) /\ plain' = Plain(out)
  /\ UNCHANGED <<out, misread>>

(* mouse_handle_irq: nothing there; a key, which is dropped; or a byte. *)
MouseIrq ==
  /\ Return("aux")
  /\ \/ ~ full /\ UNCHANGED <<full, packet, plain, misread>>
     \/ /\ full /\ full' = FALSE
        /\ ~ FromMouse(out) /\ misread' = TRUE /\ UNCHANGED <<packet, plain>>
     \/ /\ full /\ full' = FALSE
        /\ FromMouse(out) /\ packet' = Assembled(out) /\ plain' = Plain(out)
        /\ UNCHANGED misread
  /\ UNCHANGED out

(* History: whether the machine was touched while it booted. *)
Disturb == start' = IF start = "booting" THEN "disturbed" ELSE start
Settle ==
  start' = IF start = "booting" /\ pc' = "run" /\ latched' = {} THEN "clean" ELSE start

Input == KeyPress \/ MouseMove
Controller == DeliverReply \/ DeliverKey \/ DeliverAux
Handle == KeyboardIrq \/ MouseIrq \/ \E line \in Lines : Dispatch(line)

Next == (Input /\ Disturb) \/ ((Controller \/ Initialize \/ Handle) /\ Settle)
Spec == Init /\ [][Next]_vars

(* The controller passes bytes on, and the processor runs the initialisation
   and takes interrupts, again and again if it has them disabled in between.
   Nothing is assumed of the user. *)
FairSpec ==
  Spec /\ WF_vars(Controller /\ Settle) /\ WF_vars(Initialize /\ Settle)
       /\ WF_vars(Handle /\ Settle)
-----------------------------------------------------------------------------
(* Every variable holds a value of its type. *)
TypeOK ==
  /\ present \in BOOLEAN /\ keys \in 0 .. KeysMax /\ reply \in BOOLEAN
  /\ aux \in Seq(Bytes) /\ Len(aux) <= AuxMax
  /\ out \in Bytes /\ full \in BOOLEAN
  /\ enabled \subseteq Lines /\ off \subseteq Lines
  /\ latched \subseteq Lines /\ serving \subseteq Lines
  /\ pc \in Locations /\ garbled \in BOOLEAN
  /\ packet \in Seq(Bytes) /\ Len(packet) <= 2
  /\ tag \in 0 .. 1 /\ plain \in 0 .. 3 /\ misread \in BOOLEAN
  /\ start \in {"booting", "clean", "disturbed"}

IsPacket(bytes) ==
  \A i \in 1 .. 3 : bytes[i].kind = PacketKinds[i] /\ bytes[i].tag = bytes[1].tag

(* On a machine nobody touches while it boots, every mouse event is made of
   the three bytes of one packet, although an interrupt that was left over
   from polling comes first and the devices go on during the handlers. *)
EventsArePackets ==
  [][start = "clean" /\ Len(packet) = 2 /\ packet' = << >> => IsPacket(Append(packet, out))]_vars

(* On such a machine every key is read once, by the keyboard's handler, which
   never takes a byte of the mouse for one. *)
KeysArriveOnce == start = "clean" => ~ misread

(* However the bytes were shifted, after a whole packet whose movement bytes
   have no marker bit the next byte will be taken for a first one again. *)
PlainPacketResyncs == plain = 3 => packet = << >>

(* Whatever was pressed and moved while booting, a byte in the output buffer
   is read in the end.  If one stayed there no line would be raised any more,
   and keyboard and mouse would both be dead. *)
BufferIsRead == full ~> ~ full
==============================================================================
