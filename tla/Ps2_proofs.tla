------------------------------ MODULE Ps2_proofs ------------------------------
(***************************************************************************)
(* The keyboard and the mouse behind one output buffer, for queues of any  *)
(* length and any number of keys and packets.  On a machine that nobody    *)
(* touches while it boots, everything the initialisation leaves behind is  *)
(* an interrupt without a byte (Booted); from then on every full buffer    *)
(* has its interrupt latched or being handled and the bytes of the mouse,  *)
(* those in g_packet first, then the one in the buffer, then those still   *)
(* in the mouse, are a sequence of whole packets (Clean).                  *)
(***************************************************************************)
EXTENDS Ps2, Integers, SequenceTheorems, TLAPS

(* What waits in the mouse before it reports: its answers. *)
AuxSmall ==
  /\ pc \in {"enableAux", "askConfig", "readConfig", "writeConfig", "setDefaults"} => aux = << >>
  /\ pc \in {"ackDefaults", "enableReporting"} => Len(aux) <= 1

(* The bytes of g_packet, as far as the bytes read in a row were plain. *)
PlainFits ==
  /\ plain = 2 => Len(packet) \in {0, 2}
  /\ plain = 3 => packet = << >>

TypeInv == TypeOK /\ AuxSmall

(* The two sequences of bytes. *)
QueuesOK ==
  /\ aux \in Seq(Bytes) /\ Len(aux) <= AuxMax
  /\ packet \in Seq(Bytes) /\ Len(packet) <= 2
  /\ AuxSmall

NumbersOK == keys \in 0 .. KeysMax /\ tag \in 0 .. 1 /\ plain \in 0 .. 3

FlagsOK ==
  /\ present \in BOOLEAN /\ reply \in BOOLEAN /\ full \in BOOLEAN
  /\ garbled \in BOOLEAN /\ misread \in BOOLEAN

PlacesOK ==
  /\ out \in Bytes /\ pc \in Locations
  /\ enabled \subseteq Lines /\ off \subseteq Lines
  /\ latched \subseteq Lines /\ serving \subseteq Lines
  /\ start \in {"booting", "clean", "disturbed"}

RestOK == NumbersOK /\ FlagsOK /\ PlacesOK

LEMMA TypeParts == TypeInv <=> QueuesOK /\ RestOK
BY Zenon DEF TypeInv, TypeOK, QueuesOK, RestOK, NumbersOK, FlagsOK, PlacesOK
-----------------------------------------------------------------------------
LEMMA ByteTypes ==
  /\ Key \in Bytes /\ Reply \in Bytes /\ Ack \in Bytes
  /\ ~ FromMouse(Key) /\ ~ FromMouse(Reply) /\ FromMouse(Ack)
  /\ ~ OfPacket(Key) /\ ~ OfPacket(Reply) /\ ~ OfPacket(Ack)
  /\ Key.kind = "key" /\ Reply.kind = "reply" /\ Ack.kind = "ack"
  /\ \A byte : LineOf(byte) \in Lines
BY DEF Key, Reply, Ack, Bytes, FromMouse, OfPacket, LineOf, Lines

LEMMA PacketType ==
  ASSUME tag \in 0 .. 1, NEW second \in BOOLEAN, NEW third \in BOOLEAN
  PROVE  /\ Packet(second, third) \in Seq(Bytes) /\ Len(Packet(second, third)) = 3
         /\ \A k \in 1 .. 3 : Packet(second, third)[k].kind = PacketKinds[k]
         /\ \A k \in 1 .. 3 : Packet(second, third)[k].tag = tag
         /\ Packet(second, third)[1].mark = TRUE
<1> DEFINE b1 == [kind |-> "first", mark |-> TRUE, tag |-> tag]
           b2 == [kind |-> "second", mark |-> second, tag |-> tag]
           b3 == [kind |-> "third", mark |-> third, tag |-> tag]
<1>1. b1 \in Bytes /\ b2 \in Bytes /\ b3 \in Bytes
  BY DEF Bytes
<1>2. b1.kind = "first" /\ b2.kind = "second" /\ b3.kind = "third" /\ b1.mark = TRUE
      /\ b1.tag = tag /\ b2.tag = tag /\ b3.tag = tag
  OBVIOUS
<1>3. Packet(second, third) = <<b1, b2, b3>>
  BY DEF Packet
<1> HIDE DEF b1, b2, b3
<1> QED BY <1>1, <1>2, <1>3 DEF PacketKinds

LEMMA AssembledType ==
  ASSUME packet \in Seq(Bytes), Len(packet) <= 2, NEW byte \in Bytes
  PROVE  Assembled(byte) \in Seq(Bytes) /\ Len(Assembled(byte)) <= 2
<1> DEFINE n == Len(packet)
<1>1. n \in Nat /\ n <= 2 /\ (packet = << >> => n = 0)
  OBVIOUS
<1>2. /\ Append(packet, byte) \in Seq(Bytes) /\ Len(Append(packet, byte)) = n + 1
      /\ << >> \in Seq(Bytes) /\ Len(<< >>) = 0
  BY AppendProperties, EmptySeq
<1>3. Assembled(byte) = << >> \/ (Assembled(byte) = Append(packet, byte) /\ n # 2)
  BY DEF Assembled
<1> DEFINE length == Len(Assembled(byte))
<1>4. Assembled(byte) \in Seq(Bytes) /\ (length = 0 \/ (length = n + 1 /\ n # 2))
  BY <1>2, <1>3, Zenon
<1> HIDE DEF n, length
<1>5. length <= 2
  BY <1>1, <1>4
<1> QED BY <1>4, <1>5 DEF length

LEMMA InitType == Init => QueuesOK /\ RestOK
<1> SUFFICES ASSUME Init PROVE QueuesOK /\ RestOK
  OBVIOUS
<1>1. pc \in Locations /\ KeysMax \in Nat /\ AuxMax \in Nat
  BY Ps2Assumption DEF Init, Locations, Booting
<1>2. enabled \subseteq Lines /\ off \subseteq Lines /\ latched \subseteq Lines /\ serving \subseteq Lines
  BY DEF Init, Lines
<1>3. RestOK
  <2>1. NumbersOK
    BY <1>1 DEF Init, NumbersOK
  <2>2. FlagsOK
    BY Zenon DEF Init, FlagsOK
  <2>3. PlacesOK
    BY <1>1, <1>2, ByteTypes DEF Init, PlacesOK
  <2> QED BY <2>1, <2>2, <2>3 DEF RestOK
<1>4. aux = << >> /\ packet = << >> /\ << >> \in Seq(Bytes) /\ Len(<< >>) = 0
  BY EmptySeq DEF Init
<1>5. AuxSmall
  BY <1>4 DEF AuxSmall
<1> QED BY <1>1, <1>3, <1>4, <1>5 DEF QueuesOK

LEMMA NextNumbers ==
  ASSUME NumbersOK, [Next]_vars
  PROVE  NumbersOK'
<1> USE DEF deviceVars, linkVars, bufferVars, picVars, driverVars
<1>1. KeysMax \in Nat /\ keys \in Nat /\ keys <= KeysMax /\ tag \in 0 .. 1 /\ plain \in 0 .. 3
  BY Ps2Assumption DEF NumbersOK
<1>2. keys' = keys \/ (keys < KeysMax /\ keys' = keys + 1) \/ (keys > 0 /\ keys' = keys - 1)
  BY DEF Next, Input, KeyPress, MouseMove, Controller, DeliverReply, DeliverKey, DeliverAux,
         Initialize, EnableAux, AskConfig, ReadConfig, WriteConfig, SetDefaults, EnableReporting,
         MouseWrite, ExpectAck, Poll, Handle, KeyboardIrq, MouseIrq, Return, Dispatch, vars
<1>3. tag' = tag \/ tag' = 1 - tag
  BY DEF Next, Input, KeyPress, MouseMove, Controller, DeliverReply, DeliverKey, DeliverAux,
         Initialize, EnableAux, AskConfig, ReadConfig, WriteConfig, SetDefaults, EnableReporting,
         MouseWrite, ExpectAck, Poll, Handle, KeyboardIrq, MouseIrq, Return, Dispatch, vars
<1>4. plain' = plain \/ plain' = 0 \/ plain' = Plain(out)
  BY DEF Next, Input, KeyPress, MouseMove, Controller, DeliverReply, DeliverKey, DeliverAux, Deliver,
         Initialize, EnableAux, AskConfig, ReadConfig, WriteConfig, SetDefaults, EnableReporting,
         MouseWrite, ExpectAck, Poll, Handle, KeyboardIrq, MouseIrq, Return, Dispatch, vars
<1>5. Plain(out) \in 0 .. 3
  BY DEF Plain
<1>6. plain' \in 0 .. 3
  BY <1>1, <1>4, <1>5
<1> QED BY <1>1, <1>2, <1>3, <1>6 DEF NumbersOK

LEMMA NextFlags ==
  ASSUME FlagsOK, [Next]_vars
  PROVE  FlagsOK'
<1> USE DEF deviceVars, linkVars, bufferVars, picVars, driverVars
<1>1. present' = present
  BY DEF Next, Input, KeyPress, MouseMove, Controller, DeliverReply, DeliverKey, DeliverAux,
         Initialize, EnableAux, AskConfig, ReadConfig, WriteConfig, SetDefaults, EnableReporting,
         MouseWrite, ExpectAck, Poll, Handle, KeyboardIrq, MouseIrq, Return, Dispatch, vars
<1>2. reply' = reply \/ reply' = FALSE \/ reply' = TRUE
  BY DEF Next, Input, KeyPress, MouseMove, Controller, DeliverReply, DeliverKey, DeliverAux,
         Initialize, EnableAux, AskConfig, ReadConfig, WriteConfig, SetDefaults, EnableReporting,
         MouseWrite, ExpectAck, Poll, Handle, KeyboardIrq, MouseIrq, Return, Dispatch, vars
<1>3. full' = full \/ full' = FALSE \/ full' = TRUE
  BY DEF Next, Input, KeyPress, MouseMove, Controller, DeliverReply, DeliverKey, DeliverAux, Deliver,
         Initialize, EnableAux, AskConfig, ReadConfig, WriteConfig, SetDefaults, EnableReporting,
         MouseWrite, ExpectAck, Poll, Handle, KeyboardIrq, MouseIrq, Return, Dispatch, vars
<1>4. garbled' = garbled \/ garbled' = (out.kind # "reply")
  BY DEF Next, Input, KeyPress, MouseMove, Controller, DeliverReply, DeliverKey, DeliverAux, Deliver,
         Initialize, EnableAux, AskConfig, ReadConfig, WriteConfig, SetDefaults, EnableReporting,
         MouseWrite, ExpectAck, Poll, Handle, KeyboardIrq, MouseIrq, Return, Dispatch, vars
<1>5. misread' \in BOOLEAN
  <2>1. CASE misread' = misread
    BY <2>1, Zenon DEF FlagsOK
  <2>2. CASE ReadConfig \/ ExpectAck
    BY <2>2, Zenon DEF ReadConfig, ExpectAck, Poll
  <2>3. CASE KeyboardIrq
    BY <2>3, Zenon DEF KeyboardIrq
  <2>4. CASE MouseIrq
    BY <2>1, <2>4, Zenon DEF MouseIrq
  <2> QED BY <2>1, <2>2, <2>3, <2>4
          DEF Next, Input, KeyPress, MouseMove, Controller, DeliverReply, DeliverKey, DeliverAux,
              Deliver, Initialize, EnableAux, AskConfig, WriteConfig, SetDefaults, EnableReporting,
              MouseWrite, Handle, Dispatch, vars
<1> QED BY <1>1, <1>2, <1>3, <1>4, <1>5, Zenon DEF FlagsOK

LEMMA NextPlaces ==
  ASSUME QueuesOK, PlacesOK, [Next]_vars
  PROVE  PlacesOK'
<1> USE DEF deviceVars, linkVars, bufferVars, picVars, driverVars
<1>1. start' \in {"booting", "clean", "disturbed"}
  BY DEF PlacesOK, Next, Disturb, Settle, vars
<1>2. CASE Input \/ UNCHANGED vars
  BY <1>1, <1>2 DEF PlacesOK, Input, KeyPress, MouseMove, vars
<1>3. CASE DeliverReply \/ DeliverKey
  BY <1>1, <1>3, ByteTypes DEF PlacesOK, DeliverReply, DeliverKey, Deliver
<1>4. CASE DeliverAux
  <2>1. out' \in Bytes
    BY <1>4, HeadTailProperties DEF QueuesOK, DeliverAux, Deliver
  <2> QED BY <1>1, <1>4, <2>1 DEF PlacesOK, DeliverAux, Deliver
<1>5. CASE Initialize
  <2> USE DEF Goto, Locations, Booting, Polls
  <2>1. CASE EnableAux \/ AskConfig
    BY <1>1, <2>1 DEF PlacesOK, EnableAux, AskConfig
  <2>2. CASE ReadConfig \/ ExpectAck
    BY <1>1, <2>2 DEF PlacesOK, ReadConfig, ExpectAck, Poll
  <2>3. CASE WriteConfig
    BY <1>1, <2>3, ByteTypes DEF PlacesOK, WriteConfig
  <2>4. CASE SetDefaults \/ EnableReporting
    BY <1>1, <2>4 DEF PlacesOK, SetDefaults, EnableReporting, MouseWrite
  <2> QED BY <1>5, <2>1, <2>2, <2>3, <2>4 DEF Initialize
<1>6. CASE Handle
  <2> USE DEF Goto, Return, Ended, Locations
  <2>1. CASE KeyboardIrq \/ MouseIrq
    BY <1>1, <2>1 DEF PlacesOK, KeyboardIrq, MouseIrq
  <2>2. ASSUME NEW line \in Lines, Dispatch(line) PROVE PlacesOK'
    BY <1>1, <2>2 DEF PlacesOK, Dispatch
  <2> QED BY <1>6, <2>1, <2>2 DEF Handle
<1> QED BY <1>2, <1>3, <1>4, <1>5, <1>6 DEF Next, Controller

LEMMA NextRest == QueuesOK /\ RestOK /\ [Next]_vars => RestOK'
BY NextNumbers, NextFlags, NextPlaces DEF RestOK

LEMMA NextQueues ==
  ASSUME QueuesOK, RestOK, [Next]_vars
  PROVE  QueuesOK'
<1> USE DEF deviceVars, linkVars, bufferVars, picVars, driverVars
<1> DEFINE n == Len(aux)
           n1 == Len(aux')
<1>1. /\ aux \in Seq(Bytes) /\ packet \in Seq(Bytes) /\ Len(packet) <= 2
      /\ n \in Nat /\ n <= AuxMax /\ AuxMax \in Nat /\ AuxMax >= 2
  BY Ps2Assumption DEF QueuesOK
<1>2. CASE MouseMove
  <2>1. PICK second \in BOOLEAN, third \in BOOLEAN : aux' = aux \o Packet(second, third)
    BY <1>2 DEF MouseMove
  <2>2. Packet(second, third) \in Seq(Bytes) /\ Len(Packet(second, third)) = 3
    BY PacketType DEF RestOK, NumbersOK
  <2>3. aux' \in Seq(Bytes) /\ n1 = n + 3
    <3> DEFINE added == Packet(second, third)
    <3>1. added \in Seq(Bytes) /\ Len(added) = 3 /\ aux' = aux \o added
      BY <2>1, <2>2
    <3> HIDE DEF added
    <3>2. aux \o added \in Seq(Bytes) /\ Len(aux \o added) = n + Len(added)
      BY <1>1, <3>1, ConcatProperties
    <3> QED BY <3>1, <3>2, Zenon
  <2>4. n + 3 <= AuxMax /\ packet' = packet
    BY <1>2 DEF MouseMove
  <2>5. pc' \in {"ackEnable", "run"} \cup Lines
    BY <1>2 DEF MouseMove, Reporting
  <2>6. AuxSmall'
    BY <2>5 DEF AuxSmall, Lines
  <2> HIDE DEF n, n1
  <2>7. n1 <= AuxMax
    BY <2>3, <2>4
  <2> QED BY <1>1, <2>3, <2>4, <2>6, <2>7, Zenon DEF QueuesOK, n1
<1>3. CASE DeliverAux
  <2>1. aux # << >> /\ aux' = Tail(aux) /\ UNCHANGED <<packet, pc>>
    BY <1>3 DEF DeliverAux, Deliver
  <2>2. aux' \in Seq(Bytes) /\ n1 = n - 1
    BY <1>1, <2>1, HeadTailProperties, Zenon
  <2>3. pc \notin {"enableAux", "askConfig", "readConfig", "writeConfig", "setDefaults"}
    BY <2>1 DEF QueuesOK, AuxSmall
  <2>4. pc \in {"ackDefaults", "enableReporting"} => n <= 1
    BY DEF QueuesOK, AuxSmall
  <2> HIDE DEF n, n1
  <2>5. n1 <= AuxMax /\ (pc \in {"ackDefaults", "enableReporting"} => n1 <= 1)
    BY <1>1, <2>2, <2>4
  <2>6. AuxSmall'
    BY <2>1, <2>3, <2>5, Zenon DEF AuxSmall, n1
  <2> QED BY <1>1, <2>1, <2>2, <2>5, <2>6, Zenon DEF QueuesOK, n1
<1>4. CASE SetDefaults \/ EnableReporting
  <2> DEFINE bound == IF pc = "setDefaults" THEN 0 ELSE 1
  <2>1. /\ aux' = (IF present THEN Append(aux, Ack) ELSE aux) /\ packet' = packet
        /\ \/ pc = "setDefaults" /\ pc' = "ackDefaults"
           \/ pc = "enableReporting" /\ pc' = "ackEnable"
    BY <1>4 DEF SetDefaults, EnableReporting, MouseWrite, Goto
  <2>2. aux' \in Seq(Bytes) /\ n1 \in {n, n + 1}
    BY <1>1, <2>1, ByteTypes, AppendProperties, Zenon
  <2>3. pc = "setDefaults" => n = 0
    BY EmptySeq DEF QueuesOK, AuxSmall
  <2>4. pc = "enableReporting" => n <= 1
    BY DEF QueuesOK, AuxSmall
  <2> HIDE DEF n, n1
  <2>5. n1 <= AuxMax /\ (pc = "setDefaults" => n1 <= 1)
    BY <1>1, <2>1, <2>2, <2>3, <2>4
  <2>6. AuxSmall'
    BY <2>1, <2>5 DEF AuxSmall, n1
  <2> QED BY <1>1, <2>1, <2>2, <2>5, <2>6, Zenon DEF QueuesOK, n1
<1>5. CASE MouseIrq
  <2>1. packet' \in {packet, Assembled(out)} /\ aux' = aux
    BY <1>5 DEF MouseIrq, Return
  <2>2. packet' \in Seq(Bytes) /\ Len(packet') <= 2
    BY <1>1, <2>1, AssembledType, Zenon DEF RestOK, PlacesOK
  <2>3. AuxSmall'
    BY <1>5 DEF AuxSmall, MouseIrq, Return, Goto
  <2> QED BY <1>1, <2>1, <2>2, <2>3, Zenon DEF QueuesOK
<1>6. ASSUME UNCHANGED <<aux, packet>>, AuxSmall' PROVE QueuesOK'
  BY <1>6, Zenon DEF QueuesOK
<1>7. AuxSmall
  BY DEF QueuesOK
<1>8. CASE KeyPress \/ DeliverReply \/ DeliverKey \/ UNCHANGED vars
  <2>1. UNCHANGED <<aux, packet, pc>>
    BY <1>8 DEF KeyPress, DeliverReply, DeliverKey, Deliver, vars
  <2> QED BY <1>6, <1>7, <2>1, Zenon DEF AuxSmall
<1>9. CASE EnableAux \/ AskConfig \/ ReadConfig \/ WriteConfig \/ ExpectAck
  <2>1. UNCHANGED <<aux, packet>>
    BY <1>9 DEF EnableAux, AskConfig, ReadConfig, WriteConfig, ExpectAck, Poll
  <2>2. AuxSmall'
    BY <1>7, <1>9, <2>1 DEF AuxSmall, EnableAux, AskConfig, ReadConfig, WriteConfig, ExpectAck, Goto
  <2> QED BY <1>6, <2>1, <2>2
<1>10. CASE KeyboardIrq \/ \E line \in Lines : Dispatch(line)
  <2>1. UNCHANGED <<aux, packet>>
    BY <1>10 DEF KeyboardIrq, Return, Dispatch
  <2>2. pc' \in {"run"} \cup Lines
    BY <1>10 DEF KeyboardIrq, Return, Dispatch, Goto
  <2> QED BY <1>6, <2>1, <2>2 DEF AuxSmall, Lines
<1> QED BY <1>2, <1>3, <1>4, <1>5, <1>8, <1>9, <1>10
        DEF Next, Input, Controller, Initialize, Handle

LEMMA TypeInvariant == Spec => []TypeInv
BY InitType, NextRest, NextQueues, TypeParts, PTL DEF Spec

(* Every variable holds a value of its type; the mouse's own queue, which also
   takes its answers to the driver's commands, stays within its size. *)
THEOREM Ps2Typed == Spec => []TypeOK
<1>1. TypeInv => TypeOK
  BY DEF TypeInv
<1> QED BY <1>1, TypeInvariant, PTL
-----------------------------------------------------------------------------
LEMMA OneLeft == \A n \in Nat \ {0} : n <= 2 /\ n # 2 => n = 1
OBVIOUS

LEMMA NextPlain ==
  ASSUME TypeInv, PlainFits, [Next]_vars
  PROVE  PlainFits'
<1> USE DEF driverVars
<1>1. packet \in Seq(Bytes) /\ Len(packet) <= 2 /\ plain \in 0 .. 3 /\ out \in Bytes
  BY DEF TypeInv, TypeOK
<1>2. CASE MouseIrq
  <2>1. CASE UNCHANGED <<packet, plain>>
    BY <2>1 DEF PlainFits
  <2>2. CASE packet' = Assembled(out) /\ plain' = Plain(out)
    <3>1. CASE plain' = 2
      <4>1. plain = 1 /\ ~ out.mark
        BY <2>2, <3>1 DEF Plain
      <4>2. CASE packet = << >>
        BY <2>2, <3>1, <4>1, <4>2, EmptySeq DEF Assembled, PlainFits
      <4>3. CASE Len(packet) = 2
        BY <2>2, <3>1, <4>3, EmptySeq, Zenon DEF Assembled, PlainFits
      <4>4. CASE packet # << >> /\ Len(packet) # 2
        <5>1. Len(packet) = 1
          BY <1>1, <4>4, EmptySeq, OneLeft, Zenon
        <5>2. packet' = Append(packet, out)
          BY <2>2, <4>4 DEF Assembled
        <5>3. Len(packet') = 1 + 1
          <6>1. Len(Append(packet, out)) = Len(packet) + 1
            BY <1>1, AppendProperties
          <6> QED BY <5>1, <5>2, <6>1, Zenon
        <5> QED BY <3>1, <5>3 DEF PlainFits
      <4> QED BY <4>2, <4>3, <4>4
    <3>2. CASE plain' = 3
      <4>1. plain = 2 /\ ~ out.mark
        BY <2>2, <3>2 DEF Plain
      <4> QED BY <1>1, <2>2, <3>2, <4>1 DEF Assembled, PlainFits
    <3> QED BY <3>1, <3>2 DEF PlainFits
  <2> QED BY <1>2, <2>1, <2>2 DEF MouseIrq
<1>3. CASE ReadConfig \/ ExpectAck \/ KeyboardIrq
  <2>1. packet' = packet /\ plain' \in {0, plain}
    BY <1>3 DEF ReadConfig, ExpectAck, Poll, KeyboardIrq
  <2> QED BY <2>1 DEF PlainFits
<1>4. CASE UNCHANGED driverVars
  BY <1>4 DEF PlainFits
<1>5. CASE Input \/ Controller \/ UNCHANGED vars \/ \E line \in Lines : Dispatch(line)
  BY <1>4, <1>5 DEF Input, KeyPress, MouseMove, Controller, DeliverReply, DeliverKey, DeliverAux,
                    Deliver, Dispatch, vars
<1>6. CASE EnableAux \/ AskConfig \/ WriteConfig \/ SetDefaults \/ EnableReporting
  BY <1>4, <1>6 DEF EnableAux, AskConfig, WriteConfig, SetDefaults, EnableReporting, MouseWrite
<1> QED BY <1>2, <1>3, <1>5, <1>6 DEF Next, Initialize, Handle

(* After a whole packet whose movement bytes have no marker bit, mouse.c takes
   the next byte for a first one, however many bytes went astray before. *)
THEOREM PlainPacketsResync == Spec => []PlainPacketResyncs
<1>1. Init => PlainFits
  BY DEF Init, PlainFits
<1>2. TypeInv /\ PlainFits /\ [Next]_vars => PlainFits'
  BY NextPlain
<1>3. PlainFits => PlainPacketResyncs
  BY DEF PlainFits, PlainPacketResyncs
<1> QED BY <1>1, <1>2, <1>3, TypeInvariant, PTL DEF Spec
-----------------------------------------------------------------------------
(* A machine that nobody touches while it boots. *)

Idle == ~ full /\ aux = << >> /\ ~ reply

(* The mouse was written to: at most one answer is on its way. *)
AckComes ==
  /\ ~ reply
  /\ full => aux = << >> /\ out = Ack
  /\ ~ full => aux = << >> \/ (Len(aux) = 1 /\ Head(aux) = Ack)

Booted ==
  /\ keys = 0 /\ packet = << >> /\ ~ misread
  /\ off \subseteq {"aux"} /\ (pc # "enableAux" => off = {})
  /\ pc \in {"setDefaults", "ackDefaults", "enableReporting", "ackEnable", "run", "kbd", "aux"} =>
       enabled = Lines
  /\ pc = "writeConfig" => ~ garbled
  /\ pc = "readConfig" => aux = << >> /\ (full => out = Reply) /\ (reply <=> ~ full)
  /\ pc \in {"ackDefaults", "ackEnable"} => AckComes
  /\ pc \notin {"readConfig", "ackDefaults", "ackEnable"} => Idle
  /\ ~ OfPacket(out)
  /\ serving = IF pc \in Lines THEN {pc} ELSE {}

LEMMA ControllerBooted ==
  ASSUME TypeInv, Booted, Controller
  PROVE  Booted'
<1> USE DEF deviceVars, linkVars, bufferVars, picVars, driverVars
<1>1. CASE DeliverReply
  <2>1. reply /\ reply' = FALSE /\ full' = TRUE /\ out' = Reply /\ ~ full
        /\ UNCHANGED <<present, keys, aux, serving, enabled, off, garbled, packet, misread, pc>>
    BY <1>1 DEF DeliverReply, Deliver
  <2>2. pc = "readConfig"
    BY <2>1 DEF Booted, AckComes, Idle
  <2> QED BY <2>1, <2>2, ByteTypes DEF Booted, Lines
<1>2. CASE DeliverKey
  BY <1>2 DEF DeliverKey, Booted
<1>3. CASE DeliverAux
  <2>1. ~ reply /\ aux # << >> /\ ~ full /\ full' = TRUE /\ out' = Head(aux) /\ aux' = Tail(aux)
        /\ UNCHANGED <<present, keys, reply, serving, enabled, off, garbled, packet, misread, pc>>
    BY <1>3 DEF DeliverAux, Deliver
  <2>2. pc \in {"ackDefaults", "ackEnable"} /\ AckComes
    BY <2>1 DEF Booted, Idle
  <2>3. aux \in Seq(Bytes) /\ Len(aux) = 1 /\ Head(aux) = Ack
    BY <2>1, <2>2 DEF AckComes, TypeInv, TypeOK
  <2>4. aux' = << >>
    BY <2>1, <2>3
  <2> QED BY <2>1, <2>2, <2>3, <2>4, ByteTypes DEF Booted, AckComes, Lines
<1> QED BY <1>1, <1>2, <1>3 DEF Controller

LEMMA InitializeBooted ==
  ASSUME TypeInv, Booted, Initialize
  PROVE  Booted'
<1> USE DEF deviceVars, linkVars, bufferVars, picVars, driverVars, Goto
<1>1. CASE EnableAux
  <2>1. pc = "enableAux" /\ pc' = "askConfig" /\ off' = {}
    BY <1>1 DEF EnableAux, Lines, TypeInv, TypeOK, Booted
  <2> QED BY <1>1, <2>1 DEF EnableAux, Booted, Idle, Lines
<1>2. CASE AskConfig
  BY <1>2 DEF AskConfig, Booted, Idle, Lines
<1>3. CASE ReadConfig
  <2>1. pc = "readConfig" /\ pc' = "writeConfig" /\ full' = FALSE
        /\ UNCHANGED <<out, packet, deviceVars, enabled, off, serving>>
    BY <1>3 DEF ReadConfig, Poll
  <2>2. full /\ out = Reply /\ ~ reply
    BY <1>3, <2>1 DEF ReadConfig, Poll, NothingComes, Booted
  <2>3. ~ misread' /\ ~ garbled'
    BY <1>3, <2>2, ByteTypes DEF ReadConfig, Poll, Booted
  <2> QED BY <2>1, <2>2, <2>3 DEF Booted, Idle, Lines
<1>4. CASE WriteConfig
  BY <1>4 DEF WriteConfig, Booted, Idle, Lines
<1>5. CASE SetDefaults \/ EnableReporting
  <2>1. /\ aux' = (IF present THEN Append(aux, Ack) ELSE aux)
        /\ \/ pc = "setDefaults" /\ pc' = "ackDefaults"
           \/ pc = "enableReporting" /\ pc' = "ackEnable"
        /\ UNCHANGED <<keys, reply, linkVars, bufferVars, serving, packet, misread>>
    BY <1>5 DEF SetDefaults, EnableReporting, MouseWrite
  <2>2. aux = << >> /\ ~ full /\ ~ reply
    BY <2>1 DEF Booted, Idle
  <2>3. Append(<< >>, Ack) = << Ack >> /\ Len(<< Ack >>) = 1 /\ Head(<< Ack >>) = Ack
    OBVIOUS
  <2>4. AckComes'
    BY <2>1, <2>2, <2>3 DEF AckComes
  <2> QED BY <2>1, <2>4 DEF Booted, Lines
<1>6. CASE ExpectAck
  <2>1. /\ \/ pc = "ackDefaults" /\ pc' = "enableReporting"
           \/ pc = "ackEnable" /\ pc' = "run"
        /\ full' = FALSE /\ UNCHANGED <<out, packet, deviceVars, enabled, off, serving>>
        /\ AckComes /\ off = {}
    BY <1>6 DEF ExpectAck, Poll, Booted
  <2>2. aux = << >> /\ ~ reply
    BY <1>6, <2>1 DEF ExpectAck, Poll, NothingComes, AckComes
  <2>3. ~ misread'
    BY <1>6, <2>1, ByteTypes DEF ExpectAck, Poll, AckComes, Booted
  <2> QED BY <2>1, <2>2, <2>3 DEF Booted, Idle, Lines
<1> QED BY <1>1, <1>2, <1>3, <1>4, <1>5, <1>6 DEF Initialize

LEMMA HandleBooted ==
  ASSUME TypeInv, Booted, start = "booting", Handle
  PROVE  Booted'
<1> USE DEF deviceVars, linkVars, bufferVars, picVars, driverVars, Goto
<1>1. CASE KeyboardIrq
  BY <1>1 DEF KeyboardIrq, Return, Ended, Booted, Idle, Lines
<1>2. CASE MouseIrq
  <2>1. pc = "aux" /\ ~ full
    BY <1>2 DEF MouseIrq, Return, Booted, Idle
  <2> QED BY <1>2, <2>1 DEF MouseIrq, Return, Ended, Booted, Idle, Lines
<1>3. ASSUME NEW line \in Lines, Dispatch(line) PROVE Booted'
  BY <1>3 DEF Dispatch, Booted, Idle, Lines
<1> QED BY <1>1, <1>2, <1>3 DEF Handle
-----------------------------------------------------------------------------
(* Afterwards: the bytes on their way from the mouse are whole packets. *)

InBuffer == IF full /\ FromMouse(out) THEN 1 ELSE 0
Total == Len(packet) + InBuffer + Len(aux)

(* The i-th of those bytes. *)
At(i) ==
  IF i <= Len(packet) THEN packet[i]
  ELSE IF i = Len(packet) + InBuffer THEN out
  ELSE aux[i - Len(packet) - InBuffer]

Pos(i) == ((i - 1) % 3) + 1

WholePackets ==
  /\ Total % 3 = 0
  /\ \A i \in 1 .. Total :
       /\ At(i).kind = PacketKinds[Pos(i)]
       /\ Pos(i) = 1 => At(i).mark
       /\ Pos(i) # 1 => At(i).tag = At(i - 1).tag

Clean ==
  /\ ~ misread /\ ~ reply /\ enabled = Lines /\ off = {}
  /\ pc \in {"run", "kbd", "aux"}
  /\ serving = IF pc \in Lines THEN {pc} ELSE {}
  /\ full => IF pc = "run" THEN latched = {LineOf(out)} ELSE pc = LineOf(out) /\ latched = {}
  /\ ~ full => pc = "run" /\ latched = {}
  /\ WholePackets

LEMMA Positions ==
  ASSUME NEW t \in Nat, t % 3 = 0
  PROVE  /\ \A k \in 1 .. 3 : Pos(t + k) = k
         /\ (t + 3) % 3 = 0
         /\ t # 0 => t >= 3 /\ t - 3 \in Nat /\ (t - 3) % 3 = 0
BY DEF Pos

LEMMA PositionsShift ==
  ASSUME NEW i \in Nat \ {0}
  PROVE  Pos(i) \in 1 .. 3 /\ Pos(i + 3) = Pos(i) /\ (Pos(i) # 1 => i - 1 \in Nat \ {0})
BY DEF Pos

LEMMA Counts ==
  ASSUME TypeInv
  PROVE  /\ Len(packet) \in Nat /\ Len(packet) <= 2 /\ Len(aux) \in Nat
         /\ InBuffer \in {0, 1} /\ Total \in Nat
         /\ packet \in Seq(Bytes) /\ aux \in Seq(Bytes) /\ out \in Bytes
         /\ Total = Len(packet) + InBuffer + Len(aux)
BY DEF TypeInv, TypeOK, InBuffer, Total

LEMMA SameBytes ==
  ASSUME WholePackets, Total \in Nat, Total' = Total, \A i \in 1 .. Total : At(i)' = At(i)
  PROVE  WholePackets'
<1> SUFFICES ASSUME NEW i \in 1 .. Total
            PROVE  /\ At(i)'.kind = PacketKinds[Pos(i)]
                   /\ Pos(i) = 1 => At(i)'.mark
                   /\ Pos(i) # 1 => At(i)'.tag = At(i - 1)'.tag
  BY DEF WholePackets
<1>1. Pos(i) # 1 => i - 1 \in 1 .. Total
  BY PositionsShift
<1> QED BY <1>1 DEF WholePackets

(* A key on its way is none of those bytes. *)
LEMMA SameLink ==
  ASSUME TypeInv, WholePackets, UNCHANGED <<packet, aux>>, InBuffer' = InBuffer,
         InBuffer = 1 => out' = out
  PROVE  WholePackets'
<1>1. Total' = Total
  BY DEF Total
<1>2. ASSUME NEW i \in 1 .. Total PROVE At(i)' = At(i)
  <2> DEFINE p == Len(packet)
             B == InBuffer
  <2>1. /\ At(i)  = IF i <= p THEN packet[i] ELSE IF i = p + B THEN out ELSE aux[i - p - B]
        /\ At(i)' = IF i <= p THEN packet[i] ELSE IF i = p + B THEN out' ELSE aux[i - p - B]
    BY DEF At
  <2>2. p \in Nat /\ B \in {0, 1} /\ (B = 1 => out' = out)
    BY Counts
  <2> HIDE DEF p, B
  <2> QED BY <2>1, <2>2
<1> QED BY <1>1, <1>2, Counts, SameBytes

LEMMA PacketSent ==
  ASSUME TypeInv, WholePackets, NEW second \in BOOLEAN, NEW third \in BOOLEAN,
         aux' = aux \o Packet(second, third), UNCHANGED <<packet, bufferVars>>
  PROVE  WholePackets'
<1> DEFINE new == Packet(second, third)
<1>1. PICK p \in Nat, a \in Nat, B \in {0, 1}, T \in Nat :
        p = Len(packet) /\ a = Len(aux) /\ B = InBuffer /\ T = p + B + a /\ T = Total
  BY Counts
<1>0. p \in Nat /\ a \in Nat /\ B \in Nat /\ T \in Nat /\ T = p + B + a
  BY <1>1
<1>2. /\ new \in Seq(Bytes) /\ Len(new) = 3
      /\ \A k \in 1 .. 3 : new[k].kind = PacketKinds[k] /\ new[k].tag = tag
      /\ new[1].mark
  <2>1. tag \in 0 .. 1
    BY DEF TypeInv, TypeOK
  <2> QED BY <2>1, PacketType, Zenon
<1> HIDE DEF new
<1>3. /\ Len(aux') = a + 3
      /\ \A i \in 1 .. a + 3 : aux'[i] = IF i <= a THEN aux[i] ELSE new[i - a]
  <2>1. /\ Len(aux \o new) = a + 3
        /\ \A i \in 1 .. a + 3 : (aux \o new)[i] = IF i <= a THEN aux[i] ELSE new[i - a]
    <3>1. aux \in Seq(Bytes)
      BY Counts
    <3>2. /\ Len(aux \o new) = Len(aux) + Len(new)
          /\ \A i \in 1 .. Len(aux) + Len(new) :
               (aux \o new)[i] = IF i <= Len(aux) THEN aux[i] ELSE new[i - Len(aux)]
      <4>1. new \in Seq(Bytes)
        BY <1>2
      <4> QED BY <3>1, <4>1, ConcatProperties, Zenon
    <3> QED BY <1>1, <1>2, <3>2, Zenon
  <2> QED BY <2>1 DEF new
<1>4. Total' = T + 3
  <2>1. Total' = p + B + Len(aux')
    BY <1>1 DEF Total, InBuffer, bufferVars
  <2>2. p + B + (a + 3) = T + 3
    BY <1>1
  <2> QED BY <1>3, <2>1, <2>2, Zenon
<1>5. ASSUME NEW i
      PROVE  /\ At(i)  = IF i <= p THEN packet[i] ELSE IF i = p + B THEN out ELSE aux[i - p - B]
             /\ At(i)' = IF i <= p THEN packet[i] ELSE IF i = p + B THEN out ELSE aux'[i - p - B]
  BY <1>1 DEF At, InBuffer, bufferVars
<1>6. /\ T % 3 = 0
      /\ \A i \in 1 .. T : /\ At(i).kind = PacketKinds[Pos(i)]
                           /\ Pos(i) = 1 => At(i).mark
                           /\ Pos(i) # 1 => At(i).tag = At(i - 1).tag
  BY <1>1 DEF WholePackets
<1>7. ASSUME NEW i \in 1 .. T PROVE At(i)' = At(i)
  <2>1. CASE i <= p \/ i = p + B
    BY <1>5, <2>1
  <2>2. CASE ~ (i <= p) /\ i # p + B
    <3> DEFINE j == i - p - B
    <3>1. j \in 1 .. a + 3 /\ j <= a
      BY <1>0, <2>2
    <3>2. At(i) = aux[j] /\ At(i)' = aux'[j]
      BY <1>5, <2>2
    <3> QED BY <1>3, <3>1, <3>2
  <2> QED BY <2>1, <2>2
<1>8. ASSUME NEW k \in 1 .. 3, NEW i, i = T + k PROVE At(i)' = new[k]
  <2>1. ~ (i <= p) /\ i # p + B /\ i - p - B = a + k
    BY <1>0, <1>8
  <2>2. At(i)' = aux'[a + k]
    BY <1>5, <2>1
  <2>3. a + k \in 1 .. a + 3 /\ ~ (a + k <= a) /\ (a + k) - a = k
    BY <1>1
  <2> QED BY <1>3, <2>2, <2>3
<1>9. ASSUME NEW i \in 1 .. T + 3
      PROVE  /\ At(i)'.kind = PacketKinds[Pos(i)]
             /\ Pos(i) = 1 => At(i)'.mark
             /\ Pos(i) # 1 => At(i)'.tag = At(i - 1)'.tag
  <2>1. CASE i \in 1 .. T
    <3>1. Pos(i) # 1 => i - 1 \in 1 .. T
      <4>1. i \in Nat \ {0} /\ i <= T
        BY <1>0, <2>1
      <4> QED BY <1>0, <4>1, PositionsShift
    <3> QED BY <1>6, <1>7, <2>1, <3>1
  <2>2. CASE i \notin 1 .. T
    <3>1. PICK k \in 1 .. 3 : i = T + k
      <4>1. i - T \in 1 .. 3 /\ i = T + (i - T)
        BY <1>1, <2>2
      <4> QED BY <4>1
    <3>2. Pos(i) = k
      BY <1>1, <1>6, <3>1, Positions
    <3>3. At(i)' = new[k]
      BY <1>8, <3>1
    <3>4. ASSUME k # 1 PROVE At(i - 1)'.tag = tag
      <4>1. k - 1 \in 1 .. 3 /\ i - 1 = T + (k - 1)
        BY <1>1, <3>1, <3>4
      <4>2. At(i - 1)' = new[k - 1]
        BY <1>8, <4>1
      <4> QED BY <1>2, <4>1, <4>2
    <3>5. new[k].kind = PacketKinds[k] /\ new[k].tag = tag /\ (k = 1 => new[k].mark)
      BY <1>2
    <3> QED BY <3>2, <3>3, <3>4, <3>5
  <2> QED BY <2>1, <2>2
<1>10. (T + 3) % 3 = 0
  BY <1>1, <1>6, Positions
<1> QED BY <1>4, <1>9, <1>10 DEF WholePackets

LEMMA ByteDelivered ==
  ASSUME TypeInv, WholePackets, ~ full, aux # << >>, full' = TRUE,
         out' = Head(aux), aux' = Tail(aux), packet' = packet
  PROVE  WholePackets' /\ FromMouse(Head(aux))
<1>1. PICK p \in Nat, a \in Nat, T \in Nat :
        p = Len(packet) /\ a = Len(aux) /\ T = p + a /\ T = Total /\ InBuffer = 0
  BY Counts DEF InBuffer
<1>2. aux \in Seq(Bytes) /\ a # 0
  <2>1. aux \in Seq(Bytes)
    BY Counts
  <2> QED BY <1>1, <2>1, EmptySeq
<1>3. /\ Len(Tail(aux)) = a - 1 /\ Head(aux) = aux[1]
      /\ \A i \in 1 .. a - 1 : Tail(aux)[i] = aux[i + 1]
  <2>1. /\ Len(Tail(aux)) = Len(aux) - 1
        /\ \A i \in 1 .. Len(Tail(aux)) : Tail(aux)[i] = aux[i + 1]
    BY <1>2, HeadTailProperties
  <2>2. Head(aux) = aux[1]
    BY <1>2
  <2> QED BY <1>1, <2>1, <2>2, Zenon
<1>4. p \in Nat /\ a \in Nat \ {0} /\ T \in Nat /\ T = p + a
  BY <1>1, <1>2
<1>5. FromMouse(Head(aux))
  <2> DEFINE i == p + 1
  <2>1. i \in 1 .. T /\ i \in Nat \ {0} /\ ~ (i <= p) /\ i # p + 0 /\ i - p - 0 = 1
    BY <1>4
  <2>2. At(i) = aux[1]
    BY <1>1, <2>1 DEF At
  <2>3. At(i).kind = PacketKinds[Pos(i)] /\ Pos(i) \in 1 .. 3
    BY <1>1, <2>1, PositionsShift DEF WholePackets
  <2>4. aux[1].kind \in {"first", "second", "third"}
    BY <2>2, <2>3 DEF PacketKinds
  <2> QED BY <1>3, <2>4 DEF FromMouse
<1>6. InBuffer' = 1
  BY <1>5 DEF InBuffer
<1>7. Total' = Total
  <2>1. Total' = p + 1 + Len(aux')
    BY <1>1, <1>6 DEF Total
  <2>2. p + 1 + (a - 1) = T
    BY <1>4
  <2> QED BY <1>1, <1>3, <2>1, <2>2, Zenon
<1>8. ASSUME NEW i
      PROVE  /\ At(i)  = IF i <= p THEN packet[i] ELSE IF i = p + 0 THEN out ELSE aux[i - p - 0]
             /\ At(i)' = IF i <= p THEN packet[i] ELSE IF i = p + 1 THEN out' ELSE aux'[i - p - 1]
  BY <1>1, <1>6 DEF At
<1>9. ASSUME NEW i \in 1 .. T PROVE At(i)' = At(i)
  <2>1. CASE i <= p
    BY <1>8, <2>1
  <2>2. CASE i = p + 1
    <3>1. ~ (i <= p) /\ i # p + 0 /\ i - p - 0 = 1
      BY <1>4, <2>2
    <3> QED BY <1>3, <1>8, <2>2, <3>1
  <2>3. CASE ~ (i <= p) /\ i # p + 1
    <3> DEFINE j == i - p - 1
    <3>1. /\ j \in 1 .. a - 1 /\ i # p + 0 /\ i - p - 0 = j + 1 /\ i - p - 1 = j
      BY <1>4, <2>3
    <3>2. At(i) = aux[j + 1] /\ At(i)' = aux'[j]
      BY <1>8, <2>3, <3>1
    <3> HIDE DEF j
    <3> QED BY <1>3, <3>1, <3>2
  <2> QED BY <2>1, <2>2, <2>3
<1>10. Total \in Nat /\ \A i \in 1 .. Total : At(i)' = At(i)
  BY <1>1, <1>9
<1> QED BY <1>5, <1>7, <1>10, SameBytes

LEMMA ByteHandled ==
  ASSUME TypeInv, WholePackets, full, FromMouse(out), full' = FALSE, aux' = aux,
         packet' = Assembled(out)
  PROVE  /\ WholePackets'
         /\ Len(packet) = 2 => IsPacket(Append(packet, out))
<1>1. PICK p \in Nat, a \in Nat, T \in Nat :
        p = Len(packet) /\ a = Len(aux) /\ T = p + 1 + a /\ T = Total /\ InBuffer = 1
  BY Counts DEF InBuffer
<1>2. p \in Nat /\ a \in Nat /\ T \in Nat /\ T = p + 1 + a
  BY <1>1
<1>3. packet \in Seq(Bytes) /\ out \in Bytes
  BY Counts
<1>4. /\ Len(Append(packet, out)) = p + 1 /\ Append(packet, out)[p + 1] = out
      /\ \A i \in 1 .. p : Append(packet, out)[i] = packet[i]
  <2>1. /\ Len(Append(packet, out)) = Len(packet) + 1
        /\ \A i \in 1 .. Len(packet) : Append(packet, out)[i] = packet[i]
        /\ Append(packet, out)[Len(packet) + 1] = out
    BY <1>3, AppendProperties
  <2> QED BY <1>1, <2>1, Zenon
<1>5. \A i : At(i) = IF i <= p THEN packet[i] ELSE IF i = p + 1 THEN out ELSE aux[i - p - 1]
  BY <1>1 DEF At
<1>6. InBuffer' = 0
  BY DEF InBuffer
<1>7. /\ T % 3 = 0
      /\ \A i \in 1 .. T : /\ At(i).kind = PacketKinds[Pos(i)]
                           /\ Pos(i) = 1 => At(i).mark
                           /\ Pos(i) # 1 => At(i).tag = At(i - 1).tag
  BY <1>1 DEF WholePackets
<1>8. CASE Len(packet) # 2
  <2>1. packet' = Append(packet, out)
    <3>1. CASE packet = << >>
      <4>1. p = 0
        BY <1>1, <3>1, EmptySeq
      <4>2. 1 \in 1 .. T /\ ~ (1 <= p) /\ 1 = p + 1 /\ Pos(1) = 1
        BY <1>2, <4>1 DEF Pos
      <4>3. At(1) = out
        BY <1>5, <4>2
      <4>4. out.mark
        BY <1>7, <4>2, <4>3
      <4> QED BY <1>8, <4>4 DEF Assembled
    <3>2. CASE packet # << >>
      BY <1>8, <3>2 DEF Assembled
    <3> QED BY <3>1, <3>2
  <2>2. Total' = Total
    <3>1. Total' = (p + 1) + 0 + a
      BY <1>1, <1>4, <1>6, <2>1 DEF Total
    <3> QED BY <1>1, <1>2, <3>1
  <2>3. ASSUME NEW i \in 1 .. T PROVE At(i)' = At(i)
    <3>1. At(i)' = IF i <= p + 1 THEN Append(packet, out)[i]
                   ELSE IF i = (p + 1) + 0 THEN out' ELSE aux[i - (p + 1) - 0]
      BY <1>1, <1>4, <1>6, <2>1 DEF At
    <3>2. CASE i <= p
      <4>1. i <= p + 1 /\ i \in 1 .. p
        BY <1>2, <3>2
      <4> QED BY <1>4, <1>5, <3>1, <3>2, <4>1
    <3>3. CASE i = p + 1
      <4>1. ~ (i <= p) /\ i <= p + 1
        BY <1>2, <3>3
      <4> QED BY <1>4, <1>5, <3>1, <3>3, <4>1
    <3>4. CASE ~ (i <= p) /\ i # p + 1
      <4>1. ~ (i <= p + 1) /\ i # (p + 1) + 0 /\ i - (p + 1) - 0 = i - p - 1
        BY <1>2, <3>4
      <4> QED BY <1>5, <3>1, <3>4, <4>1
    <3> QED BY <3>2, <3>3, <3>4
  <2>4. Total \in Nat /\ \A i \in 1 .. Total : At(i)' = At(i)
    BY <1>1, <2>3
  <2> QED BY <1>8, <2>2, <2>4, SameBytes
<1>9. CASE Len(packet) = 2
  <2>1. p = 2 /\ T = 3 + a /\ T - 3 = a /\ a % 3 = 0
    BY <1>1, <1>2, <1>7, <1>9
  <2>2. packet # << >> /\ packet' = << >>
    BY <1>9, EmptySeq DEF Assembled
  <2>3. Total' = a
    <3>1. Total' = 0 + 0 + a
      BY <1>1, <1>6, <2>2, EmptySeq DEF Total
    <3> QED BY <1>2, <3>1
  <2>4. ASSUME NEW i \in 1 .. a PROVE At(i)' = At(i + 3)
    <3>1. At(i)' = IF i <= 0 THEN packet'[i] ELSE IF i = 0 + 0 THEN out' ELSE aux[i - 0 - 0]
      BY <1>6, <2>2, EmptySeq DEF At
    <3>2. ~ (i <= 0) /\ i # 0 + 0 /\ i - 0 - 0 = i
      BY <1>2
    <3>3. ~ (i + 3 <= p) /\ i + 3 # p + 1 /\ (i + 3) - p - 1 = i
      BY <1>2, <2>1
    <3> QED BY <1>5, <3>1, <3>2, <3>3
  <2>5. ASSUME NEW i \in 1 .. a
        PROVE  /\ At(i)'.kind = PacketKinds[Pos(i)]
               /\ Pos(i) = 1 => At(i)'.mark
               /\ Pos(i) # 1 => At(i)'.tag = At(i - 1)'.tag
    <3>1. i + 3 \in 1 .. T /\ (i + 3) - 1 = (i - 1) + 3 /\ i \in Nat \ {0}
      BY <1>2, <2>1
    <3>2. Pos(i + 3) = Pos(i)
      BY <3>1, PositionsShift
    <3>3. Pos(i) # 1 => i - 1 \in 1 .. a
      BY <1>2, <3>1, PositionsShift
    <3>4. Pos(i) # 1 => At(i - 1)' = At((i + 3) - 1)
      BY <2>4, <3>1, <3>3
    <3> QED BY <1>7, <2>4, <3>1, <3>2, <3>4
  <2>6. WholePackets'
    BY <2>1, <2>3, <2>5 DEF WholePackets
  <2>7. IsPacket(Append(packet, out))
    <3> DEFINE bytes == Append(packet, out)
    <3>1. \A i \in 1 .. 3 : bytes[i] = At(i)
      <4> DEFINE whole(i) == bytes[i] = At(i)
      <4>1. p = 2 /\ 1 \in 1 .. p /\ 2 \in 1 .. p /\ p + 1 = 3 /\ ~ (3 <= p) /\ 1 <= p /\ 2 <= p
        BY <2>1
      <4>2. bytes[1] = packet[1] /\ bytes[2] = packet[2] /\ bytes[p + 1] = out
        BY <1>4, <4>1, Zenon
      <4>3. At(1) = packet[1] /\ At(2) = packet[2]
        BY <1>5, <4>1, Zenon
      <4>4. At(3) = out
        BY <1>5, <4>1, Zenon
      <4>5. whole(1) /\ whole(2) /\ whole(3)
        BY <4>1, <4>2, <4>3, <4>4, Zenon
      <4> HIDE DEF whole
      <4>6. \A i \in 1 .. 3 : whole(i)
        BY <4>5
      <4> QED BY <4>6, Zenon DEF whole
    <3>2. 1 \in 1 .. T /\ 2 \in 1 .. T /\ 3 \in 1 .. T
      BY <1>2, <2>1
    <3>3. Pos(1) = 1 /\ Pos(2) = 2 /\ Pos(3) = 3 /\ 2 - 1 = 1 /\ 3 - 1 = 2
      BY DEF Pos
    <3>4. /\ At(1).kind = PacketKinds[1] /\ At(2).kind = PacketKinds[2] /\ At(3).kind = PacketKinds[3]
          /\ At(2).tag = At(1).tag /\ At(3).tag = At(2).tag
      BY <1>7, <3>2, <3>3
    <3> HIDE DEF bytes
    <3>5. bytes[1] = At(1) /\ bytes[2] = At(2) /\ bytes[3] = At(3)
      <4>1. 1 \in 1 .. 3 /\ 2 \in 1 .. 3 /\ 3 \in 1 .. 3
        OBVIOUS
      <4> QED BY <3>1, <4>1, Zenon
    <3>6. \A i \in 1 .. 3 : bytes[i].kind = PacketKinds[i] /\ bytes[i].tag = bytes[1].tag
      <4> SUFFICES ASSUME NEW i \in 1 .. 3
                  PROVE  bytes[i].kind = PacketKinds[i] /\ bytes[i].tag = bytes[1].tag
        OBVIOUS
      <4>1. CASE i = 1
        BY <3>4, <3>5, <4>1
      <4>2. CASE i = 2
        BY <3>4, <3>5, <4>2
      <4>3. CASE i = 3
        BY <3>4, <3>5, <4>3
      <4> QED BY <4>1, <4>2, <4>3
    <3> QED BY <3>6, Zenon DEF IsPacket, bytes
  <2> QED BY <2>6, <2>7
<1> QED BY <1>8, <1>9
-----------------------------------------------------------------------------
LinkInv ==
  /\ start = "booting" => Booted
  /\ start = "clean" => Clean

(* The last interrupt left over from booting was handled: nothing is on its
   way. *)
Settled == Booted /\ pc = "run" /\ latched = {}

LEMMA BootedSettles == Settled => Clean
<1> SUFFICES ASSUME Booted, pc = "run", latched = {} PROVE Clean
  BY DEF Settled
<1>2. ~ full /\ aux = << >> /\ ~ reply /\ packet = << >>
  BY DEF Booted, Idle
<1>3. InBuffer = 0 /\ Len(packet) = 0 /\ Len(aux) = 0
  BY <1>2, EmptySeq DEF InBuffer
<1>4. Total = 0
  BY <1>3 DEF Total
<1>5. WholePackets
  BY <1>4 DEF WholePackets
<1> QED BY <1>2, <1>5 DEF Booted, Clean, Lines

LEMMA NextClean ==
  ASSUME TypeInv, Clean, start = "clean", [Next]_vars
  PROVE  Clean'
<1> USE DEF deviceVars, linkVars, bufferVars, picVars, driverVars, Goto
<1>1. WholePackets /\ pc \in {"run", "kbd", "aux"} /\ ~ reply
  BY DEF Clean
<1>2. CASE KeyPress \/ UNCHANGED vars
  <2>1. UNCHANGED <<packet, aux, bufferVars, linkVars, picVars, misread, reply, pc>>
    BY <1>2 DEF KeyPress, vars
  <2>2. WholePackets'
    BY <1>1, <2>1, SameLink DEF InBuffer
  <2> QED BY <2>1, <2>2 DEF Clean
<1>3. CASE MouseMove
  <2>1. UNCHANGED <<packet, bufferVars, linkVars, picVars, misread, reply, pc>>
    BY <1>3 DEF MouseMove
  <2>2. PICK second \in BOOLEAN, third \in BOOLEAN : aux' = aux \o Packet(second, third)
    BY <1>3 DEF MouseMove
  <2>3. WholePackets'
    BY <1>1, <2>1, <2>2, PacketSent
  <2> QED BY <2>1, <2>3 DEF Clean
<1>4. CASE DeliverReply
  BY <1>1, <1>4 DEF DeliverReply
<1>5. CASE DeliverKey
  <2>1. /\ ~ full /\ full' = TRUE /\ out' = Key /\ latched' = latched \cup (enabled \cap {"kbd"})
        /\ UNCHANGED <<packet, aux, linkVars, serving, misread, reply, pc>>
    BY <1>5, ByteTypes DEF DeliverKey, Deliver, LineOf
  <2>2. InBuffer = 0 /\ InBuffer' = 0
    BY <2>1, ByteTypes DEF InBuffer
  <2>3. WholePackets'
    BY <1>1, <2>1, <2>2, SameLink
  <2>4. latched' = {LineOf(out')} /\ pc = "run"
    BY <2>1, ByteTypes DEF Clean, LineOf, Lines
  <2> QED BY <2>1, <2>3, <2>4 DEF Clean
<1>6. CASE DeliverAux
  <2>1. /\ ~ full /\ full' = TRUE /\ out' = Head(aux) /\ aux' = Tail(aux) /\ aux # << >>
        /\ latched' = latched \cup (enabled \cap {LineOf(Head(aux))})
        /\ UNCHANGED <<packet, linkVars, serving, misread, reply, pc>>
    BY <1>6 DEF DeliverAux, Deliver
  <2>2. WholePackets' /\ FromMouse(Head(aux))
    BY <1>1, <2>1, ByteDelivered
  <2>3. latched' = {LineOf(out')} /\ pc = "run"
    BY <2>1, <2>2 DEF Clean, LineOf, Lines
  <2> QED BY <2>1, <2>2, <2>3 DEF Clean
<1>7. ~ Initialize
  BY <1>1 DEF Initialize, EnableAux, AskConfig, ReadConfig, WriteConfig, SetDefaults,
              EnableReporting, MouseWrite, ExpectAck
<1>8. CASE KeyboardIrq
  <2>1. pc = "kbd" /\ full /\ LineOf(out) = "kbd" /\ latched = {}
    BY <1>8 DEF KeyboardIrq, Return, Clean
  <2>2. ~ FromMouse(out) /\ ~ OfPacket(out)
    BY <2>1 DEF LineOf, FromMouse, OfPacket
  <2>3. pc' = "run" /\ serving' = {} /\ full' = FALSE /\ ~ misread'
        /\ UNCHANGED <<packet, aux, reply, linkVars, latched>>
    BY <1>8, <2>1, <2>2 DEF KeyboardIrq, Return, Ended, Clean, Lines
  <2>4. InBuffer = 0 /\ InBuffer' = 0
    BY <2>2, <2>3 DEF InBuffer
  <2>5. WholePackets'
    BY <1>1, <2>3, <2>4, SameLink
  <2> QED BY <2>1, <2>3, <2>5 DEF Clean, Lines
<1>9. CASE MouseIrq
  <2>1. pc = "aux" /\ full /\ LineOf(out) = "aux" /\ latched = {}
    BY <1>9 DEF MouseIrq, Return, Clean
  <2>2. FromMouse(out)
    BY <2>1 DEF LineOf
  <2>3. full' = FALSE /\ packet' = Assembled(out) /\ misread' = misread
    BY <1>9, <2>1, <2>2 DEF MouseIrq
  <2>4. pc' = "run" /\ serving' = {} /\ UNCHANGED <<aux, reply, linkVars, latched>>
    BY <1>9, <2>1 DEF MouseIrq, Return, Ended, Clean, Lines
  <2>5. WholePackets'
    BY <1>1, <2>1, <2>2, <2>3, <2>4, ByteHandled
  <2> QED BY <2>1, <2>3, <2>4, <2>5 DEF Clean, Lines
<1>10. ASSUME NEW line \in Lines, Dispatch(line) PROVE Clean'
  <2>1. pc = "run" /\ pc' = line /\ line \in latched
        /\ latched' = latched \ {line} /\ serving' = serving \cup {line}
        /\ UNCHANGED <<packet, aux, bufferVars, linkVars, misread, reply>>
    BY <1>10 DEF Dispatch
  <2>2. full /\ line = LineOf(out) /\ latched' = {} /\ serving' = {line}
    BY <2>1 DEF Clean, Lines
  <2>3. WholePackets'
    BY <1>1, <2>1, SameLink DEF InBuffer
  <2> QED BY <2>1, <2>2, <2>3 DEF Clean, Lines
<1> QED BY <1>2, <1>3, <1>4, <1>5, <1>6, <1>7, <1>8, <1>9, <1>10
        DEF Next, Input, Controller, Handle

LEMMA InitLink == Init => LinkInv
BY ByteTypes DEF Init, LinkInv, Booted, Idle, Lines

LEMMA NextLink ==
  ASSUME TypeInv, LinkInv, [Next]_vars
  PROVE  LinkInv'
<1>1. CASE start = "booting"
  <2>1. CASE Input /\ Disturb
    BY <1>1, <2>1 DEF Disturb, LinkInv
  <2>2. CASE (Controller \/ Initialize \/ Handle) /\ Settle
    <3>1. Booted'
      BY <1>1, <2>2, ControllerBooted, InitializeBooted, HandleBooted DEF LinkInv
    <3>2. start' = "booting" \/ (start' = "clean" /\ pc' = "run" /\ latched' = {})
      BY <1>1, <2>2 DEF Settle
    <3>3. Settled' => Clean'
      BY BootedSettles, PTL
    <3> QED BY <3>1, <3>2, <3>3 DEF LinkInv, Settled
  <2>3. CASE UNCHANGED vars
    <3>1. Booted
      BY <1>1 DEF LinkInv
    <3>2. Booted'
      BY <2>3, <3>1 DEF vars, deviceVars, linkVars, bufferVars, picVars, driverVars, Booted, Idle, AckComes
    <3>3. start' = start
      BY <2>3 DEF vars
    <3> QED BY <1>1, <3>2, <3>3 DEF LinkInv
  <2> QED BY <2>1, <2>2, <2>3 DEF Next
<1>2. CASE start = "clean"
  <2>1. start' = "clean"
    BY <1>2 DEF Next, Disturb, Settle, vars
  <2>2. Clean'
    BY <1>2, NextClean DEF LinkInv
  <2> QED BY <2>1, <2>2 DEF LinkInv
<1>3. CASE start \notin {"booting", "clean"}
  <2>1. start' = start
    BY <1>3 DEF Next, Disturb, Settle, vars
  <2> QED BY <1>3, <2>1 DEF LinkInv
<1> QED BY <1>1, <1>2, <1>3

LEMMA LinkInvariant == Spec => []LinkInv
BY InitLink, NextLink, TypeInvariant, PTL DEF Spec

(* On a machine that nobody touches while it boots (mouse.c, keyboard.c,
   interrupts.c), every key is read once and by the keyboard's handler, which
   never takes a byte of the mouse for one. *)
THEOREM KeysAreReadOnce == Spec => []KeysArriveOnce
<1>1. LinkInv => KeysArriveOnce
  BY DEF LinkInv, Clean, KeysArriveOnce
<1> QED BY <1>1, LinkInvariant, PTL

(* On such a machine every event that mouse.c puts in its queue is made of the
   three bytes of one packet. *)
THEOREM MouseEventsArePackets == Spec => EventsArePackets
<1> DEFINE Whole == start = "clean" /\ Len(packet) = 2 /\ packet' = << >> => IsPacket(Append(packet, out))
<1>1. ASSUME TypeInv, LinkInv, [Next]_vars PROVE Whole
  <2> SUFFICES ASSUME start = "clean", Len(packet) = 2, packet' = << >>
              PROVE  IsPacket(Append(packet, out))
    OBVIOUS
  <2>1. Clean /\ WholePackets
    BY <1>1 DEF LinkInv, Clean
  <2>2. packet' # packet
    BY EmptySeq
  <2>3. MouseIrq
    BY <1>1, <2>2 DEF Next, Input, KeyPress, MouseMove, Controller, DeliverReply, DeliverKey,
         DeliverAux, Deliver, Initialize, EnableAux, AskConfig, ReadConfig, WriteConfig, SetDefaults,
         EnableReporting, MouseWrite, ExpectAck, Poll, Handle, KeyboardIrq, Dispatch, vars, driverVars
  <2>4. pc = "aux" /\ full /\ FromMouse(out)
    BY <2>1, <2>3 DEF MouseIrq, Return, Goto, Clean, LineOf
  <2>5. full' = FALSE /\ packet' = Assembled(out) /\ aux' = aux
    BY <2>3, <2>4 DEF MouseIrq, Return, deviceVars
  <2> QED BY <1>1, <2>1, <2>4, <2>5, ByteHandled
<1>2. TypeInv /\ LinkInv /\ [Next]_vars => [Whole]_vars
  BY <1>1
<1>3. Spec => [][Whole]_vars
  BY <1>2, TypeInvariant, LinkInvariant, PTL DEF Spec
<1> QED BY <1>3 DEF EventsArePackets
===============================================================================
