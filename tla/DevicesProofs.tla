----------------------------- MODULE DevicesProofs -----------------------------
(***************************************************************************)
(* The devices, of keyboard and mouse to text.                             *)
(*                                                                         *)
(* Ps2Inv is inductive, for every mouse that sets bit 3 of the first byte  *)
(* of its packets, every size of the screen and every keyboard buffer.     *)
(* The two properties of Ps2 follow from it: what shift says once the      *)
(* scancodes have arrived, and that the position follows the mouse.        *)
(*                                                                         *)
(* The five properties of Text hold of every call: each function is shown  *)
(* to give what its property says, for every text, number, piece of memory *)
(* and size of a buffer.  A loop is a function of its turns; that it is    *)
(* one, and of which type, is the first lemma about each.                  *)
(***************************************************************************)
EXTENDS Ps2, Text, Numbers, SequenceTheorems, TLAPS

-----------------------------------------------------------------------------
(* The invariant                                                           *)

\* what the keyboard sends, and what the controller answers
ScanCodes == ShiftKeys \cup {key + RELEASE : key \in ShiftKeys}
Configs == {BOOT_CONFIG, BOOT_CONFIG + MOUSE_IRQ}

\* A byte of the keyboard or of the controller is waiting, or its interrupt is,
\* when mouse_init has read it; a byte of the mouse is waiting.
FromKeyboard == (output.full /\ ~output.aux) \/ KBD_IRQ \in irq
FromMouse == output.full /\ output.aux

\* One interrupt is requested at a time, for the byte that came last.
IrqInv ==
  /\ KBD_IRQ \in irq => ~output.aux /\ MOUSE_IRQ \notin irq
  /\ MOUSE_IRQ \in irq /\ output.full => output.aux

\* The handler will get a byte that mouse_init has read, and no other has come
\* since: a packet is at most about to be sent.
ReadAgain ==
  MOUSE_IRQ \in irq /\ ~output.full =>
    settled = "no" \/ (settled = "packet" /\ Quiet(packet) /\ wire = packet)

\* Only scancodes and answers are on their way to the keyboard's handler, and
\* no answer is a scancode.
ByteInv ==
  /\ keys \in Seq(ScanCodes) /\ answer \in Seq(Configs)
  /\ FromKeyboard => output.data \in ScanCodes \cup Configs
  /\ ~misread => config \in Configs

\* shift as it will be when the scancodes on their way have been translated: as
\* the last of them leaves it
LastShift ==
  IF keys # <<>> THEN keys[Len(keys)] \in ShiftKeys
  ELSE IF FromKeyboard /\ output.data \in ScanCodes THEN output.data \in ShiftKeys
  ELSE shift

\* A key is held alone unless two overlapped.
ShiftInv ==
  /\ ~overlap => \A a, b \in held : a = b
  /\ ~stolen => /\ LastShift => held # {}
                /\ ~overlap => (LastShift <=> held # {})

\* The handler is at the byte of the packet that comes next; a packet may be
\* sent while the last byte of the one before waits.
InStep ==
  \/ wire = packet /\ ~FromMouse /\ mouse_cycle = 0
  \/ wire = packet /\ FromMouse /\ mouse_cycle = 2
  \/ wire = <<packet[2], packet[3]>> /\ FromMouse /\ output.data = packet[1] /\ mouse_cycle = 0
  \/ wire = <<packet[2], packet[3]>> /\ ~FromMouse /\ mouse_cycle = 1
  \/ wire = <<packet[3]>> /\ FromMouse /\ output.data = packet[2] /\ mouse_cycle = 1
  \/ wire = <<packet[3]>> /\ ~FromMouse /\ mouse_cycle = 2 /\ mouse_bytes[1] = packet[2]
  \/ /\ wire = <<>> /\ FromMouse /\ output.data = packet[3]
     /\ mouse_cycle = 2 /\ mouse_bytes[1] = packet[2]
  \/ wire = <<>> /\ ~FromMouse /\ mouse_cycle = 0

\* A quiet packet is on its way to a handler that may be anywhere in a packet.
\* The bytes after the first leave no doubt about where it is.
Settling ==
  \/ /\ Quiet(packet)
     /\ \/ wire = packet
        \/ wire = <<packet[2], packet[3]>>
        \/ wire = <<packet[3]>> /\ FromMouse /\ output.data = packet[2]
        \/ wire = <<packet[3]>> /\ ~FromMouse /\ mouse_cycle # 1
        \/ wire = <<>> /\ FromMouse /\ output.data = packet[3] /\ mouse_cycle # 1
  \* the next packet was sent while the last byte of a quiet one waits
  \/ wire = packet /\ FromMouse /\ ~StartsPacket(output.data) /\ mouse_cycle # 1

MouseInv ==
  /\ init_pc = "reset" => settled = "no" /\ ~reporting
  /\ settled = "packet" => InStep \/ Settling
  /\ settled = "packet" => wire # <<>> \/ FromMouse
  /\ settled = "yes" => InStep
  /\ ReadAgain

Ps2Inv == TypeOK /\ IrqInv /\ ByteInv /\ ShiftInv /\ MouseInv

-----------------------------------------------------------------------------
(* Bytes and packets                                                       *)

\* Setting bit 1 of a byte leaves a byte, and a configuration of the mouse.
LEMMA EnabledMouse ==
  ASSUME NEW b \in Byte
  PROVE  EnableMouse(b) \in Byte /\ (b \in Configs => EnableMouse(b) \in Configs)
<1>1. \/ (b \div 2) % 2 = 1
      \/ b + 2 <= 255
  BY DEF Byte
<1>2. b \in Configs => b = 97 \/ b = 99
  BY DEF Configs, BOOT_CONFIG, MOUSE_IRQ
<1>3. (97 \div 2) % 2 = 0 /\ (99 \div 2) % 2 = 1
  OBVIOUS
<1>4. EnableMouse(b) = IF (b \div 2) % 2 = 1 THEN b ELSE b + 2
  BY DEF EnableMouse, WithBit, HasBit, MOUSE_IRQ
<1>5. EnableMouse(b) \in Byte
  BY <1>1, <1>4 DEF Byte
<1>6. b \in Configs => EnableMouse(b) \in Configs
  BY <1>2, <1>3, <1>4 DEF Configs, BOOT_CONFIG, MOUSE_IRQ
<1> QED BY <1>5, <1>6

\* No answer is a scancode, and both are bytes.
LEMMA Codes == /\ ScanCodes \subseteq Byte /\ Configs \subseteq Byte
               /\ ScanCodes \cap Configs = {}
               /\ ShiftKeys \subseteq ScanCodes
               /\ \A key \in ShiftKeys : /\ key + RELEASE \in ScanCodes
                                         /\ key + RELEASE \notin ShiftKeys
  BY DEF ScanCodes, Configs, ShiftKeys, Byte, SC_LSHIFT_PRESS, SC_RSHIFT_PRESS, RELEASE,
         BOOT_CONFIG, MOUSE_IRQ

\* A movement is read at the edges as the handler clamps it.
LEMMA Clamped ==
  ASSUME NEW v \in Int, NEW max \in Nat
  PROVE  Clamp(v, max) \in 0 .. max /\ Clamp(v, max) = Within(v, max)
<1> DEFINE low == IF v <= max THEN v ELSE max
<1>1. Min({v, max}) = low
  BY DEF Min
<1>2. Max({0, low}) = IF low <= 0 THEN 0 ELSE low
  <2> low \in Int
    OBVIOUS
  <2> HIDE DEF low
  <2> QED BY DEF Max
<1> QED BY <1>1, <1>2 DEF Clamp, Within

LEMMA SignedByte ==
  ASSUME NEW b \in Byte
  PROVE  Signed(b) \in Int /\ Signed(b) = Offset(b)
<1>1. b >= 128 => (b + 128) % 256 = b - 128
  BY DEF Byte
<1>2. ~(b >= 128) => (b + 128) % 256 = b + 128
  BY DEF Byte
<1> QED BY <1>1, <1>2 DEF Byte, Signed, Offset

\* A packet is three bytes, of which the first starts it.
LEMMA Packet ==
  ASSUME NEW p \in Packets
  PROVE  /\ p = <<p[1], p[2], p[3]>>
         /\ p[1] \in Byte /\ p[2] \in Byte /\ p[3] \in Byte
         /\ StartsPacket(p[1])
         /\ p \in Seq(Byte) /\ p # <<>>
<1>1. p \in [1 .. 3 -> Byte]
  BY Ps2Assumption DEF Byte
<1>2. /\ p[1] \in Byte /\ p[2] \in Byte /\ p[3] \in Byte
      /\ p = <<p[1], p[2], p[3]>>
  BY <1>1
<1>3. StartsPacket(p[1])
  BY Ps2Assumption DEF StartsPacket
<1>4. <<p[1], p[2], p[3]>> \in Seq(Byte)
  BY <1>2 DEF Byte
<1>5. p # <<>>
  BY <1>2
<1> QED BY <1>2, <1>3, <1>4, <1>5

\* Taking the first byte leaves the rest.
LEMMA OnTheWire ==
  ASSUME NEW a, NEW b, NEW c
  PROVE  /\ Head(<<a, b, c>>) = a /\ Tail(<<a, b, c>>) = <<b, c>>
         /\ Head(<<b, c>>) = b /\ Tail(<<b, c>>) = <<c>>
         /\ Head(<<c>>) = c /\ Tail(<<c>>) = <<>>
         /\ <<a, b, c>> # <<>> /\ <<b, c>> # <<>> /\ <<c>> # <<>>
         /\ <<a, b, c>> # <<b, c>> /\ <<a, b, c>> # <<c>> /\ <<b, c>> # <<c>>
<1>1. /\ <<a, b, c>> # <<>> /\ <<b, c>> # <<>> /\ <<c>> # <<>>
      /\ <<a, b, c>> # <<b, c>> /\ <<a, b, c>> # <<c>> /\ <<b, c>> # <<c>>
  <2>1. Len(<<a, b, c>>) = 3 /\ Len(<<b, c>>) = 2 /\ Len(<<c>>) = 1 /\ Len(<<>>) = 0
    OBVIOUS
  <2> QED BY <2>1
<1>2. /\ Head(<<a, b, c>>) = a /\ Tail(<<a, b, c>>) = <<b, c>>
  OBVIOUS
<1>3. Head(<<b, c>>) = b /\ Tail(<<b, c>>) = <<c>>
  OBVIOUS
<1>4. Head(<<c>>) = c /\ Tail(<<c>>) = <<>>
  OBVIOUS
<1> QED BY <1>1, <1>2, <1>3, <1>4

-----------------------------------------------------------------------------
(* The actions                                                             *)

LEMMA InitHolds == Init => Ps2Inv
<1> SUFFICES ASSUME Init PROVE Ps2Inv
  OBVIOUS
<1>1. TypeOK
  <2>1. mouse_max_x \div 2 \in 0 .. mouse_max_x /\ mouse_max_y \div 2 \in 0 .. mouse_max_y
    BY Ps2Assumption
  <2>2. output \in [full : BOOLEAN, aux : BOOLEAN, data : Byte] /\ config \in Byte
    BY DEF Init, Byte, BOOT_CONFIG
  <2>3. /\ mouse_cycle \in 0 .. 2 /\ mouse_bytes \in [{1, 2} -> Byte]
        /\ mouse_x \in 0 .. mouse_max_x /\ mouse_y \in 0 .. mouse_max_y
    BY <2>1 DEF Init, Byte
  <2>4. /\ held \subseteq ShiftKeys /\ keys \in Seq(Byte) /\ Len(keys) <= KEYS
        /\ packet \in Packets /\ wire \in Seq(Byte) /\ answer \in Seq(Byte)
    BY Ps2Assumption DEF Init
  <2>5. /\ init_pc \in {"idle", "config", "reset", "enable"}
        /\ irq \subseteq {KBD_IRQ, MOUSE_IRQ}
        /\ {polled, reporting, shift, overlap, stolen, misread} \subseteq BOOLEAN
        /\ settled \in {"no", "packet", "yes"}
    BY DEF Init
  <2> QED BY <2>2, <2>3, <2>4, <2>5 DEF TypeOK
<1>2. ByteInv
  BY DEF Init, ByteInv, FromKeyboard, Configs
<1>3. ShiftInv
  BY DEF Init, ShiftInv, LastShift, FromKeyboard
<1>4. MouseInv /\ IrqInv
  BY DEF Init, MouseInv, IrqInv, ReadAgain
<1> QED BY <1>1, <1>2, <1>3, <1>4 DEF Ps2Inv

\* The mouse and its handler do not see what the keyboard does.
LEMMA MouseUnseen ==
  ASSUME MouseInv, IrqInv,
         UNCHANGED <<wire, packet, settled, mouse, output, irq, init_pc, reporting>>
  PROVE  MouseInv' /\ IrqInv'
  BY DEF MouseInv, InStep, Settling, FromMouse, ReadAgain, Quiet, IrqInv, mouse

LEMMA PressHolds ==
  ASSUME Ps2Inv, NEW key \in ShiftKeys, Press(key)
  PROVE  Ps2Inv'
<1>1. UNCHANGED <<reporting, packet, wire, answer, output, irq, config, init_pc, polled, shift,
                  mouse, mouse_cycle, mouse_bytes, mouse_x, mouse_y, stolen, misread, settled>>
  BY DEF Press, mouse, initVars
<1>2. /\ key \notin held /\ held' = held \cup {key}
      /\ keys' = Append(keys, key) /\ Len(keys) < KEYS
      /\ overlap' = (overlap \/ held # {})
  BY DEF Press
<1>3. key \in Byte /\ key \in ScanCodes
  BY Codes
<1>4. Len(keys') = Len(keys) + 1 /\ keys'[Len(keys')] = key /\ keys' # <<>>
  <2>1. keys \in Seq(Byte)
    BY DEF Ps2Inv, TypeOK
  <2>2. keys' = Append(keys, key)
    BY <1>2
  <2> QED BY ONLY <1>3, <2>1, <2>2
<1>5. TypeOK'
  <2>1. held' \subseteq ShiftKeys /\ keys' \in Seq(Byte) /\ Len(keys') <= KEYS
    BY <1>2, <1>3, <1>4, Ps2Assumption DEF Ps2Inv, TypeOK
  <2>2. overlap \in BOOLEAN
    BY DEF Ps2Inv, TypeOK
  <2>3. overlap' \in BOOLEAN
    BY <1>2, <2>2
  <2> QED BY <1>1, <2>1, <2>3 DEF Ps2Inv, TypeOK
<1>6. ByteInv'
  <2>1. keys' \in Seq(ScanCodes)
    BY <1>2, <1>3 DEF Ps2Inv, ByteInv
  <2> QED BY <1>1, <2>1 DEF Ps2Inv, ByteInv, FromKeyboard
<1>7. ShiftInv'
  <2>1. LastShift' /\ held' # {}
    BY <1>2, <1>4 DEF LastShift
  <2>2. ~overlap' => \A a, b \in held' : a = b
    BY <1>2 DEF Ps2Inv, TypeOK
  <2> QED BY <2>1, <2>2 DEF ShiftInv
<1>8. MouseInv' /\ IrqInv'
  BY <1>1, MouseUnseen DEF Ps2Inv
<1> QED BY <1>5, <1>6, <1>7, <1>8 DEF Ps2Inv

LEMMA ReleaseHolds ==
  ASSUME Ps2Inv, NEW key \in ShiftKeys, Release(key)
  PROVE  Ps2Inv'
<1>1. UNCHANGED <<reporting, packet, wire, answer, output, irq, config, init_pc, polled, shift,
                  mouse, mouse_cycle, mouse_bytes, mouse_x, mouse_y, stolen, misread, settled>>
  BY DEF Release, mouse, initVars
<1>2. /\ key \in held /\ held' = held \ {key}
      /\ keys' = Append(keys, key + RELEASE) /\ Len(keys) < KEYS
      /\ overlap' = (overlap /\ held' # {})
  BY DEF Release
<1>3. key + RELEASE \in Byte /\ key + RELEASE \in ScanCodes /\ key + RELEASE \notin ShiftKeys
  BY Codes
<1>4. Len(keys') = Len(keys) + 1 /\ keys'[Len(keys')] = key + RELEASE /\ keys' # <<>>
  <2> DEFINE code == key + RELEASE
  <2>1. keys' = Append(keys, code) /\ code \in Byte /\ keys \in Seq(Byte)
    BY <1>2, <1>3 DEF Ps2Inv, TypeOK
  <2> HIDE DEF code
  <2>2. Len(keys') = Len(keys) + 1 /\ keys'[Len(keys')] = code /\ keys' # <<>>
    BY ONLY <2>1
  <2> QED BY <2>2 DEF code
<1>5. TypeOK'
  <2>1. held' \subseteq ShiftKeys /\ keys' \in Seq(Byte) /\ Len(keys') <= KEYS
    BY <1>2, <1>3, <1>4, Ps2Assumption DEF Ps2Inv, TypeOK
  <2>2. overlap \in BOOLEAN
    BY DEF Ps2Inv, TypeOK
  <2>3. overlap' \in BOOLEAN
    BY <1>2, <2>2
  <2> QED BY <1>1, <2>1, <2>3 DEF Ps2Inv, TypeOK
<1>6. ByteInv'
  <2>1. keys' \in Seq(ScanCodes)
    BY <1>2, <1>3 DEF Ps2Inv, ByteInv
  <2> QED BY <1>1, <2>1 DEF Ps2Inv, ByteInv, FromKeyboard
<1>7. ShiftInv'
  <2>1. ~LastShift'
    BY <1>3, <1>4 DEF LastShift
  <2>2. ~overlap' => held' = {}
    BY <1>2 DEF Ps2Inv, TypeOK, ShiftInv
  <2> QED BY <2>1, <2>2 DEF ShiftInv
<1>8. MouseInv' /\ IrqInv'
  BY <1>1, MouseUnseen DEF Ps2Inv
<1> QED BY <1>5, <1>6, <1>7, <1>8 DEF Ps2Inv

\* A packet is sent when the one before has been taken from the wire.
LEMMA MoveHolds ==
  ASSUME Ps2Inv, NEW p \in Packets, Move(p)
  PROVE  Ps2Inv'
<1>1. UNCHANGED <<held, keys, reporting, answer, output, irq, config, init_pc, polled, shift,
                  overlap, mouse_cycle, mouse_bytes, mouse_x, mouse_y, stolen, misread>>
  BY DEF Move, keyboard, mouse, initVars
<1>2. /\ reporting /\ wire = <<>> /\ packet' = p /\ wire' = p
      /\ settled' = IF settled = "no" /\ Quiet(p) THEN "packet" ELSE settled
  BY DEF Move
<1>3. p \in Seq(Byte) /\ p # <<>>
  BY Packet
<1>4. TypeOK'
  BY <1>1, <1>2, <1>3 DEF Ps2Inv, TypeOK
<1>5. ByteInv' /\ ShiftInv' /\ IrqInv'
  BY <1>1 DEF Ps2Inv, ByteInv, ShiftInv, LastShift, FromKeyboard, IrqInv
<1>6. MouseInv'
  <2> DEFINE a == packet[1] b == packet[2] c == packet[3]
  <2>1. packet = <<a, b, c>>
    BY Packet DEF Ps2Inv, TypeOK
  <2> HIDE DEF a, b, c
  <2>2. wire # packet /\ wire # <<b, c>> /\ wire # <<c>>
    BY <1>2, <2>1, OnTheWire
  <2>3. init_pc' # "reset"
    BY <1>1, <1>2 DEF Ps2Inv, MouseInv
  <2>4. InStep => InStep'
    <3> SUFFICES ASSUME InStep PROVE InStep'
      OBVIOUS
    <3>1. \/ FromMouse /\ mouse_cycle = 2
          \/ ~FromMouse /\ mouse_cycle = 0
      BY <2>2 DEF InStep, b, c
    <3> QED BY <1>1, <1>2, <3>1 DEF InStep, FromMouse
  <2>5. Settling => Settling'
    <3> SUFFICES ASSUME Settling PROVE Settling'
      OBVIOUS
    <3>1. FromMouse /\ ~StartsPacket(output.data) /\ mouse_cycle # 1
      BY <2>2 DEF Settling, Quiet, StartsPacket, b, c
    <3> QED BY <1>1, <1>2, <3>1 DEF Settling, FromMouse
  <2>6. settled = "no" /\ Quiet(p) => Settling'
    BY <1>2 DEF Settling
  <2>7. ReadAgain'
    <3>1. packet # <<>>
      BY Packet DEF Ps2Inv, TypeOK
    <3> QED BY <1>1, <1>2, <3>1 DEF Ps2Inv, MouseInv, ReadAgain, Quiet
  <2> QED BY <1>2, <1>3, <2>3, <2>4, <2>5, <2>6, <2>7 DEF Ps2Inv, MouseInv
<1> QED BY <1>4, <1>5, <1>6 DEF Ps2Inv

\* A byte of the keyboard reaches the controller: the last scancode that
\* leaves the buffer is the one that waits.
LEMMA KeyArrives ==
  ASSUME Ps2Inv, ~output.full, irq = {}, keys # <<>>, Put(FALSE, Head(keys)),
         keys' = Tail(keys),
         UNCHANGED <<wire, answer, held, reporting, packet, config, initVars, shift, overlap,
                     mouse, stolen, misread, settled>>
  PROVE  Ps2Inv'
<1> USE DEF mouse, initVars
<1> DEFINE n == Len(keys)
<1>1. /\ output'.full /\ ~output'.aux /\ output'.data = keys[1]
      /\ output' \in [full : BOOLEAN, aux : BOOLEAN, data : Byte]
      /\ irq' \subseteq {KBD_IRQ} /\ MOUSE_IRQ \notin irq'
  BY DEF Put, Ps2Inv, TypeOK, KBD_IRQ, MOUSE_IRQ
<1>2. keys[1] \in ScanCodes /\ Tail(keys) \in Seq(ScanCodes)
  BY DEF Ps2Inv, ByteInv
<1>3. /\ n \in Nat \ {0} /\ Tail(keys) \in Seq(Byte) /\ Len(Tail(keys)) = n - 1
      /\ \A i \in 1 .. (n - 1) : Tail(keys)[i] = keys[i + 1]
  BY DEF Ps2Inv, TypeOK
<1>4. Tail(keys) = <<>> => n = 1
  <2>1. Tail(keys) = <<>> => n - 1 = 0
    BY <1>3
  <2> HIDE DEF n
  <2> QED BY <1>3, <2>1
<1>5. Tail(keys) # <<>> => Tail(keys)[n - 1] = keys[n]
  <2>1. Tail(keys) # <<>> => n - 1 # 0
    BY <1>3, EmptySeq
  <2> DEFINE t == Tail(keys)
  <2> HIDE DEF n, t
  <2>2. n - 1 # 0 => n - 1 \in 1 .. (n - 1) /\ (n - 1) + 1 = n
    BY <1>3
  <2> QED BY <1>3, <2>1, <2>2 DEF t
<1>6. LastShift' = LastShift
  <2>1. LastShift = (keys[n] \in ShiftKeys)
    BY DEF LastShift
  <2>2. LastShift' = (keys[n] \in ShiftKeys)
    BY <1>1, <1>2, <1>3, <1>4, <1>5 DEF LastShift, FromKeyboard
  <2> QED BY <2>1, <2>2
<1>7. TypeOK'
  <2>1. Len(keys') <= KEYS
    <3>1. n <= KEYS
      BY DEF Ps2Inv, TypeOK
    <3> HIDE DEF n
    <3>2. n - 1 <= KEYS
      BY <1>3, <3>1, Ps2Assumption
    <3> QED BY <1>3, <3>2
  <2> QED BY <1>1, <1>3, <2>1 DEF Ps2Inv, TypeOK
<1>8. ByteInv'
  BY <1>1, <1>2 DEF Ps2Inv, ByteInv, FromKeyboard
<1>9. ShiftInv'
  BY <1>6 DEF Ps2Inv, ShiftInv
<1>10. MouseInv' /\ IrqInv'
  BY <1>1 DEF Ps2Inv, MouseInv, InStep, Settling, FromMouse, ReadAgain, IrqInv
<1> QED BY <1>7, <1>8, <1>9, <1>10 DEF Ps2Inv

\* An answer of the controller reaches it, which is no scancode.
LEMMA AnswerArrives ==
  ASSUME Ps2Inv, ~output.full, irq = {}, answer # <<>>, Put(FALSE, Head(answer)),
         answer' = Tail(answer),
         UNCHANGED <<wire, keys, held, reporting, packet, config, initVars, shift, overlap,
                     mouse, stolen, misread, settled>>
  PROVE  Ps2Inv'
<1> USE DEF mouse, initVars
<1>1. /\ output'.full /\ ~output'.aux /\ output'.data = answer[1]
      /\ output' \in [full : BOOLEAN, aux : BOOLEAN, data : Byte]
      /\ irq' \subseteq {KBD_IRQ} /\ MOUSE_IRQ \notin irq'
  BY DEF Put, Ps2Inv, TypeOK, KBD_IRQ, MOUSE_IRQ
<1>2. answer[1] \in Configs /\ Tail(answer) \in Seq(Configs) /\ Tail(answer) \in Seq(Byte)
  BY DEF Ps2Inv, ByteInv, TypeOK
<1>3. LastShift' = LastShift
  BY <1>1, <1>2, Codes DEF LastShift, FromKeyboard
<1>4. TypeOK'
  BY <1>1, <1>2 DEF Ps2Inv, TypeOK
<1>5. ByteInv'
  BY <1>1, <1>2 DEF Ps2Inv, ByteInv, FromKeyboard
<1>6. ShiftInv'
  BY <1>3 DEF Ps2Inv, ShiftInv
<1>7. MouseInv' /\ IrqInv'
  BY <1>1 DEF Ps2Inv, MouseInv, InStep, Settling, FromMouse, ReadAgain, IrqInv
<1> QED BY <1>4, <1>5, <1>6, <1>7 DEF Ps2Inv

\* A byte of the mouse reaches it, the next one of its packet.
LEMMA MouseArrives ==
  ASSUME Ps2Inv, ~output.full, irq = {}, wire # <<>>, Put(TRUE, Head(wire)),
         wire' = Tail(wire),
         UNCHANGED <<keys, answer, held, reporting, packet, config, initVars, shift, overlap,
                     mouse, stolen, misread, settled>>
  PROVE  Ps2Inv'
<1> USE DEF mouse, initVars
<1>1. /\ output'.full /\ output'.aux /\ output'.data = Head(wire)
      /\ output' \in [full : BOOLEAN, aux : BOOLEAN, data : Byte]
      /\ Tail(wire) \in Seq(Byte)
      /\ irq' \subseteq {MOUSE_IRQ} /\ KBD_IRQ \notin irq'
  BY DEF Put, Ps2Inv, TypeOK, KBD_IRQ, MOUSE_IRQ
<1>2. ~FromMouse /\ ~FromKeyboard /\ ~FromKeyboard' /\ FromMouse'
  BY <1>1 DEF FromMouse, FromKeyboard
<1>3. TypeOK'
  BY <1>1 DEF Ps2Inv, TypeOK
<1>4. ByteInv' /\ ShiftInv' /\ IrqInv' /\ ReadAgain'
  BY <1>1, <1>2 DEF Ps2Inv, ByteInv, ShiftInv, LastShift, IrqInv, ReadAgain
<1>5. MouseInv'
  <2> DEFINE a == packet[1] b == packet[2] c == packet[3]
  <2>1. packet = <<a, b, c>>
    BY Packet DEF Ps2Inv, TypeOK
  <2> HIDE DEF a, b, c
  <2>2. /\ Head(<<a, b, c>>) = a /\ Tail(<<a, b, c>>) = <<b, c>>
        /\ Head(<<b, c>>) = b /\ Tail(<<b, c>>) = <<c>>
        /\ Head(<<c>>) = c /\ Tail(<<c>>) = <<>>
    BY OnTheWire
  <2>3. InStep => InStep'
    <3> SUFFICES ASSUME InStep PROVE InStep'
      OBVIOUS
    <3>1. \/ wire = <<a, b, c>> /\ mouse_cycle = 0
          \/ wire = <<b, c>> /\ mouse_cycle = 1
          \/ wire = <<c>> /\ mouse_cycle = 2 /\ mouse_bytes[1] = b
      BY <1>2, <2>1 DEF InStep, b, c
    <3>2. \/ wire' = <<b, c>> /\ output'.data = a /\ mouse_cycle = 0
          \/ wire' = <<c>> /\ output'.data = b /\ mouse_cycle = 1
          \/ wire' = <<>> /\ output'.data = c /\ mouse_cycle = 2 /\ mouse_bytes[1] = b
      BY <1>1, <2>2, <3>1
    <3> QED BY <1>2, <3>2 DEF InStep, a, b, c
  <2>4. Settling => Settling'
    <3> SUFFICES ASSUME Settling PROVE Settling'
      OBVIOUS
    <3>1. /\ Quiet(packet)
          /\ \/ wire = <<a, b, c>>
             \/ wire = <<b, c>>
             \/ wire = <<c>> /\ mouse_cycle # 1
      BY <1>2, <2>1 DEF Settling, b, c
    <3>2. \/ wire' = <<b, c>>
          \/ wire' = <<c>> /\ output'.data = b
          \/ wire' = <<>> /\ output'.data = c /\ mouse_cycle # 1
      BY <1>1, <2>2, <3>1
    <3>3. Quiet(packet)' = Quiet(packet)
      BY DEF Quiet
    <3> QED BY <1>2, <3>1, <3>2, <3>3 DEF Settling, a, b, c
  <2> QED BY <1>2, <1>4, <2>3, <2>4 DEF Ps2Inv, MouseInv
<1> QED BY <1>3, <1>4, <1>5 DEF Ps2Inv

LEMMA TransferHolds == Ps2Inv /\ Transfer => Ps2Inv'
<1> SUFFICES ASSUME Ps2Inv, Transfer PROVE Ps2Inv'
  OBVIOUS
<1>1. ~output.full /\ irq = {}
  BY DEF Transfer
<1>2. UNCHANGED <<held, reporting, packet, config, initVars, shift, overlap, mouse, stolen,
                  misread, settled>>
  BY DEF Transfer
<1>3. CASE keys # <<>> /\ Put(FALSE, Head(keys)) /\ keys' = Tail(keys)
           /\ UNCHANGED <<wire, answer>>
  BY <1>1, <1>2, <1>3, KeyArrives
<1>4. CASE answer # <<>> /\ Put(FALSE, Head(answer)) /\ answer' = Tail(answer)
           /\ UNCHANGED <<keys, wire>>
  BY <1>1, <1>2, <1>4, AnswerArrives
<1>5. CASE wire # <<>> /\ Put(TRUE, Head(wire)) /\ wire' = Tail(wire)
           /\ UNCHANGED <<keys, answer>>
  BY <1>1, <1>2, <1>5, MouseArrives
<1> QED BY <1>3, <1>4, <1>5 DEF Transfer

\* The keyboard's handler leaves shift as the scancode has it, an answer as it was.
LEMMA KeyboardHolds ==
  ASSUME Ps2Inv, keyboard_irq
  PROVE  Ps2Inv'
<1>1. UNCHANGED <<held, keys, reporting, packet, wire, answer, config, init_pc, polled, overlap,
                  mouse_cycle, mouse_bytes, mouse_x, mouse_y, stolen, misread, settled>>
  BY DEF keyboard_irq, device, mouse, initVars
<1>2. /\ KBD_IRQ \in irq /\ ~output.aux /\ ~output'.full
      /\ output' \in [full : BOOLEAN, aux : BOOLEAN, data : Byte]
      /\ shift' = translate_scancode(output.data)
      /\ irq' \subseteq irq /\ KBD_IRQ \notin irq' /\ MOUSE_IRQ \notin irq'
  BY DEF keyboard_irq, Taken, Ps2Inv, TypeOK, IrqInv
<1>3. output.data \in ScanCodes \cup Configs
  BY <1>2 DEF Ps2Inv, ByteInv, FromKeyboard
<1>4. shift' = IF output.data \in ScanCodes THEN output.data \in ShiftKeys ELSE shift
  <2>1. output.data \in ShiftKeys => shift' = TRUE
    <3> SUFFICES ASSUME output.data \in ShiftKeys PROVE shift' = TRUE
      OBVIOUS
    <3>1. ~(output.data >= RELEASE)
      BY DEF ShiftKeys, SC_LSHIFT_PRESS, SC_RSHIFT_PRESS, RELEASE
    <3> QED BY <1>2, <3>1 DEF translate_scancode
  <2>2. output.data \in ScanCodes \ ShiftKeys => shift' = FALSE
    <3> SUFFICES ASSUME NEW key \in ShiftKeys, output.data = key + RELEASE,
                        output.data \notin ShiftKeys
                 PROVE  shift' = FALSE
      BY DEF ScanCodes
    <3>1. output.data >= RELEASE /\ output.data - RELEASE = key
      BY DEF ShiftKeys, SC_LSHIFT_PRESS, SC_RSHIFT_PRESS, RELEASE
    <3> QED BY <1>2, <3>1 DEF translate_scancode
  <2>3. output.data \in Configs => shift' = shift
    <3> SUFFICES ASSUME output.data \in Configs PROVE shift' = shift
      OBVIOUS
    <3>1. output.data \notin ShiftKeys
      BY Codes
    <3>2. ~(output.data >= RELEASE)
      BY DEF Configs, BOOT_CONFIG, MOUSE_IRQ, RELEASE
    <3> QED BY <1>2, <3>1, <3>2 DEF translate_scancode
  <2>4. CASE output.data \in ShiftKeys
    BY <2>1, <2>4, Codes
  <2>5. CASE output.data \in ScanCodes \ ShiftKeys
    <3>1. output.data \in ScanCodes /\ (output.data \in ShiftKeys) = FALSE
      BY <2>5
    <3> QED BY <2>2, <2>5, <3>1, Zenon
  <2>6. CASE output.data \in Configs
    BY <2>3, <2>6, Codes
  <2> QED BY <1>3, <2>4, <2>5, <2>6
<1>5. LastShift' = LastShift
  BY <1>1, <1>2, <1>4 DEF LastShift, FromKeyboard
<1>6. TypeOK'
  <2>1. shift' \in BOOLEAN
    <3>1. shift \in BOOLEAN /\ (output.data \in ShiftKeys) \in BOOLEAN
      BY DEF Ps2Inv, TypeOK
    <3> QED BY <1>4, <3>1
  <2> QED BY <1>1, <1>2, <2>1 DEF Ps2Inv, TypeOK
<1>7. ByteInv'
  BY <1>1, <1>2 DEF Ps2Inv, ByteInv, FromKeyboard
<1>8. ShiftInv'
  BY <1>1, <1>5 DEF Ps2Inv, ShiftInv
<1>9. MouseInv' /\ IrqInv'
  BY <1>1, <1>2 DEF Ps2Inv, MouseInv, InStep, Settling, FromMouse, ReadAgain, IrqInv
<1> QED BY <1>6, <1>7, <1>8, <1>9 DEF Ps2Inv

\* The mouse's handler goes one byte further in the packet, or stays before it.
LEMMA HandlerSteps ==
  ASSUME TypeOK, mouse_irq_handler, output.aux
  PROVE  /\ ~output'.full
         /\ MOUSE_IRQ \in irq /\ irq' = irq \ {MOUSE_IRQ}
         /\ output' \in [full : BOOLEAN, aux : BOOLEAN, data : Byte]
         /\ mouse_cycle = 0 =>
              /\ mouse_cycle' = IF StartsPacket(output.data) THEN 1 ELSE 0
              /\ UNCHANGED <<mouse_bytes, mouse_x, mouse_y>>
         /\ mouse_cycle = 1 =>
              /\ mouse_cycle' = 2 /\ mouse_bytes' = [mouse_bytes EXCEPT ![1] = output.data]
              /\ UNCHANGED <<mouse_x, mouse_y>>
         /\ mouse_cycle = 2 =>
              /\ mouse_cycle' = 0 /\ mouse_bytes' = [mouse_bytes EXCEPT ![2] = output.data]
              /\ mouse_x' = Clamp(mouse_x + Signed(mouse_bytes[1]), mouse_max_x)
              /\ mouse_y' = Clamp(mouse_y - Signed(output.data), mouse_max_y)
         /\ settled' = IF settled = "packet" /\ wire = <<>> THEN "yes" ELSE settled
         /\ UNCHANGED <<held, keys, reporting, packet, wire, answer, config, init_pc, polled,
                        shift, overlap, stolen, misread>>
<1> mouse_byte
  BY DEF mouse_irq_handler
<1>1. output' \in [full : BOOLEAN, aux : BOOLEAN, data : Byte] /\ ~output'.full
  BY DEF mouse_byte, Taken, TypeOK
<1>2. /\ settled' = IF settled = "packet" /\ wire = <<>> THEN "yes" ELSE settled
      /\ MOUSE_IRQ \in irq /\ irq' = irq \ {MOUSE_IRQ}
  BY DEF mouse_irq_handler, mouse_byte
<1>3. UNCHANGED <<held, keys, reporting, packet, wire, answer, config, init_pc, polled, shift,
                  overlap, stolen, misread>>
  BY DEF mouse_irq_handler, device, keyboard, initVars
<1>4. CASE mouse_cycle = 0
  BY <1>1, <1>2, <1>3, <1>4 DEF mouse_byte
<1>5. CASE mouse_cycle = 1
  BY <1>1, <1>2, <1>3, <1>5 DEF mouse_byte
<1>6. CASE mouse_cycle = 2
  BY <1>1, <1>2, <1>3, <1>6 DEF mouse_byte
<1>7. mouse_cycle \in {0, 1, 2}
  BY DEF TypeOK
<1> QED BY <1>4, <1>5, <1>6, <1>7

\* The interrupt comes when the status no longer says whose byte it is.
LEMMA HandlerReturns ==
  ASSUME Ps2Inv, mouse_irq_handler, ~output.aux
  PROVE  Ps2Inv'
<1>1. /\ UNCHANGED <<held, keys, reporting, packet, wire, answer, output, config, init_pc, polled,
                     shift, overlap, mouse_cycle, mouse_bytes, mouse_x, mouse_y, stolen,
                     misread, settled>>
      /\ MOUSE_IRQ \in irq /\ irq' = irq \ {MOUSE_IRQ}
  BY DEF mouse_irq_handler, device, keyboard, mouse, initVars
<1>2. MOUSE_IRQ \notin irq' /\ (KBD_IRQ \in irq' <=> KBD_IRQ \in irq)
  BY <1>1 DEF KBD_IRQ, MOUSE_IRQ
<1>3. TypeOK'
  BY <1>1 DEF Ps2Inv, TypeOK
<1>4. ByteInv' /\ ShiftInv' /\ IrqInv'
  BY <1>1, <1>2 DEF Ps2Inv, ByteInv, ShiftInv, LastShift, FromKeyboard, IrqInv
<1>5. MouseInv'
  BY <1>1, <1>2 DEF Ps2Inv, MouseInv, InStep, Settling, FromMouse, ReadAgain
<1> QED BY <1>3, <1>4, <1>5 DEF Ps2Inv

\* The interrupt comes and the handler reads a byte: one that waits, or the one
\* that mouse_init has read.
LEMMA HandlerHolds ==
  ASSUME Ps2Inv, mouse_irq_handler, output.aux
  PROVE  Ps2Inv'
<1>1. UNCHANGED <<held, keys, reporting, packet, wire, answer, config, init_pc, polled, shift,
                  overlap, stolen, misread>>
  BY HandlerSteps DEF Ps2Inv
<1>2. /\ ~output'.full
      /\ MOUSE_IRQ \in irq /\ irq' = irq \ {MOUSE_IRQ}
      /\ output' \in [full : BOOLEAN, aux : BOOLEAN, data : Byte]
      /\ settled' = IF settled = "packet" /\ wire = <<>> THEN "yes" ELSE settled
  BY HandlerSteps DEF Ps2Inv
<1>3. (output.full => FromMouse) /\ ~FromMouse' /\ ~FromKeyboard /\ ~FromKeyboard'
  BY <1>2 DEF FromMouse, FromKeyboard, Ps2Inv, IrqInv
<1>4. mouse_cycle \in {0, 1, 2}
  BY DEF Ps2Inv, TypeOK
<1>5. mouse_cycle = 0 => /\ mouse_cycle' = IF StartsPacket(output.data) THEN 1 ELSE 0
                         /\ UNCHANGED <<mouse_bytes, mouse_x, mouse_y>>
  BY HandlerSteps DEF Ps2Inv
<1>6. mouse_cycle = 1 => /\ mouse_cycle' = 2 /\ mouse_bytes'[1] = output.data
                         /\ mouse_bytes' \in [{1, 2} -> Byte]
                         /\ UNCHANGED <<mouse_x, mouse_y>>
  BY HandlerSteps DEF Ps2Inv, TypeOK
<1>7. mouse_cycle = 2 => /\ mouse_cycle' = 0
                         /\ mouse_bytes' \in [{1, 2} -> Byte]
                         /\ mouse_x' \in 0 .. mouse_max_x /\ mouse_y' \in 0 .. mouse_max_y
  <2> SUFFICES ASSUME mouse_cycle = 2
               PROVE  /\ mouse_cycle' = 0 /\ mouse_bytes' \in [{1, 2} -> Byte]
                      /\ mouse_x' \in 0 .. mouse_max_x /\ mouse_y' \in 0 .. mouse_max_y
    OBVIOUS
  <2>1. /\ mouse_cycle' = 0 /\ mouse_bytes' = [mouse_bytes EXCEPT ![2] = output.data]
        /\ mouse_x' = Clamp(mouse_x + Signed(mouse_bytes[1]), mouse_max_x)
        /\ mouse_y' = Clamp(mouse_y - Signed(output.data), mouse_max_y)
    BY HandlerSteps DEF Ps2Inv
  <2>2. Signed(mouse_bytes[1]) \in Int /\ Signed(output.data) \in Int
    BY SignedByte DEF Ps2Inv, TypeOK
  <2>3. mouse_x + Signed(mouse_bytes[1]) \in Int /\ mouse_y - Signed(output.data) \in Int
    BY <2>2 DEF Ps2Inv, TypeOK
  <2>4. mouse_bytes' \in [{1, 2} -> Byte]
    BY <2>1 DEF Ps2Inv, TypeOK
  <2> QED BY <2>1, <2>3, <2>4, Clamped, Ps2Assumption
<1>8. TypeOK'
  <2>1. /\ mouse_cycle' \in 0 .. 2 /\ mouse_bytes' \in [{1, 2} -> Byte]
        /\ mouse_x' \in 0 .. mouse_max_x /\ mouse_y' \in 0 .. mouse_max_y
    BY <1>4, <1>5, <1>6, <1>7 DEF Ps2Inv, TypeOK
  <2>2. settled' \in {"no", "packet", "yes"}
    BY <1>2 DEF Ps2Inv, TypeOK
  <2> QED BY <1>1, <1>2, <2>1, <2>2 DEF Ps2Inv, TypeOK
<1>9. ByteInv' /\ ShiftInv' /\ IrqInv' /\ ReadAgain'
  BY <1>1, <1>2, <1>3 DEF Ps2Inv, ByteInv, ShiftInv, LastShift, IrqInv, FromKeyboard, ReadAgain
<1>10. ASSUME ~output.full PROVE MouseInv'
  <2>1. settled = "no" \/ (settled = "packet" /\ Quiet(packet) /\ wire = packet)
    BY <1>2, <1>10 DEF Ps2Inv, MouseInv, ReadAgain
  <2>2. Quiet(packet)' = Quiet(packet) /\ packet # <<>>
    BY <1>1, Packet DEF Quiet, Ps2Inv, TypeOK
  <2>3. settled' = settled /\ (settled = "packet" => Settling' /\ wire' # <<>>)
    BY <1>1, <1>2, <2>1, <2>2 DEF Settling
  <2> QED BY <1>1, <1>9, <2>1, <2>3 DEF Ps2Inv, MouseInv
<1>11. ASSUME output.full PROVE MouseInv'
  <2>0. FromMouse
    BY <1>3, <1>11
  <2> DEFINE a == packet[1] b == packet[2] c == packet[3]
  <2>1. packet = <<a, b, c>> /\ StartsPacket(a)
    BY Packet DEF Ps2Inv, TypeOK
  <2>a. Quiet(packet) => ~StartsPacket(b) /\ ~StartsPacket(c)
    BY DEF Quiet, StartsPacket
  <2> HIDE DEF a, b, c
  <2>2. /\ <<a, b, c>> # <<>> /\ <<b, c>> # <<>> /\ <<c>> # <<>>
        /\ <<a, b, c>> # <<b, c>> /\ <<a, b, c>> # <<c>> /\ <<b, c>> # <<c>>
    BY OnTheWire
  <2>3. InStep => InStep'
    <3> SUFFICES ASSUME InStep PROVE InStep'
      OBVIOUS
    <3>1. \/ wire = packet /\ mouse_cycle = 2
          \/ wire = <<b, c>> /\ output.data = a /\ mouse_cycle = 0
          \/ wire = <<c>> /\ output.data = b /\ mouse_cycle = 1
          \/ wire = <<>> /\ mouse_cycle = 2
      BY <1>3, <2>0 DEF InStep, a, b, c
    <3>2. \/ wire = packet /\ mouse_cycle' = 0
          \/ wire = <<b, c>> /\ mouse_cycle' = 1
          \/ wire = <<c>> /\ mouse_cycle' = 2 /\ mouse_bytes'[1] = b
          \/ wire = <<>> /\ mouse_cycle' = 0
      BY <1>5, <1>6, <1>7, <2>1, <3>1
    <3> QED BY <1>1, <1>3, <3>2 DEF InStep, b, c
  <2>4. Settling => IF wire = <<>> THEN InStep' ELSE InStep' \/ Settling'
    <3> SUFFICES ASSUME Settling
                 PROVE  IF wire = <<>> THEN InStep' ELSE InStep' \/ Settling'
      OBVIOUS
    <3>1. \/ Quiet(packet) /\ wire = packet
          \/ Quiet(packet) /\ wire = <<b, c>>
          \/ Quiet(packet) /\ wire = <<c>> /\ output.data = b
          \/ Quiet(packet) /\ wire = <<>> /\ output.data = c /\ mouse_cycle # 1
          \/ wire = packet /\ ~StartsPacket(output.data) /\ mouse_cycle # 1
      BY <1>3, <2>0 DEF Settling, b, c
    <3>2. \/ Quiet(packet) /\ wire = packet
          \/ Quiet(packet) /\ wire = <<b, c>>
          \/ Quiet(packet) /\ wire = <<c>> /\ mouse_cycle' # 1
          \/ wire = <<>> /\ mouse_cycle' = 0
          \/ wire = packet /\ mouse_cycle' = 0
      BY <1>4, <1>5, <1>6, <1>7, <2>a, <3>1
    <3>3. Quiet(packet)' = Quiet(packet)
      BY <1>1 DEF Quiet
    <3> QED BY <1>1, <1>3, <2>1, <2>2, <3>2, <3>3 DEF InStep, Settling, b, c
  <2>5. init_pc = "reset" => settled' = "no" /\ ~reporting
    BY <1>2 DEF Ps2Inv, MouseInv
  <2> QED BY <1>1, <1>2, <1>3, <1>9, <2>0, <2>3, <2>4, <2>5 DEF Ps2Inv, MouseInv
<1> QED BY <1>8, <1>9, <1>10, <1>11 DEF Ps2Inv

-----------------------------------------------------------------------------
(* mouse_init                                                              *)

LEMMA AskHolds ==
  ASSUME Ps2Inv, ~misread, mouse_init_ask
  PROVE  Ps2Inv'
<1>1. UNCHANGED <<held, keys, reporting, packet, wire, output, irq, config, polled, shift,
                  overlap, mouse_cycle, mouse_bytes, mouse_x, mouse_y, stolen, misread, settled>>
  BY DEF mouse_init_ask, keyboard, mouse
<1>2. init_pc' = "config" /\ answer' = Append(answer, config)
  BY DEF mouse_init_ask
<1>3. config \in Configs /\ config \in Byte
  BY DEF Ps2Inv, ByteInv, TypeOK
<1>4. TypeOK'
  BY <1>1, <1>2, <1>3 DEF Ps2Inv, TypeOK
<1>5. ByteInv'
  BY <1>1, <1>2, <1>3 DEF Ps2Inv, ByteInv, FromKeyboard
<1>6. ShiftInv'
  BY <1>1 DEF Ps2Inv, ShiftInv, LastShift, FromKeyboard
<1>7. MouseInv' /\ IrqInv'
  BY <1>1, <1>2 DEF Ps2Inv, MouseInv, InStep, Settling, FromMouse, ReadAgain, Quiet, IrqInv
<1> QED BY <1>4, <1>5, <1>6, <1>7 DEF Ps2Inv

LEMMA WaitHolds ==
  ASSUME Ps2Inv, mouse_wait
  PROVE  Ps2Inv'
<1>1. /\ UNCHANGED <<held, keys, reporting, packet, wire, answer, output, irq, config, init_pc,
                     shift, overlap, mouse_cycle, mouse_bytes, mouse_x, mouse_y, stolen,
                     misread, settled>>
      /\ polled' = TRUE
  BY DEF mouse_wait, device, keyboard, mouse
<1>2. TypeOK'
  BY <1>1 DEF Ps2Inv, TypeOK
<1>3. ByteInv' /\ ShiftInv'
  BY <1>1 DEF Ps2Inv, ByteInv, ShiftInv, LastShift, FromKeyboard
<1>4. MouseInv' /\ IrqInv'
  BY <1>1, MouseUnseen DEF Ps2Inv, mouse
<1> QED BY <1>2, <1>3, <1>4 DEF Ps2Inv

\* A byte that mouse_init reads is lost to the keyboard's handler only when
\* `stolen` says so: its interrupt comes, or it is the answer mouse_init waits
\* for, which is no scancode.
LEMMA ReadByInit ==
  ASSUME Ps2Inv, ~misread, mouse_read, UNCHANGED <<keys, held, shift, overlap>>
  PROVE  /\ ~FromMouse' /\ stolen' \in BOOLEAN /\ polled' \in BOOLEAN
         /\ output' \in [full : BOOLEAN, aux : BOOLEAN, data : Byte]
         /\ irq' \subseteq {KBD_IRQ, MOUSE_IRQ} /\ irq' \subseteq irq
         /\ FromKeyboard' => output'.data \in ScanCodes \cup Configs
         /\ ShiftInv' /\ IrqInv'
<1>1. /\ ~output'.full /\ output' \in [full : BOOLEAN, aux : BOOLEAN, data : Byte]
      /\ output'.data = output.data /\ (output'.aux => output.aux)
  BY DEF mouse_read, Taken, Ps2Inv, TypeOK
<1>2. /\ stolen' \in BOOLEAN /\ polled' \in BOOLEAN
      /\ irq' \subseteq {KBD_IRQ, MOUSE_IRQ} /\ irq' \subseteq irq
  BY DEF mouse_read, Ps2Inv, TypeOK
<1>3. irq' = irq \/ (output.full /\ irq' = {})
  BY DEF mouse_read
<1>4. FromKeyboard' => FromKeyboard
  BY <1>1, <1>2 DEF FromKeyboard
<1>5. ~stolen' => ~stolen /\ LastShift' = LastShift
  <2> SUFFICES ASSUME ~stolen' PROVE ~stolen /\ LastShift' = LastShift
    OBVIOUS
  <2>1. ~stolen
    BY DEF mouse_read
  <2>2. CASE FromKeyboard'
    BY <1>1, <1>4, <2>1, <2>2 DEF LastShift
  <2>3. CASE ~FromKeyboard' /\ output.full /\ ~output.aux
    <3>1. irq' = {}
      <4>1. KBD_IRQ \notin irq' /\ MOUSE_IRQ \notin irq
        BY <2>3 DEF FromKeyboard, Ps2Inv, IrqInv
      <4> QED BY <1>2, <4>1
    <3>2. output.data = config
      BY <2>3, <3>1 DEF mouse_read
    <3>3. output.data \notin ScanCodes
      BY <3>2, Codes DEF Ps2Inv, ByteInv
    <3> QED BY <1>1, <2>1, <2>3, <3>3 DEF LastShift
  <2>4. CASE ~FromKeyboard' /\ ~(output.full /\ ~output.aux)
    <3>1. ~FromKeyboard
      BY <1>3, <2>4 DEF FromKeyboard, Ps2Inv, IrqInv
    <3> QED BY <2>1, <2>4, <3>1 DEF LastShift
  <2> QED BY <2>2, <2>3, <2>4
<1>6. ShiftInv'
  BY <1>5 DEF Ps2Inv, ShiftInv
<1>7. IrqInv'
  BY <1>1, <1>2 DEF Ps2Inv, IrqInv
<1> QED BY <1>1, <1>2, <1>4, <1>6, <1>7 DEF FromMouse, Ps2Inv, ByteInv

LEMMA ConfigureHolds ==
  ASSUME Ps2Inv, ~misread, mouse_init_configure
  PROVE  Ps2Inv'
<1>1. UNCHANGED <<held, keys, packet, answer, shift, overlap, mouse_cycle, mouse_bytes,
                  mouse_x, mouse_y>>
  BY DEF mouse_init_configure, keyboard, mouse
<1>2. /\ config' = EnableMouse(output.data)
      /\ misread' = (misread \/ output.data # config)
      /\ mouse_read /\ init_pc' = "reset"
      /\ reporting' = FALSE /\ wire' = <<ACK>> /\ settled' = "no"
  BY DEF mouse_init_configure
<1>3. /\ ~FromMouse' /\ stolen' \in BOOLEAN /\ polled' \in BOOLEAN
      /\ output' \in [full : BOOLEAN, aux : BOOLEAN, data : Byte]
      /\ irq' \subseteq {KBD_IRQ, MOUSE_IRQ} /\ irq' \subseteq irq
      /\ FromKeyboard' => output'.data \in ScanCodes \cup Configs
      /\ ShiftInv' /\ IrqInv'
  BY <1>1, <1>2, ReadByInit
<1>4. config' \in Byte /\ (~misread' => config' \in Configs)
  BY <1>2, EnabledMouse DEF Ps2Inv, ByteInv, TypeOK
<1>5. TypeOK'
  <2>1. wire' \in Seq(Byte)
    BY <1>2 DEF ACK, Byte
  <2>2. misread' \in BOOLEAN
    BY <1>2 DEF Ps2Inv, TypeOK
  <2> QED BY <1>1, <1>2, <1>3, <1>4, <2>1, <2>2 DEF Ps2Inv, TypeOK
<1>6. ByteInv'
  BY <1>1, <1>3, <1>4 DEF Ps2Inv, ByteInv
<1>7. MouseInv'
  BY <1>2 DEF MouseInv, ReadAgain
<1> QED BY <1>3, <1>5, <1>6, <1>7 DEF Ps2Inv

LEMMA EnableHolds ==
  ASSUME Ps2Inv, ~misread, mouse_init_enable
  PROVE  Ps2Inv'
<1>1. UNCHANGED <<held, keys, packet, answer, config, shift, overlap, mouse_cycle,
                  mouse_bytes, mouse_x, mouse_y, misread, settled>>
  BY DEF mouse_init_enable, keyboard, mouse
<1>2. /\ init_pc = "reset" /\ init_pc' = "enable" /\ mouse_read
      /\ reporting' = TRUE /\ wire' = Append(wire, ACK)
  BY DEF mouse_init_enable
<1>3. /\ ~FromMouse' /\ stolen' \in BOOLEAN /\ polled' \in BOOLEAN
      /\ output' \in [full : BOOLEAN, aux : BOOLEAN, data : Byte]
      /\ irq' \subseteq {KBD_IRQ, MOUSE_IRQ} /\ irq' \subseteq irq
      /\ FromKeyboard' => output'.data \in ScanCodes \cup Configs
      /\ ShiftInv' /\ IrqInv'
  BY <1>1, <1>2, ReadByInit
<1>4. TypeOK'
  <2>1. wire' \in Seq(Byte)
    BY <1>2 DEF ACK, Byte, Ps2Inv, TypeOK
  <2> QED BY <1>1, <1>2, <1>3, <2>1 DEF Ps2Inv, TypeOK
<1>5. ByteInv'
  BY <1>1, <1>3 DEF Ps2Inv, ByteInv
<1>6. MouseInv'
  BY <1>1, <1>2 DEF Ps2Inv, MouseInv, ReadAgain
<1> QED BY <1>3, <1>4, <1>5, <1>6 DEF Ps2Inv

LEMMA DoneHolds ==
  ASSUME Ps2Inv, ~misread, mouse_init_done
  PROVE  Ps2Inv'
<1>1. UNCHANGED <<held, keys, reporting, packet, wire, answer, config, shift, overlap,
                  mouse_cycle, mouse_bytes, mouse_x, mouse_y, misread>>
  BY DEF mouse_init_done, device, keyboard, mouse
<1>2. /\ init_pc' = "idle" /\ mouse_read
      /\ settled' = IF FromMouse THEN "no" ELSE settled
  BY DEF mouse_init_done, FromMouse
<1>3. /\ ~FromMouse' /\ stolen' \in BOOLEAN /\ polled' \in BOOLEAN
      /\ output' \in [full : BOOLEAN, aux : BOOLEAN, data : Byte]
      /\ irq' \subseteq {KBD_IRQ, MOUSE_IRQ} /\ irq' \subseteq irq
      /\ FromKeyboard' => output'.data \in ScanCodes \cup Configs
      /\ ShiftInv' /\ IrqInv'
  BY <1>1, <1>2, ReadByInit
<1>4. TypeOK'
  <2>1. settled' \in {"no", "packet", "yes"}
    BY <1>2 DEF Ps2Inv, TypeOK
  <2> QED BY <1>1, <1>2, <1>3, <2>1 DEF Ps2Inv, TypeOK
<1>5. ByteInv'
  BY <1>1, <1>3 DEF Ps2Inv, ByteInv
<1>6. MouseInv'
  <2>1. ~FromMouse => (InStep => InStep') /\ (Settling => Settling')
    <3> SUFFICES ASSUME ~FromMouse PROVE (InStep => InStep') /\ (Settling => Settling')
      OBVIOUS
    <3>1. InStep => InStep'
      BY <1>1, <1>3 DEF InStep
    <3>2. Settling => Settling'
      BY <1>1, <1>3 DEF Settling
    <3> QED BY <3>1, <3>2
  <2>2. ReadAgain'
    <3>1. MOUSE_IRQ \in irq' => MOUSE_IRQ \in irq
      BY <1>3
    <3>2. MOUSE_IRQ \in irq' /\ ~FromMouse => ~output.full
      BY <3>1 DEF FromMouse, Ps2Inv, IrqInv
    <3>3. Quiet(packet)' = Quiet(packet)
      BY <1>1 DEF Quiet
    <3> QED BY <1>1, <1>2, <3>1, <3>2, <3>3 DEF Ps2Inv, MouseInv, ReadAgain
  <2> QED BY <1>1, <1>2, <2>1, <2>2 DEF Ps2Inv, MouseInv
<1> QED BY <1>3, <1>4, <1>5, <1>6 DEF Ps2Inv

-----------------------------------------------------------------------------
(* The theorems                                                            *)

LEMMA NextHolds == Ps2Inv /\ [Next]_vars => Ps2Inv'
<1> SUFFICES ASSUME Ps2Inv, [Next]_vars PROVE Ps2Inv'
  OBVIOUS
<1>1. ASSUME NEW key \in ShiftKeys, Press(key) PROVE Ps2Inv'
  BY <1>1, PressHolds
<1>2. ASSUME NEW key \in ShiftKeys, Release(key) PROVE Ps2Inv'
  BY <1>2, ReleaseHolds
<1>3. ASSUME NEW p \in Packets, Move(p) PROVE Ps2Inv'
  BY <1>3, MoveHolds
<1>4. CASE Transfer
  BY <1>4, TransferHolds
<1>5. CASE keyboard_irq
  BY <1>5, KeyboardHolds
<1>6. CASE mouse_irq_handler
  BY <1>6, HandlerHolds, HandlerReturns
<1>7. CASE ~misread /\ mouse_init
  BY <1>7, AskHolds, WaitHolds, ConfigureHolds, EnableHolds, DoneHolds DEF mouse_init
<1>8. CASE UNCHANGED vars
  <2> USE <1>8 DEF vars, device, keyboard, mouse, initVars
  <2>1. TypeOK' /\ MouseInv' /\ IrqInv'
    BY MouseUnseen DEF Ps2Inv, TypeOK
  <2>2. ByteInv' /\ ShiftInv'
    BY DEF Ps2Inv, ByteInv, ShiftInv, LastShift, FromKeyboard
  <2> QED BY <2>1, <2>2 DEF Ps2Inv
<1> QED BY <1>1, <1>2, <1>3, <1>4, <1>5, <1>6, <1>7, <1>8 DEF Next, Environment

\* The invariant holds of every state of keyboard, mouse and controller, for
\* every set of packets and every size of the screen.
THEOREM Ps2Invariance == Spec => []Ps2Inv
<1>1. Init => Ps2Inv
  BY InitHolds
<1>2. Ps2Inv /\ [Next]_vars => Ps2Inv'
  BY NextHolds
<1> QED BY <1>1, <1>2, PTL DEF Spec

\* Every variable of the two handlers keeps its type: the position stays on
\* the screen, the packet counter below three.
THEOREM TypeCorrect == Spec => []TypeOK
<1>1. Ps2Inv => TypeOK
  BY DEF Ps2Inv
<1> QED BY <1>1, Ps2Invariance, PTL

\* translate_scancode: shift says whether a key is down once the scancodes have
\* arrived, when mouse_init took none of them.
THEOREM ShiftCorrect == Spec => []ShiftFollowsKeys
<1>1. Ps2Inv => ShiftFollowsKeys
  <2> SUFFICES ASSUME Ps2Inv, keys = <<>>, ~(output.full /\ ~output.aux),
                      KBD_IRQ \notin irq, ~stolen
               PROVE  /\ shift => held # {}
                      /\ ~overlap => (shift <=> held # {})
    BY DEF ShiftFollowsKeys
  <2>1. LastShift = shift
    BY DEF LastShift, FromKeyboard
  <2> QED BY <2>1 DEF Ps2Inv, ShiftInv
<1> QED BY <1>1, Ps2Invariance, PTL

\* mouse_irq_handler: once it has found the packets, the position follows the
\* mouse and stops at the edges.
THEOREM MouseCorrect == Spec => FollowsMouse
<1> DEFINE Follows ==
      settled = "yes" /\ ~MouseIdle /\ MouseIdle' /\ init_pc' = init_pc =>
        /\ mouse_x' = Within(mouse_x + Offset(packet[2]), mouse_max_x)
        /\ mouse_y' = Within(mouse_y - Offset(packet[3]), mouse_max_y)
<1>1. Ps2Inv /\ [Next]_vars => [Follows]_vars
  <2> SUFFICES ASSUME Ps2Inv, Next,
                      settled = "yes", ~MouseIdle, MouseIdle', init_pc' = init_pc
               PROVE  /\ mouse_x' = Within(mouse_x + Offset(packet[2]), mouse_max_x)
                      /\ mouse_y' = Within(mouse_y - Offset(packet[3]), mouse_max_y)
    OBVIOUS
  <2>1. mouse_irq_handler /\ output.full /\ output.aux
    <3>0. mouse_irq_handler => output.full /\ output.aux
      <4>1. ASSUME mouse_irq_handler, ~output.aux PROVE FALSE
        BY <4>1 DEF mouse_irq_handler, device, MouseIdle
      <4>2. ASSUME mouse_irq_handler, output.aux, ~output.full PROVE FALSE
        BY <4>2, HandlerSteps DEF Ps2Inv, MouseInv, ReadAgain
      <4> QED BY <4>1, <4>2 DEF Ps2Inv, TypeOK
    <3>1. ASSUME NEW key \in ShiftKeys, Press(key) \/ Release(key) PROVE FALSE
      BY <3>1 DEF Press, Release, MouseIdle
    <3>2. ASSUME NEW p \in Packets, Move(p) PROVE FALSE
      BY <3>2, Packet DEF Move, MouseIdle
    <3>3. ~Transfer
      BY DEF Transfer, Put, MouseIdle
    <3>4. ~keyboard_irq
      BY DEF keyboard_irq, device, Taken, MouseIdle, Ps2Inv, TypeOK, IrqInv
    <3>5. ~mouse_init
      BY DEF mouse_init, mouse_init_ask, mouse_init_configure, mouse_init_enable,
             mouse_init_done, mouse_wait, device, MouseIdle
    <3> QED BY <3>0, <3>1, <3>2, <3>3, <3>4, <3>5 DEF Next, Environment
  <2>2. wire = <<>> /\ FromMouse
    BY <2>1, HandlerSteps DEF MouseIdle, FromMouse, Ps2Inv
  <2> DEFINE b == packet[2] c == packet[3]
  <2>3. packet = <<packet[1], b, c>> /\ packet # <<>> /\ b \in Byte /\ c \in Byte
    BY Packet DEF Ps2Inv, TypeOK
  <2>4. <<b, c>> # <<>> /\ <<c>> # <<>>
    BY OnTheWire
  <2>5. output.data = c /\ mouse_cycle = 2 /\ mouse_bytes[1] = b
    BY <2>2, <2>3, <2>4 DEF Ps2Inv, MouseInv, InStep
  <2>6. /\ mouse_x' = Clamp(mouse_x + Signed(b), mouse_max_x)
        /\ mouse_y' = Clamp(mouse_y - Signed(c), mouse_max_y)
    BY <2>1, <2>5, HandlerSteps DEF Ps2Inv
  <2> HIDE DEF b, c
  <2>7. Signed(b) \in Int /\ Signed(b) = Offset(b) /\ Signed(c) \in Int /\ Signed(c) = Offset(c)
    BY <2>3, SignedByte
  <2>8. mouse_x + Signed(b) \in Int /\ mouse_y - Signed(c) \in Int
    BY <2>7 DEF Ps2Inv, TypeOK
  <2>9. /\ mouse_x' = Within(mouse_x + Offset(b), mouse_max_x)
        /\ mouse_y' = Within(mouse_y - Offset(c), mouse_max_y)
    BY <2>6, <2>7, <2>8, Clamped, Ps2Assumption
  <2> QED BY <2>9 DEF b, c
<1>2. Spec => [][Next]_vars
  BY DEF Spec
<1> QED BY <1>1, <1>2, Ps2Invariance, PTL DEF FollowsMouse

-----------------------------------------------------------------------------
(* Texts                                                                   *)

\* A text of one set of characters is a text of a larger one.
LEMMA Wider ==
  ASSUME NEW S, NEW U, S \subseteq U, NEW s \in Seq(S)
  PROVE  s \in Seq(U)
<1>1. Len(s) \in Nat /\ DOMAIN s = 1 .. Len(s)
  BY LenProperties
<1>2. s \in [1 .. Len(s) -> U]
  <2>1. \A i \in 1 .. Len(s) : s[i] \in U
    BY ElementOfSeq
  <2>2. s = [i \in 1 .. Len(s) |-> s[i]]
    BY <1>1
  <2> QED BY <2>1, <2>2
<1> QED BY <1>1, <1>2, IsASeq

\* A character in front
LEMMA FrontFacts ==
  ASSUME NEW S, NEW c \in S, NEW s \in Seq(S)
  PROVE  LET t == <<c>> \o s
         IN  /\ t \in Seq(S) /\ Len(t) = Len(s) + 1 /\ t[1] = c /\ Tail(t) = s
             /\ \A m \in 1 .. Len(s) : t[m + 1] = s[m]
<1> DEFINE u == <<c>>
           t == u \o s
           n == Len(s)
<1>1. n \in Nat /\ u \in Seq(S) /\ Len(u) = 1 /\ u[1] = c
  BY LenProperties
<1> HIDE DEF u, n
<1>2. /\ t \in Seq(S) /\ Len(t) = 1 + n
      /\ \A m \in 1 .. 1 + n : t[m] = IF m <= 1 THEN u[m] ELSE s[m - 1]
  <2>1. /\ u \o s \in Seq(S) /\ Len(u \o s) = Len(u) + Len(s)
        /\ \A m \in 1 .. Len(u) + Len(s) :
             (u \o s)[m] = IF m <= Len(u) THEN u[m] ELSE s[m - Len(u)]
    BY <1>1, ConcatProperties
  <2> QED BY <1>1, <2>1 DEF n
<1> HIDE DEF t
<1>3. t \in Seq(S) /\ Len(t) = n + 1 /\ 1 \in 1 .. 1 + n /\ t[1] = c
  BY <1>1, <1>2
<1>4. \A m \in 1 .. n : t[m + 1] = s[m]
  <2>1. \A m \in 1 .. n : m + 1 \in 1 .. 1 + n /\ ~(m + 1 <= 1) /\ (m + 1) - 1 = m
    BY <1>1
  <2> QED BY <1>2, <2>1
<1>5. Tail(t) = s
  <2>1. t # <<>>
    BY <1>1, <1>3
  <2> DEFINE r == Tail(t)
  <2>2. r \in Seq(S) /\ Len(r) = Len(t) - 1 /\ \A m \in 1 .. Len(r) : r[m] = t[m + 1]
    BY <1>3, <2>1, HeadTailProperties
  <2> HIDE DEF r
  <2>3. Len(r) = n
    BY <1>1, <1>3, <2>2
  <2>4. \A m \in 1 .. Len(r) : r[m] = s[m]
    BY <1>4, <2>2, <2>3
  <2>5. r = s
    BY <2>2, <2>3, <2>4, SeqEqual DEF n
  <2> QED BY <2>5 DEF r
<1> QED BY <1>3, <1>4, <1>5 DEF t, u, n

\* Turned around, the first is the last.
LEMMA ReverseFacts ==
  ASSUME NEW S, NEW s \in Seq(S)
  PROVE  /\ Reverse(s) \in Seq(S) /\ Len(Reverse(s)) = Len(s)
         /\ s = <<>> => Reverse(s) = <<>>
         /\ \A c \in S : /\ Reverse(<<c>> \o s) = Append(Reverse(s), c)
                         /\ Reverse(Append(s, c)) = <<c>> \o Reverse(s)
<1> DEFINE n == Len(s)
           r == Reverse(s)
<1>1. n \in Nat /\ \A i \in 1 .. n : s[i] \in S
  BY LenProperties, ElementOfSeq
<1>2. r = [i \in 1 .. n |-> s[n - i + 1]]
  BY DEF Reverse
<1>3. \A i \in 1 .. n : n - i + 1 \in 1 .. n
  BY <1>1
<1> HIDE DEF n, r
<1>4. r \in Seq(S) /\ Len(r) = n
  <2>1. r \in [1 .. n -> S]
    BY <1>1, <1>2, <1>3
  <2> QED BY <1>1, <2>1, IsASeq
<1>5. \A i \in 1 .. n : r[i] = s[n - i + 1]
  BY <1>2
<1>6. s = <<>> => r = <<>>
  BY <1>4, EmptySeq DEF n
<1>7. ASSUME NEW c \in S
      PROVE  Reverse(<<c>> \o s) = Append(r, c) /\ Reverse(Append(s, c)) = <<c>> \o r
  <2> DEFINE a == <<c>> \o s
             b == Append(s, c)
             p == Append(r, c)
             q == <<c>> \o r
  <2>1. <<c>> \in Seq(S) /\ Len(<<c>>) = 1 /\ <<c>>[1] = c
    OBVIOUS
  <2>2. /\ a \in Seq(S) /\ Len(a) = n + 1 /\ a[1] = c
        /\ \A i \in 1 .. n : a[i + 1] = s[i]
    <3> DEFINE u == <<c>>
    <3>1. u \in Seq(S) /\ Len(u) = 1 /\ u[1] = c
      OBVIOUS
    <3> HIDE DEF u
    <3>2. /\ u \o s \in Seq(S) /\ Len(u \o s) = Len(u) + Len(s)
          /\ \A i \in 1 .. Len(u) + Len(s) :
               (u \o s)[i] = IF i <= Len(u) THEN u[i] ELSE s[i - Len(u)]
      BY <3>1, ConcatProperties
    <3>3. 1 \in 1 .. 1 + n
      BY <1>1
    <3>4. \A i \in 1 .. n : i + 1 \in 1 .. 1 + n /\ ~(i + 1 <= 1) /\ (i + 1) - 1 = i
      BY <1>1
    <3>5. 1 + n = n + 1
      BY <1>1
    <3>6. (u \o s)[1] = c
      BY <3>1, <3>2, <3>3 DEF n
    <3>7. \A i \in 1 .. n : (u \o s)[i + 1] = s[i]
      BY <3>1, <3>2, <3>4 DEF n
    <3> QED BY <3>1, <3>2, <3>5, <3>6, <3>7 DEF u, n
  <2>3. /\ b \in Seq(S) /\ Len(b) = n + 1 /\ b[n + 1] = c
        /\ \A i \in 1 .. n : b[i] = s[i]
    BY AppendProperties DEF n
  <2>4. /\ p \in Seq(S) /\ Len(p) = n + 1 /\ p[n + 1] = c
        /\ \A i \in 1 .. n : p[i] = r[i]
    BY <1>4, AppendProperties
  <2>5. /\ q \in Seq(S) /\ Len(q) = n + 1 /\ q[1] = c
        /\ \A i \in 1 .. n : q[i + 1] = r[i]
    <3> DEFINE u == <<c>>
    <3>1. u \in Seq(S) /\ Len(u) = 1 /\ u[1] = c
      OBVIOUS
    <3> HIDE DEF u
    <3>2. /\ u \o r \in Seq(S) /\ Len(u \o r) = Len(u) + Len(r)
          /\ \A i \in 1 .. Len(u) + Len(r) :
               (u \o r)[i] = IF i <= Len(u) THEN u[i] ELSE r[i - Len(u)]
      BY <1>4, <3>1, ConcatProperties
    <3>3. 1 \in 1 .. 1 + n
      BY <1>1
    <3>4. \A i \in 1 .. n : i + 1 \in 1 .. 1 + n /\ ~(i + 1 <= 1) /\ (i + 1) - 1 = i
      BY <1>1
    <3>5. 1 + n = n + 1
      BY <1>1
    <3>6. (u \o r)[1] = c
      BY <1>4, <3>1, <3>2, <3>3
    <3>7. \A i \in 1 .. n : (u \o r)[i + 1] = r[i]
      BY <1>4, <3>1, <3>2, <3>4
    <3> QED BY <1>4, <3>1, <3>2, <3>5, <3>6, <3>7 DEF u
  <2> HIDE DEF a, b, p, q
  <2>6. /\ Reverse(a) = [i \in 1 .. n + 1 |-> a[(n + 1) - i + 1]]
        /\ Reverse(b) = [i \in 1 .. n + 1 |-> b[(n + 1) - i + 1]]
    BY <2>2, <2>3 DEF Reverse
  <2>7. p = [i \in 1 .. n + 1 |-> p[i]] /\ q = [i \in 1 .. n + 1 |-> q[i]]
    <3>1. DOMAIN p = 1 .. n + 1 /\ DOMAIN q = 1 .. n + 1
      BY <2>4, <2>5, LenProperties
    <3> QED BY <2>4, <2>5, <3>1
  <2>8. ASSUME NEW i \in 1 .. n + 1 PROVE a[(n + 1) - i + 1] = p[i]
    <3>1. CASE i = n + 1
      <4>1. (n + 1) - i + 1 = 1
        BY <1>1, <3>1
      <4> QED BY <2>2, <2>4, <3>1, <4>1
    <3>2. CASE i # n + 1
      <4>1. i \in 1 .. n /\ n - i + 1 \in 1 .. n /\ (n + 1) - i + 1 = (n - i + 1) + 1
        BY <1>1, <3>2
      <4>2. a[(n - i + 1) + 1] = s[n - i + 1]
        BY <2>2, <4>1
      <4> QED BY <1>5, <2>4, <4>1, <4>2
    <3> QED BY <3>1, <3>2
  <2>9. ASSUME NEW i \in 1 .. n + 1 PROVE b[(n + 1) - i + 1] = q[i]
    <3>1. CASE i = 1
      <4>1. (n + 1) - i + 1 = n + 1
        BY <1>1, <3>1
      <4> QED BY <2>3, <2>5, <3>1, <4>1
    <3>2. CASE i # 1
      <4>1. /\ i - 1 \in 1 .. n /\ n - (i - 1) + 1 \in 1 .. n /\ (i - 1) + 1 = i
            /\ (n + 1) - i + 1 = n - (i - 1) + 1
        BY <1>1, <3>2
      <4>2. q[(i - 1) + 1] = s[n - (i - 1) + 1]
        BY <1>5, <2>5, <4>1
      <4> QED BY <2>3, <4>1, <4>2
    <3> QED BY <3>1, <3>2
  <2>10. Reverse(a) = p
    BY <2>6, <2>7, <2>8
  <2>11. Reverse(b) = q
    BY <2>6, <2>7, <2>9
  <2> QED BY <2>10, <2>11 DEF a, b, p, q
<1> QED BY <1>4, <1>6, <1>7 DEF r, n

-----------------------------------------------------------------------------
(* Searches                                                                *)

\* The text t stands in s from i on.
Occurs(t, s, i) ==
  i + Len(t) - 1 <= Len(s) /\ \A j \in 1 .. Len(t) : s[i + j - 1] = t[j]

\* The first n characters of t stand in s from i on just when these are equal.
LEMMA SamePiece ==
  ASSUME NEW S, NEW s \in Seq(S), NEW t \in Seq(S),
         NEW i \in Nat \ {0}, NEW n \in 0 .. Len(t), i + n - 1 <= Len(s)
  PROVE  SubSeq(s, i, i + n - 1) = SubSeq(t, 1, n)
           <=> \A j \in 1 .. n : s[i + j - 1] = t[j]
<1> DEFINE p == SubSeq(s, i, i + n - 1)
           q == SubSeq(t, 1, n)
<1>1. Len(s) \in Nat /\ Len(t) \in Nat /\ n \in Nat /\ i + n - 1 \in Int
  BY LenProperties
<1>2. /\ \A j \in i .. i + n - 1 : s[j] \in S
      /\ \A j \in 1 .. n : t[j] \in S
  <2>1. \A j \in i .. i + n - 1 : j \in 1 .. Len(s)
    BY <1>1
  <2>2. \A j \in 1 .. n : j \in 1 .. Len(t)
    BY <1>1
  <2> QED BY <2>1, <2>2, ElementOfSeq
<1>3. /\ p \in Seq(S) /\ Len(p) = n
      /\ \A j \in 1 .. n : p[j] = s[i + j - 1]
  <2> DEFINE m == i + n - 1
  <2>1. m \in Int /\ m - i + 1 = n /\ \A j \in i .. m : s[j] \in S
    BY <1>1, <1>2
  <2> HIDE DEF m
  <2> DEFINE r == SubSeq(s, i, m)
  <2>2. /\ r \in Seq(S) /\ Len(r) = IF i <= m THEN m - i + 1 ELSE 0
        /\ \A j \in 1 .. m - i + 1 : r[j] = s[i + j - 1]
    BY <2>1, SubSeqProperties
  <2> HIDE DEF r
  <2>3. r \in Seq(S) /\ Len(r) = n /\ \A j \in 1 .. n : r[j] = s[i + j - 1]
    BY <1>1, <2>1, <2>2
  <2> QED BY <2>3 DEF r, m
<1>4. /\ q \in Seq(S) /\ Len(q) = n
      /\ \A j \in 1 .. n : q[j] = t[j]
  <2> DEFINE r == SubSeq(t, 1, n)
  <2>1. /\ r \in Seq(S) /\ Len(r) = IF 1 <= n THEN n - 1 + 1 ELSE 0
        /\ \A j \in 1 .. n - 1 + 1 : r[j] = t[1 + j - 1]
    BY <1>1, <1>2, SubSeqProperties
  <2> HIDE DEF r
  <2>2. r \in Seq(S) /\ Len(r) = n /\ \A j \in 1 .. n : r[j] = t[j]
    BY <1>1, <2>1
  <2> QED BY <2>2 DEF r
<1> HIDE DEF p, q
<1>5. p = q <=> \A j \in 1 .. n : s[i + j - 1] = t[j]
  <2>1. ASSUME \A j \in 1 .. n : s[i + j - 1] = t[j] PROVE p = q
    <3>1. \A j \in 1 .. Len(p) : p[j] = q[j]
      BY <1>3, <1>4, <2>1
    <3> QED BY <1>3, <1>4, <3>1, SeqEqual
  <2>2. ASSUME p = q PROVE \A j \in 1 .. n : s[i + j - 1] = t[j]
    BY <1>3, <1>4, <2>2
  <2> QED BY <2>1, <2>2
<1> QED BY <1>5 DEF p, q

\* The byte behind a text is the terminator, and none of its own is.
LEMMA Bytes ==
  ASSUME NEW s \in Seq(DOMAIN Code), NEW k \in Nat \ {0}
  PROVE  /\ ByteAt(s, k) \in Nat
         /\ ByteAt(s, k) # 0 <=> k <= Len(s)
         /\ k <= Len(s) => s[k] \in DOMAIN Code /\ ByteAt(s, k) = Code[s[k]]
<1>1. Len(s) \in Nat /\ DOMAIN s = 1 .. Len(s)
  BY LenProperties
<1>2. \A c \in DOMAIN Code : Code[c] \in Nat \ {0}
  BY TextAssumption
<1>3. CASE k <= Len(s)
  <2>1. k \in DOMAIN s /\ s[k] \in DOMAIN Code
    BY <1>1, <1>3, ElementOfSeq
  <2> QED BY <1>2, <1>3, <2>1 DEF ByteAt
<1>4. CASE ~(k <= Len(s))
  <2>1. k \notin DOMAIN s
    BY <1>1, <1>4
  <2> QED BY <1>4, <2>1 DEF ByteAt
<1> QED BY <1>3, <1>4

\* Bytes are equal where both texts have the same character, or have ended.
LEMMA SameByte ==
  ASSUME NEW s \in Seq(DOMAIN Code), NEW t \in Seq(DOMAIN Code),
         NEW k \in Nat \ {0}, NEW m \in Nat \ {0}, k <= Len(s)
  PROVE  ByteAt(s, k) = ByteAt(t, m) <=> m <= Len(t) /\ s[k] = t[m]
<1>1. /\ ByteAt(s, k) # 0 /\ s[k] \in DOMAIN Code /\ ByteAt(s, k) = Code[s[k]]
      /\ ByteAt(t, m) # 0 <=> m <= Len(t)
      /\ m <= Len(t) => t[m] \in DOMAIN Code /\ ByteAt(t, m) = Code[t[m]]
  BY Bytes
<1>2. \A c, d \in DOMAIN Code : Code[c] = Code[d] => c = d
  BY TextAssumption
<1> QED BY <1>1, <1>2

\* The inner loop of strstr reaches the end of the needle just where it stands.
LEMMA MatchEndFacts ==
  ASSUME NEW s \in Seq(DOMAIN Code), NEW t \in Seq(DOMAIN Code), NEW i \in 1 .. Len(s) + 1
  PROVE  /\ MatchEnd(s, t, i) \in 1 .. Len(t) + 1
         /\ MatchEnd(s, t, i) = Len(t) + 1 <=> Occurs(t, s, i)
<1> DEFINE l == Len(t)
           go == {n \in 1 .. l : i + n - 1 <= Len(s) /\ s[i + n - 1] = t[n]}
           out == [n \in 1 .. l + 1 |-> n]
           Goes(n) == LET h == ByteAt(s, i + n - 1)
                      IN  h # 0 /\ ByteAt(t, n) # 0 /\ h = ByteAt(t, n)
           P(f) == f = [n \in 1 .. l + 1 |-> IF Goes(n) THEN f[n + 1] ELSE n]
           match == CHOOSE f : P(f)
<1>1. Len(s) \in Nat /\ l \in Nat /\ i \in Nat \ {0}
  BY LenProperties
<1>2. ASSUME NEW n \in 1 .. l + 1 PROVE Goes(n) <=> n \in go
  <2>1. i + n - 1 \in Nat \ {0} /\ n \in Nat \ {0}
    BY <1>1
  <2>2. /\ ByteAt(s, i + n - 1) # 0 <=> i + n - 1 <= Len(s)
        /\ ByteAt(t, n) # 0 <=> n <= l
    BY <2>1, Bytes
  <2>3. i + n - 1 <= Len(s) =>
          (ByteAt(s, i + n - 1) = ByteAt(t, n) <=> n <= l /\ s[i + n - 1] = t[n])
    BY <2>1, SameByte
  <2> QED BY <1>1, <2>2, <2>3
<1>3. ASSUME NEW f PROVE P(f) <=> Loops(f, l, go, out)
  BY <1>2 DEF Loops
<1>4. go \in SUBSET (1 .. l)
  OBVIOUS
<1>5. MatchEnd(s, t, i) = match[1]
  BY DEF MatchEnd
<1> HIDE DEF P, go, match, out
<1>6. P(match)
  <2>1. \E f : P(f)
    BY <1>1, <1>3, <1>4, LoopStops
  <2> QED BY <2>1 DEF match
<1>7. PICK j \in 1 .. l + 1 : Stops(l, go, 1, j)
  <2>1. 1 \in 1 .. l + 1
    BY <1>1
  <2> QED BY <1>1, <1>4, <2>1, LoopStops
<1>8. match[1] = j
  <2>1. Loops(match, l, go, out) /\ 1 \in 1 .. l + 1
    BY <1>1, <1>3, <1>6
  <2>2. match[1] = out[j]
    BY <1>1, <1>4, <1>7, <2>1, LoopStops
  <2> QED BY <2>2 DEF out
<1>9. j = l + 1 <=> Occurs(t, s, i)
  <2>1. ASSUME j = l + 1 PROVE Occurs(t, s, i)
    <3>1. \A n \in 1 .. l : n \in go
      BY <1>1, <1>7, <2>1 DEF Stops
    <3>2. \A n \in 1 .. l : i + n - 1 <= Len(s) /\ s[i + n - 1] = t[n]
      BY <3>1 DEF go
    <3>3. i + l - 1 <= Len(s)
      <4>1. l # 0 => l \in 1 .. l
        BY <1>1
      <4> QED BY <1>1, <3>2, <4>1
    <3> QED BY <3>2, <3>3 DEF Occurs
  <2>2. ASSUME Occurs(t, s, i) PROVE j = l + 1
    <3>1. \A n \in 1 .. l : n \in go
      BY <1>1, <2>2 DEF go, Occurs
    <3> QED BY <1>1, <1>7, <3>1 DEF Stops
  <2> QED BY <2>1, <2>2
<1> QED BY <1>5, <1>8, <1>9

\* strstr returns the first place of a text that is not empty.
LEMMA StrstrFacts ==
  ASSUME NEW s \in Seq(DOMAIN Code), NEW t \in Seq(DOMAIN Code), t # <<>>
  PROVE  LET r == strstr(s, t)
         IN  /\ r \in 0 .. Len(s)
             /\ r = 0 => \A i \in 1 .. Len(s) : ~Occurs(t, s, i)
             /\ r # 0 => /\ Occurs(t, s, r)
                         /\ \A i \in 1 .. Len(s) : Occurs(t, s, i) => r <= i
<1> DEFINE l == Len(s)
           r == strstr(s, t)
           go == {i \in 1 .. l : ~Occurs(t, s, i)}
           out == [i \in 1 .. l + 1 |-> IF i = l + 1 THEN 0 ELSE i]
           P(f) == f = [i \in 1 .. l + 1 |->
                          IF ByteAt(s, i) = 0 THEN 0
                          ELSE IF ByteAt(t, MatchEnd(s, t, i)) = 0 THEN i ELSE f[i + 1]]
           from == CHOOSE f : P(f)
<1>1. l \in Nat /\ Len(t) \in Nat /\ Len(t) >= 1
  BY LenProperties, EmptySeq
<1>2. ASSUME NEW i \in 1 .. l + 1
      PROVE  /\ ByteAt(s, i) = 0 <=> i = l + 1
             /\ ByteAt(t, MatchEnd(s, t, i)) = 0 <=> Occurs(t, s, i)
  <2>1. /\ MatchEnd(s, t, i) \in 1 .. Len(t) + 1
        /\ MatchEnd(s, t, i) = Len(t) + 1 <=> Occurs(t, s, i)
    BY MatchEndFacts
  <2>2. ByteAt(s, i) # 0 <=> i <= l
    BY <1>1, Bytes
  <2>3. ByteAt(t, MatchEnd(s, t, i)) # 0 <=> MatchEnd(s, t, i) <= Len(t)
    <3> DEFINE k == MatchEnd(s, t, i)
    <3>1. k \in Nat \ {0}
      BY <1>1, <2>1
    <3> HIDE DEF k
    <3>2. ByteAt(t, k) # 0 <=> k <= Len(t)
      BY ONLY <3>1, Bytes, t \in Seq(DOMAIN Code)
    <3> QED BY <3>2 DEF k
  <2> QED BY <1>1, <2>1, <2>2, <2>3
<1>3. ASSUME NEW f PROVE P(f) <=> Loops(f, l, go, out)
  <2>1. ASSUME NEW i \in 1 .. l + 1
        PROVE  (IF ByteAt(s, i) = 0 THEN 0
                ELSE IF ByteAt(t, MatchEnd(s, t, i)) = 0 THEN i ELSE f[i + 1])
               = IF i \in go THEN f[i + 1] ELSE out[i]
    <3>1. i # l + 1 => i \in 1 .. l
      BY <1>1
    <3>2. l + 1 \notin go
      BY <1>1
    <3> QED BY <1>2, <3>1, <3>2
  <2> HIDE DEF go, out
  <2> QED BY <2>1 DEF Loops
<1>4. go \in SUBSET (1 .. l)
  OBVIOUS
<1>5. r = from[1]
  <2>1. ByteAt(t, 1) # 0
    BY <1>1, Bytes
  <2> QED BY <2>1 DEF strstr
<1> HIDE DEF P, go, from, out, r
<1>6. P(from)
  <2>1. \E f : P(f)
    BY <1>1, <1>3, <1>4, LoopStops
  <2> QED BY <2>1 DEF from
<1>7. PICK j \in 1 .. l + 1 : Stops(l, go, 1, j)
  <2>1. 1 \in 1 .. l + 1
    BY <1>1
  <2> QED BY <1>1, <1>4, <2>1, LoopStops
<1>8. r = IF j = l + 1 THEN 0 ELSE j
  <2>1. Loops(from, l, go, out) /\ 1 \in 1 .. l + 1
    BY <1>1, <1>3, <1>6
  <2>2. from[1] = out[j]
    BY <1>1, <1>4, <1>7, <2>1, LoopStops
  <2> QED BY <1>5, <2>2 DEF out
<1>9. /\ \A i \in 1 .. j - 1 : ~Occurs(t, s, i)
      /\ j # l + 1 => Occurs(t, s, j)
  <2>1. j \notin go /\ \A i \in 1 .. j - 1 : i \in go
    BY <1>7 DEF Stops
  <2> QED BY <1>1, <1>7, <2>1 DEF go
<1>10. /\ r \in 0 .. l
       /\ r = 0 => \A i \in 1 .. l : ~Occurs(t, s, i)
       /\ r # 0 => /\ Occurs(t, s, r)
                   /\ \A i \in 1 .. l : Occurs(t, s, i) => r <= i
  <2>1. CASE j = l + 1
    BY <1>1, <1>8, <1>9, <2>1
  <2>2. CASE j # l + 1
    <3>1. r = j /\ j \in 1 .. l
      BY <1>1, <1>7, <1>8, <2>2
    <3>2. \A i \in 1 .. l : Occurs(t, s, i) => j <= i
      <4>1. \A i \in 1 .. l : i < j => i \in 1 .. j - 1
        BY <3>1
      <4> QED BY <1>9, <3>1, <4>1
    <3> QED BY <1>9, <2>2, <3>1, <3>2
  <2> QED BY <2>1, <2>2
<1> QED BY <1>10 DEF r

\* To begin a text is to stand at its first place.
LEMMA PrefixOccurs ==
  ASSUME NEW S, NEW s \in Seq(S), NEW t \in Seq(S)
  PROVE  IsPrefix(t, s) <=> Occurs(t, s, 1)
<1>1. Len(s) \in Nat /\ Len(t) \in Nat
  BY LenProperties
<1>2. CASE Len(t) <= Len(s)
  <2>1. /\ Len(t) \in 0 .. Len(s) /\ 1 \in Nat \ {0} /\ 1 + Len(t) - 1 = Len(t)
        /\ Len(t) \in 0 .. Len(t) /\ 1 + Len(t) - 1 <= Len(s)
        /\ \A j \in 1 .. Len(t) : 1 + j - 1 = j
    BY <1>1, <1>2
  <2>2. SubSeq(s, 1, 1 + Len(t) - 1) = SubSeq(t, 1, Len(t))
          <=> \A j \in 1 .. Len(t) : s[1 + j - 1] = t[j]
    BY <2>1, SamePiece
  <2> QED BY <1>2, <2>1, <2>2 DEF IsPrefix, Occurs
<1>3. CASE ~(Len(t) <= Len(s))
  BY <1>1, <1>3 DEF IsPrefix, Occurs
<1> QED BY <1>2, <1>3

\* After k turns strrchr points at the last of the places up to k.
LEMMA StrrchrFacts ==
  ASSUME NEW s \in Seq(DOMAIN Code), NEW c \in DOMAIN Code
  PROVE  strrchr(s, c) = Max({0} \cup {i \in DOMAIN s : s[i] = c})
<1> DEFINE l == Len(s)
           n == l + 1
           hit(k) == ByteAt(s, k) = Code[c]
           X == 0 .. n
           step == [k \in 1 .. n |-> [m \in X |-> IF hit(k) THEN k ELSE m]]
           P(f) == f = [k \in 0 .. n |-> IF k = 0 THEN 0 ELSE IF hit(k) THEN k ELSE f[k - 1]]
           last == CHOOSE f : P(f)
           hits == {i \in DOMAIN s : s[i] = c}
<1>1. l \in Nat /\ n \in Nat /\ DOMAIN s = 1 .. l
  BY LenProperties
<1>2. strrchr(s, c) = last[n]
  BY DEF strrchr
<1>3. ASSUME NEW k \in 1 .. n PROVE hit(k) <=> k \in hits
  <2>1. /\ ByteAt(s, k) # 0 <=> k <= l
        /\ k <= l => s[k] \in DOMAIN Code /\ ByteAt(s, k) = Code[s[k]]
    BY <1>1, Bytes
  <2>2. Code[c] # 0 /\ \A d \in DOMAIN Code : Code[d] = Code[c] => d = c
    BY TextAssumption
  <2> QED BY <1>1, <2>1, <2>2
<1>4. P(last)
  <2>1. 0 \in X /\ step \in [1 .. n -> [X -> X]]
    BY <1>1
  <2> HIDE DEF X, step, n, hit
  <2>2. PICK f \in [0 .. n -> X] : Iterates(f, n, 0, step)
    BY <1>1, <2>1, Recursion
  <2>3. ASSUME NEW k \in 0 .. n
        PROVE  f[k] = IF k = 0 THEN 0 ELSE IF hit(k) THEN k ELSE f[k - 1]
    <3>1. f[k] = IF k = 0 THEN 0 ELSE step[k][f[k - 1]]
      BY <2>2 DEF Iterates
    <3>2. k # 0 => k \in 1 .. n /\ f[k - 1] \in X
      <4>1. k # 0 => k - 1 \in 0 .. n
        BY <1>1
      <4> QED BY <1>1, <2>2, <4>1
    <3> QED BY <3>1, <3>2 DEF step
  <2>4. f = [k \in 0 .. n |-> f[k]]
    BY <2>2
  <2>5. P(f)
    BY <2>3, <2>4
  <2> HIDE DEF P
  <2> QED BY <2>5
<1>5. /\ last[0] = 0
      /\ \A k \in 1 .. n : last[k] = IF hit(k) THEN k ELSE last[k - 1]
  <2>1. \A k \in 0 .. n : last[k] = IF k = 0 THEN 0 ELSE IF hit(k) THEN k ELSE last[k - 1]
    <3> HIDE DEF last, hit, n
    <3> QED BY <1>4
  <2> HIDE DEF last, hit, n
  <2> QED BY <1>1, <2>1
<1> HIDE DEF last, hits, hit, n
<1> DEFINE G(k) == last[k] \in {0} \cup hits /\ \A i \in 1 .. k : i \in hits => i <= last[k]
           T == {k \in Nat : k <= n => G(k)}
<1>6. 0 \in T
  BY <1>5
<1>7. ASSUME NEW k \in Nat, k \in T PROVE k + 1 \in T
  <2> SUFFICES ASSUME k + 1 <= n PROVE G(k + 1)
    OBVIOUS
  <2>1. G(k) /\ k + 1 \in 1 .. n /\ (k + 1) - 1 = k
    BY <1>1, <1>7
  <2>2. last[k + 1] = IF hit(k + 1) THEN k + 1 ELSE last[k]
    BY <1>5, <2>1
  <2>3. \A i \in 1 .. k + 1 : i = k + 1 \/ i \in 1 .. k
    OBVIOUS
  <2>4. hits \subseteq Nat
    BY <1>1 DEF hits
  <2>5. CASE hit(k + 1)
    BY <1>3, <2>1, <2>2, <2>5
  <2>6. CASE ~hit(k + 1)
    BY <1>3, <2>1, <2>2, <2>3, <2>6
  <2> QED BY <2>5, <2>6
<1>8. G(n)
  <2> HIDE DEF T
  <2>1. n \in T
    BY <1>1, <1>6, <1>7, Induction
  <2> QED BY <1>1, <2>1 DEF T
<1>9. last[n] = Max({0} \cup hits)
  <2> DEFINE M == {0} \cup hits
  <2>1. M \in SUBSET (0 .. n) /\ M # {}
    BY <1>1 DEF hits, n
  <2>2. Max(M) \in M /\ \A y \in M : y <= Max(M)
    BY <1>1, <2>1, MaxExists
  <2>3. \A y \in M : y <= last[n]
    <3>1. last[n] \in Nat
      BY <1>8, <2>1
    <3>2. \A y \in hits : y \in 1 .. n
      BY <1>1 DEF hits, n
    <3> QED BY <1>8, <3>1, <3>2
  <2>4. last[n] \in M
    BY <1>8
  <2> HIDE DEF M
  <2>5. Max(M) \in Nat /\ last[n] \in Nat /\ Max(M) <= last[n] /\ last[n] <= Max(M)
    <3>1. \A y \in M : y \in Nat
      BY <2>1
    <3> QED BY <2>2, <2>3, <2>4, <3>1
  <2>6. Max(M) = last[n]
    BY <2>5
  <2> QED BY <2>6 DEF M
<1> QED BY <1>2, <1>9 DEF hits

\* strcmp orders texts by the first byte that differs.
LEMMA StrcmpFacts ==
  ASSUME NEW s \in Seq(DOMAIN Code), NEW t \in Seq(DOMAIN Code)
  PROVE  /\ strcmp(s, t) = 0 <=> s = t
         /\ strcmp(s, t) < 0 <=> Before(s, t)
         /\ strcmp(s, t) > 0 <=> Before(t, s)
<1> DEFINE l == Len(s)
           go == {k \in 1 .. l : ByteAt(s, k) = ByteAt(t, k)}
           out == [k \in 1 .. l + 1 |-> k]
           P(f) == f = [k \in 1 .. l + 1 |->
                          IF ByteAt(s, k) # 0 /\ ByteAt(s, k) = ByteAt(t, k) THEN f[k + 1] ELSE k]
           stop == CHOOSE f : P(f)
<1>1. l \in Nat /\ Len(t) \in Nat
  BY LenProperties
<1>2. ASSUME NEW k \in Nat \ {0}
      PROVE  /\ ByteAt(s, k) \in Nat /\ ByteAt(t, k) \in Nat
             /\ ByteAt(s, k) # 0 <=> k <= l
             /\ ByteAt(t, k) # 0 <=> k <= Len(t)
  BY Bytes
<1>3. ASSUME NEW f PROVE P(f) <=> Loops(f, l, go, out)
  <2>1. ASSUME NEW k \in 1 .. l + 1
        PROVE  (ByteAt(s, k) # 0 /\ ByteAt(s, k) = ByteAt(t, k)) <=> k \in go
    BY <1>1, <1>2
  <2> HIDE DEF go
  <2> QED BY <2>1 DEF Loops
<1>4. go \in SUBSET (1 .. l)
  OBVIOUS
<1>5. strcmp(s, t) = ByteAt(s, stop[1]) - ByteAt(t, stop[1])
  BY DEF strcmp
<1> HIDE DEF P, go, stop, out
<1>6. P(stop)
  <2>1. \E f : P(f)
    BY <1>1, <1>3, <1>4, LoopStops
  <2> QED BY <2>1 DEF stop
<1>7. PICK j \in 1 .. l + 1 : Stops(l, go, 1, j)
  <2>1. 1 \in 1 .. l + 1
    BY <1>1
  <2> QED BY <1>1, <1>4, <2>1, LoopStops
<1>8. stop[1] = j
  <2>1. Loops(stop, l, go, out) /\ 1 \in 1 .. l + 1
    BY <1>1, <1>3, <1>6
  <2>2. stop[1] = out[j]
    BY <1>1, <1>4, <1>7, <2>1, LoopStops
  <2> QED BY <2>2 DEF out
<1> DEFINE x == ByteAt(s, j)
           y == ByteAt(t, j)
<1>9. x \in Nat /\ y \in Nat /\ strcmp(s, t) = x - y /\ j \in Nat \ {0}
  BY <1>1, <1>2, <1>5, <1>8
<1>10. /\ \A i \in 1 .. j - 1 : i \in 1 .. l /\ ByteAt(s, i) = ByteAt(t, i)
       /\ x = y => j = l + 1 /\ x = 0 /\ ~(j <= Len(t))
  <2>1. j \notin go /\ \A i \in 1 .. j - 1 : i \in go
    BY <1>7 DEF Stops
  <2>2. x = y => j = l + 1
    BY <1>1, <2>1 DEF go
  <2>3. j = l + 1 => x = 0
    BY <1>1, <1>2
  <2>4. y = 0 => ~(j <= Len(t))
    BY <1>2, <1>9
  <2> QED BY <2>1, <2>2, <2>3, <2>4 DEF go
<1> HIDE DEF x, y
<1>11. (x = y) <=> (s = t)
  <2>1. s = t => x = y
    BY DEF x, y
  <2>2. ASSUME x = y PROVE s = t
    <3>1. j = l + 1 /\ Len(t) <= l
      BY <1>1, <1>10, <2>2
    <3>2. ASSUME NEW i \in 1 .. l PROVE i <= Len(t) /\ s[i] = t[i]
      <4>1. ByteAt(s, i) = ByteAt(t, i) /\ i \in Nat \ {0} /\ i <= Len(s)
        BY <1>1, <1>10, <3>1
      <4> QED BY <4>1, SameByte
    <3>3. Len(t) = l
      <4>1. l # 0 => l <= Len(t)
        <5>1. l # 0 => l \in 1 .. l
          BY <1>1
        <5> QED BY <3>2, <5>1
      <4> QED BY <1>1, <3>1, <4>1
    <3> QED BY <3>2, <3>3, SeqEqual
  <2> QED BY <2>1, <2>2
<1>12. x < y <=> Before(s, t)
  <2>1. ASSUME x < y PROVE Before(s, t)
    <3>1. j \in 1 .. Len(t)
      BY <1>1, <1>2, <1>9, <2>1 DEF y
    <3> QED BY <1>10, <2>1, <3>1 DEF Before, x, y
  <2>2. ASSUME Before(s, t) PROVE x < y
    <3>1. PICK k \in 1 .. Len(t) : /\ ByteAt(s, k) < ByteAt(t, k)
                                   /\ \A i \in 1 .. k - 1 : ByteAt(s, i) = ByteAt(t, i)
      BY <2>2 DEF Before
    <3>2. ~(k < j)
      <4>1. k < j => k \in 1 .. j - 1
        BY <1>1, <1>9
      <4>2. ByteAt(s, k) # ByteAt(t, k)
        BY <1>1, <1>2, <3>1
      <4> QED BY <1>10, <4>1, <4>2
    <3>3. ~(j < k)
      <4>1. j < k => j \in 1 .. k - 1 /\ j <= Len(t)
        BY <1>1, <1>9
      <4> QED BY <1>10, <3>1, <4>1 DEF x, y
    <3>4. k = j
      BY <1>1, <1>9, <3>2, <3>3
    <3> QED BY <3>1, <3>4 DEF x, y
  <2> QED BY <2>1, <2>2
<1>13. y < x <=> Before(t, s)
  <2>1. ASSUME y < x PROVE Before(t, s)
    <3>1. j \in 1 .. Len(s)
      BY <1>1, <1>2, <1>9, <2>1 DEF x
    <3> QED BY <1>10, <2>1, <3>1 DEF Before, x, y
  <2>2. ASSUME Before(t, s) PROVE y < x
    <3>1. PICK k \in 1 .. l : /\ ByteAt(t, k) < ByteAt(s, k)
                              /\ \A i \in 1 .. k - 1 : ByteAt(t, i) = ByteAt(s, i)
      BY <2>2 DEF Before
    <3>2. ~(k < j)
      <4>1. k < j => k \in 1 .. j - 1
        BY <1>1, <1>9
      <4>2. ByteAt(s, k) # ByteAt(t, k)
        BY <1>1, <1>2, <3>1
      <4> QED BY <1>10, <4>1, <4>2
    <3>3. ~(j < k)
      <4>1. j < k => j \in 1 .. k - 1 /\ j # l + 1
        BY <1>1, <1>9
      <4> QED BY <1>10, <3>1, <4>1 DEF x, y
    <3>4. k = j
      BY <1>1, <1>9, <3>2, <3>3
    <3> QED BY <3>1, <3>4 DEF x, y
  <2> QED BY <2>1, <2>2
<1>14. /\ x - y = 0 <=> x = y
       /\ x - y < 0 <=> x < y
       /\ x - y > 0 <=> y < x
  BY <1>9
<1> QED BY <1>9, <1>11, <1>12, <1>13, <1>14

\* The rest of a text, from i on
LEMMA RestFacts ==
  ASSUME NEW S, NEW s \in Seq(S), NEW i \in 1 .. Len(s) + 1
  PROVE  LET r == SubSeq(s, i, Len(s))
         IN  /\ r \in Seq(S) /\ Len(r) = Len(s) - i + 1
             /\ \A j \in 1 .. Len(s) - i + 1 : r[j] = s[i + j - 1]
<1> DEFINE r == SubSeq(s, i, Len(s))
<1>1. Len(s) \in Nat /\ i \in Int /\ \A j \in i .. Len(s) : s[j] \in S
  <2>1. Len(s) \in Nat
    BY LenProperties
  <2>2. \A j \in i .. Len(s) : j \in 1 .. Len(s)
    BY <2>1
  <2> QED BY <2>1, <2>2, ElementOfSeq
<1>2. /\ r \in Seq(S) /\ Len(r) = IF i <= Len(s) THEN Len(s) - i + 1 ELSE 0
      /\ \A j \in 1 .. Len(s) - i + 1 : r[j] = s[i + j - 1]
  BY <1>1, SubSeqProperties
<1> HIDE DEF r
<1>3. Len(r) = Len(s) - i + 1
  BY <1>1, <1>2
<1> QED BY <1>2, <1>3 DEF r

\* What SearchesCorrect says of two texts
SearchesOf(s, t) ==
  LET places == {i \in 1 .. Len(s) + 1 : IsPrefix(t, SubSeq(s, i, Len(s)))}
  IN  /\ strstr(s, t) = IF places = {} THEN 0 ELSE Min(places)
      /\ \A c \in Range(t) : strrchr(s, c) = Max({0} \cup {i \in DOMAIN s : s[i] = c})
      /\ strcmp(s, t) = 0 <=> s = t
      /\ strcmp(s, t) < 0 <=> Before(s, t)
      /\ strcmp(s, t) > 0 <=> Before(t, s)

\* strstr, strrchr and strcmp do what they should, for every two texts.
LEMMA SearchesOfTexts ==
  ASSUME NEW s \in Seq(DOMAIN Code), NEW t \in Seq(DOMAIN Code)
  PROVE  SearchesOf(s, t)
<1> DEFINE C == DOMAIN Code
           l == Len(s)
           r == strstr(s, t)
           rest(i) == SubSeq(s, i, Len(s))
           places == {i \in 1 .. l + 1 : IsPrefix(t, rest(i))}
           standing == {i \in 1 .. l + 1 : Occurs(t, s, i)}
<1>1. l \in Nat /\ Len(t) \in Nat
  BY LenProperties
<1>2. \A i \in 1 .. l + 1 : IsPrefix(t, rest(i)) <=> Occurs(t, s, i)
  <2> TAKE i \in 1 .. l + 1
  <2> DEFINE u == rest(i)
  <2>1. u \in Seq(C) /\ Len(u) = l - i + 1 /\ \A j \in 1 .. l - i + 1 : u[j] = s[i + j - 1]
    BY RestFacts
  <2> HIDE DEF u
  <2>2. IsPrefix(t, u) <=> Occurs(t, u, 1)
    BY <2>1, PrefixOccurs
  <2>3. ASSUME Len(t) <= l - i + 1
        PROVE  \A j \in 1 .. Len(t) : u[1 + j - 1] = s[i + j - 1]
    <3> TAKE j \in 1 .. Len(t)
    <3>1. 1 + j - 1 = j /\ j \in 1 .. l - i + 1
      BY <1>1, <2>3
    <3> QED BY <2>1, <3>1
  <2>4. 1 + Len(t) - 1 <= Len(u) <=> Len(t) <= l - i + 1
    BY <1>1, <2>1
  <2>5. i + Len(t) - 1 <= Len(s) <=> Len(t) <= l - i + 1
    BY <1>1
  <2>6. Occurs(t, u, 1) <=> Occurs(t, s, i)
    BY <2>3, <2>4, <2>5 DEF Occurs
  <2>7. IsPrefix(t, u) <=> Occurs(t, s, i)
    BY <2>2, <2>6
  <2> QED BY <2>7 DEF u
<1>3. places = standing
  <2> HIDE DEF rest
  <2> QED BY <1>2
<1> HIDE DEF places, r
<1>4. r = IF standing = {} THEN 0 ELSE Min(standing)
  <2>1. standing \in SUBSET Nat /\ \A i \in standing : i \in 1 .. l + 1
    BY <1>1
  <2>2. standing # {} => /\ Min(standing) \in standing /\ Min(standing) \in Nat
                         /\ \A i \in standing : Min(standing) <= i
    <3> HIDE DEF standing
    <3> QED BY <2>1, MinExists
  <2>3. CASE t = <<>>
    <3>1. r = 1
      <4>1. 1 \in Nat \ {0} /\ ~(1 <= Len(t))
        BY <2>3
      <4>2. ByteAt(t, 1) = 0
        BY <4>1, Bytes
      <4> QED BY <4>2 DEF r, strstr
    <3>2. 1 \in standing
      BY <1>1, <2>3 DEF Occurs
    <3> HIDE DEF standing
    <3>3. Min(standing) \in 1 .. l + 1 /\ Min(standing) <= 1
      BY <2>1, <2>2, <3>2
    <3> QED BY <1>1, <3>1, <3>2, <3>3
  <2>4. CASE t # <<>>
    <3>1. /\ r \in 0 .. l
          /\ r = 0 => \A i \in 1 .. l : ~Occurs(t, s, i)
          /\ r # 0 => /\ Occurs(t, s, r)
                      /\ \A i \in 1 .. l : Occurs(t, s, i) => r <= i
      BY <2>4, StrstrFacts DEF r
    <3>2. Len(t) >= 1
      BY <1>1, <2>4, EmptySeq
    <3>3. \A i \in standing : i \in 1 .. l /\ Occurs(t, s, i)
      BY <1>1, <3>2 DEF Occurs
    <3>4. r # 0 => r \in standing
      BY <1>1, <3>1
    <3> HIDE DEF standing
    <3>5. CASE r = 0
      BY <3>1, <3>3, <3>5
    <3>6. CASE r # 0
      <4>1. r <= Min(standing) /\ Min(standing) <= r /\ Min(standing) \in Nat
        BY <2>2, <3>1, <3>3, <3>4, <3>6
      <4> QED BY <1>1, <3>1, <3>4, <3>6, <4>1
    <3> QED BY <3>5, <3>6
  <2> QED BY <2>3, <2>4
<1>5. \A c \in Range(t) : strrchr(s, c) = Max({0} \cup {i \in DOMAIN s : s[i] = c})
  BY RangeOfSeq, StrrchrFacts
<1>6. /\ strcmp(s, t) = 0 <=> s = t
      /\ strcmp(s, t) < 0 <=> Before(s, t)
      /\ strcmp(s, t) > 0 <=> Before(t, s)
  BY StrcmpFacts
<1>7. strstr(s, t) = IF places = {} THEN 0 ELSE Min(places)
  <2> HIDE DEF standing
  <2> QED BY <1>3, <1>4 DEF r
<1> QED BY <1>5, <1>6, <1>7 DEF SearchesOf, places

-----------------------------------------------------------------------------
(* Copies                                                                  *)

\* f is the memory after each unit.
Copying(f, S, mem, dest, src, n, order) ==
  /\ f[0] = mem /\ f[n] = CopyUnits(mem, dest, src, order)
  /\ \A k \in 0 .. n : f[k] \in Seq(S) /\ Len(f[k]) = Len(mem)
  /\ \A k \in 1 .. n : f[k] = CopyUnit(f[k - 1], dest, src, order[k])

\* The loop of a copy runs through memories of one size, unit by unit.
LEMMA CopyLoop ==
  ASSUME NEW S, NEW mem \in Seq(S), NEW dest \in DOMAIN mem, NEW src \in DOMAIN mem,
         NEW n \in Nat, dest + n <= Len(mem) + 1, src + n <= Len(mem) + 1,
         NEW order \in [1 .. n -> 0 .. n - 1]
  PROVE  \E f : Copying(f, S, mem, dest, src, n, order)
<1> DEFINE X == {m \in Seq(S) : Len(m) = Len(mem)}
           step == [k \in 1 .. n |-> [m \in X |-> CopyUnit(m, dest, src, order[k])]]
           Copies(f) == f = [k \in 0 .. n |-> IF k = 0 THEN mem
                                              ELSE CopyUnit(f[k - 1], dest, src, order[k])]
           copied == CHOOSE f : Copies(f)
<1>1. mem \in X /\ Len(mem) \in Nat /\ DOMAIN mem = 1 .. Len(mem)
  BY LenProperties
<1>2. ASSUME NEW k \in 1 .. n, NEW m \in X PROVE CopyUnit(m, dest, src, order[k]) \in X
  <2>1. DOMAIN m = 1 .. Len(mem) /\ src + order[k] \in 1 .. Len(m)
    BY <1>1, LenProperties
  <2>2. m[src + order[k]] \in S
    BY <2>1, ElementOfSeq
  <2> QED BY <2>1, <2>2, ExceptSeq, LenProperties DEF CopyUnit
<1>3. \E f \in [0 .. n -> X] : Copies(f)
  <2>1. step \in [1 .. n -> [X -> X]]
    BY <1>2
  <2> HIDE DEF X, step
  <2>2. PICK f \in [0 .. n -> X] : Iterates(f, n, mem, step)
    BY <1>1, <2>1, Recursion
  <2>3. ASSUME NEW k \in 0 .. n
        PROVE  f[k] = IF k = 0 THEN mem ELSE CopyUnit(f[k - 1], dest, src, order[k])
    <3>1. f[k] = IF k = 0 THEN mem ELSE step[k][f[k - 1]]
      BY <2>2 DEF Iterates
    <3>2. k # 0 => k \in 1 .. n /\ f[k - 1] \in X
      BY <2>2
    <3> QED BY <3>1, <3>2 DEF step
  <2>4. f = [k \in 0 .. n |-> f[k]]
    BY <2>2
  <2> QED BY <2>2, <2>3, <2>4
<1>4. Copies(copied)
  <2> HIDE DEF Copies
  <2> QED BY <1>3
<1>5. CopyUnits(mem, dest, src, order) = copied[n]
  <2>1. Len(order) = n
    BY IsASeq
  <2> QED BY <2>1 DEF CopyUnits
<1> HIDE DEF copied, step
<1>6. PICK f \in [0 .. n -> X] : Copies(f)
  BY <1>3
<1>7. \A k \in 0 .. n : copied[k] = f[k]
  <2> HIDE DEF X
  <2>1. GoAlike(copied, f, n)
    BY <1>4, <1>6 DEF GoAlike
  <2> QED BY <2>1, Agreement
<1>8. \A k \in 1 .. n : f[k] = CopyUnit(f[k - 1], dest, src, order[k])
  <2> HIDE DEF X
  <2> QED BY <1>6
<1>9. f[0] = mem
  <2> HIDE DEF X
  <2> QED BY <1>6
<1>10. f[n] = CopyUnits(mem, dest, src, order)
  BY <1>5, <1>7
<1>11. \A k \in 0 .. n : f[k] \in Seq(S) /\ Len(f[k]) = Len(mem)
  BY <1>6
<1> HIDE DEF Copies
<1> QED BY <1>8, <1>9, <1>10, <1>11 DEF Copying

\* memory when the units from `from` to before `to` have been moved
Moved(mem, dest, src, from, to, i) ==
  IF i \in dest + from .. dest + to - 1 THEN mem[src + i - dest] ELSE mem[i]

\* The units from first to last are copied one by one, the source of each
\* before anything is written there.
LEMMA MoveCorrect ==
  ASSUME NEW S, NEW mem \in Seq(S), NEW dest \in DOMAIN mem, NEW src \in DOMAIN mem,
         NEW n \in Nat, dest + n <= Len(mem) + 1, src + n <= Len(mem) + 1
  PROVE  \A i \in DOMAIN mem : memmove(mem, dest, src, n)[i] = Moved(mem, dest, src, 0, n, i)
<1>1. /\ Len(mem) \in Nat /\ DOMAIN mem = 1 .. Len(mem)
      /\ dest \in Nat /\ src \in Nat /\ dest >= 1 /\ src >= 1
  BY LenProperties
<1> DEFINE l == Len(mem)
<1>2. CASE dest < src
  <2> DEFINE order == [k \in 1 .. n |-> k - 1]
  <2>1. order \in [1 .. n -> 0 .. n - 1]
    OBVIOUS
  <2>2. memmove(mem, dest, src, n) = CopyUnits(mem, dest, src, order)
    BY <1>2 DEF memmove, memcpy
  <2> HIDE DEF order
  <2>3. PICK f : Copying(f, S, mem, dest, src, n, order)
    BY <2>1, CopyLoop
  <2>4. /\ f[0] = mem /\ f[n] = CopyUnits(mem, dest, src, order)
        /\ \A k \in 0 .. n : f[k] \in Seq(S) /\ Len(f[k]) = Len(mem)
        /\ \A k \in 1 .. n : f[k] = CopyUnit(f[k - 1], dest, src, order[k])
    BY <2>3 DEF Copying
  <2> DEFINE T == {k \in Nat : k <= n =>
                     \A i \in 1 .. l : f[k][i] = Moved(mem, dest, src, 0, k, i)}
  <2>5. 0 \in T
    BY <1>1, <2>4 DEF Moved
  <2>6. ASSUME NEW k \in Nat, k \in T PROVE k + 1 \in T
    <3>1. k + 1 \in Nat
      OBVIOUS
    <3> SUFFICES ASSUME k + 1 <= n, NEW i \in 1 .. l
                 PROVE  f[k + 1][i] = Moved(mem, dest, src, 0, k + 1, i)
      BY <3>1
    <3>2. k + 1 \in 1 .. n /\ (k + 1) - 1 = k /\ k \in 0 .. n /\ order[k + 1] = k
      BY DEF order
    <3>3. f[k + 1] = [f[k] EXCEPT ![dest + k] = f[k][src + k]]
      BY <2>4, <3>2 DEF CopyUnit
    <3>4. DOMAIN f[k] = 1 .. l
      BY <2>4, <3>2, LenProperties
    <3>5. \A j \in 1 .. l : f[k][j] = Moved(mem, dest, src, 0, k, j)
      BY <2>6, <3>2
    <3>6. src + k \in 1 .. l /\ src + k \notin dest .. dest + k - 1
      BY <1>1, <1>2, <3>2
    <3>7. f[k][src + k] = mem[src + k]
      BY <1>1, <3>5, <3>6 DEF Moved
    <3>8. CASE i = dest + k
      <4>1. f[k + 1][i] = mem[src + k] /\ src + i - dest = src + k
        BY <1>1, <3>3, <3>4, <3>7, <3>8
      <4>2. i \in dest + 0 .. dest + (k + 1) - 1
        BY <1>1, <3>2, <3>8
      <4> QED BY <4>1, <4>2 DEF Moved
    <3>9. CASE i # dest + k
      <4>1. f[k + 1][i] = f[k][i]
        BY <3>3, <3>4, <3>9
      <4>2. i \in dest + 0 .. dest + k - 1 <=> i \in dest + 0 .. dest + (k + 1) - 1
        BY <1>1, <3>9
      <4> QED BY <3>5, <4>1, <4>2 DEF Moved
    <3> QED BY <3>8, <3>9
  <2> HIDE DEF T
  <2>7. n \in T
    BY <2>5, <2>6, Induction
  <2> QED BY <1>1, <2>2, <2>4, <2>7 DEF T
<1>3. CASE ~(dest < src)
  <2> DEFINE order == [k \in 1 .. n |-> n - k]
  <2>1. order \in [1 .. n -> 0 .. n - 1]
    OBVIOUS
  <2>2. memmove(mem, dest, src, n) = CopyUnits(mem, dest, src, order)
    BY <1>3 DEF memmove
  <2> HIDE DEF order
  <2>3. PICK f : Copying(f, S, mem, dest, src, n, order)
    BY <2>1, CopyLoop
  <2>4. /\ f[0] = mem /\ f[n] = CopyUnits(mem, dest, src, order)
        /\ \A k \in 0 .. n : f[k] \in Seq(S) /\ Len(f[k]) = Len(mem)
        /\ \A k \in 1 .. n : f[k] = CopyUnit(f[k - 1], dest, src, order[k])
    BY <2>3 DEF Copying
  <2> DEFINE T == {k \in Nat : k <= n =>
                     \A i \in 1 .. l : f[k][i] = Moved(mem, dest, src, n - k, n, i)}
  <2>5. 0 \in T
    BY <1>1, <2>4 DEF Moved
  <2>6. ASSUME NEW k \in Nat, k \in T PROVE k + 1 \in T
    <3> SUFFICES ASSUME k + 1 <= n, NEW i \in 1 .. l
                 PROVE  f[k + 1][i] = Moved(mem, dest, src, n - (k + 1), n, i)
      OBVIOUS
    <3> DEFINE u == n - (k + 1)
    <3>1. /\ k + 1 \in 1 .. n /\ (k + 1) - 1 = k /\ k \in 0 .. n
          /\ order[k + 1] = u /\ u \in Nat /\ n - k = u + 1 /\ u < n
      BY DEF order
    <3> HIDE DEF u
    <3>2. f[k + 1] = [f[k] EXCEPT ![dest + u] = f[k][src + u]]
      BY <2>4, <3>1 DEF CopyUnit
    <3>3. DOMAIN f[k] = 1 .. l
      <4>1. f[k] \in Seq(S) /\ Len(f[k]) = l
        BY <2>4, <3>1
      <4> QED BY <4>1, LenProperties
    <3>4. \A j \in 1 .. l : f[k][j] = Moved(mem, dest, src, u + 1, n, j)
      BY <2>6, <3>1
    <3>5. src + u \in 1 .. l /\ src + u \notin dest + (u + 1) .. dest + n - 1
      BY <1>1, <1>3, <3>1
    <3>6. f[k][src + u] = mem[src + u]
      BY <1>1, <3>4, <3>5 DEF Moved
    <3>7. CASE i = dest + u
      <4>1. f[k + 1][i] = mem[src + u] /\ src + i - dest = src + u
        BY <1>1, <3>1, <3>2, <3>3, <3>6, <3>7
      <4>2. i \in dest + u .. dest + n - 1
        BY <1>1, <3>1, <3>7
      <4> QED BY <4>1, <4>2 DEF Moved, u
    <3>8. CASE i # dest + u
      <4>1. f[k + 1][i] = f[k][i]
        BY <3>2, <3>3, <3>8
      <4>2. i \in dest + (u + 1) .. dest + n - 1 <=> i \in dest + u .. dest + n - 1
        <5>1. i \in Int /\ dest + u \in Int /\ dest + (u + 1) = (dest + u) + 1
          BY <1>1, <3>1
        <5> QED BY <3>8, <5>1
      <4>3. Moved(mem, dest, src, u + 1, n, i) = Moved(mem, dest, src, u, n, i)
        BY <4>2 DEF Moved
      <4> QED BY <3>4, <4>1, <4>3 DEF u
    <3> QED BY <3>7, <3>8
  <2> HIDE DEF T
  <2>7. n \in T
    BY <2>5, <2>6, Induction
  <2>8. \A i \in 1 .. l : f[n][i] = Moved(mem, dest, src, n - n, n, i)
    BY <2>7 DEF T
  <2>9. n - n = 0
    OBVIOUS
  <2> QED BY <1>1, <2>2, <2>4, <2>8, <2>9
<1> QED BY <1>2, <1>3

-----------------------------------------------------------------------------
(* Digits                                                                  *)

\* the characters of digits
HexDigits == Range(DigitChars)

\* A digit is written by a character of its own.
LEMMA DigitFacts ==
  /\ \A d \in 0 .. 15 : DigitChar(d) \in HexDigits /\ DigitValue[DigitChar(d)] = d
  /\ \A c \in HexDigits : DigitValue[c] \in 0 .. 15
  /\ \A c \in Decimals : DigitValue[c] \in 0 .. 9 /\ c \in HexDigits
  /\ Decimals \subseteq HexDigits
<1>1. /\ DOMAIN DigitChars = 1 .. 16
      /\ \A i, j \in 1 .. 16 : DigitChars[i] = DigitChars[j] => i = j
  <2>1. DOMAIN DigitChars = 1 .. 16
    BY DEF DigitChars
  <2>2. \A i, j \in 1 .. 16 : DigitChars[i] = DigitChars[j] => i = j
    BY SMTT(30) DEF DigitChars
  <2> QED BY <2>1, <2>2
<1>2. HexDigits = {DigitChars[i] : i \in 1 .. 16}
  BY <1>1 DEF HexDigits, Range
<1>3. ASSUME NEW i \in 1 .. 16 PROVE DigitValue[DigitChars[i]] = i - 1
  <2>1. DigitChars[i] \in HexDigits
    BY <1>2
  <2>2. (CHOOSE j \in 1 .. 16 : DigitChars[j] = DigitChars[i]) = i
    BY <1>1
  <2> QED BY <1>1, <2>1, <2>2 DEF DigitValue, HexDigits
<1>4. \A d \in 0 .. 15 : DigitChar(d) \in HexDigits /\ DigitValue[DigitChar(d)] = d
  <2> TAKE d \in 0 .. 15
  <2>1. d + 1 \in 1 .. 16 /\ (d + 1) - 1 = d
    OBVIOUS
  <2>2. DigitChar(d) = DigitChars[d + 1]
    BY DEF DigitChar
  <2> HIDE DEF HexDigits
  <2> QED BY <1>2, <1>3, <2>1, <2>2
<1>5. \A c \in HexDigits : DigitValue[c] \in 0 .. 15
  <2> TAKE c \in HexDigits
  <2>1. PICK i \in 1 .. 16 : c = DigitChars[i]
    BY <1>2
  <2>2. i - 1 \in 0 .. 15
    OBVIOUS
  <2> QED BY <1>1, <1>3, <2>1, <2>2
<1>6. \A c \in Decimals : DigitValue[c] \in 0 .. 9 /\ c \in HexDigits
  <2> TAKE c \in Decimals
  <2>1. PICK d \in 0 .. 9 : c = DigitChar(d)
    BY DEF Decimals
  <2>2. d \in 0 .. 15
    OBVIOUS
  <2> QED BY <1>4, <2>1, <2>2
<1> QED BY <1>4, <1>5, <1>6

\* Ten and sixteen are the bases.
Bases == {10, 16}

\* Division by a base takes the last digit off.
LEMMA DigitOf ==
  ASSUME NEW base \in Bases, NEW v \in Nat
  PROVE  /\ v \div base \in Nat /\ v % base \in 0 .. base - 1 /\ v % base \in 0 .. 15
         /\ v = base * (v \div base) + (v % base)
         /\ v # 0 => v \div base < v
         /\ (v \div base = 0) <=> v < base
<1>1. CASE base = 10
  <2>1. /\ v \div 10 \in Nat /\ v % 10 \in 0 .. 10 - 1 /\ v % 10 \in 0 .. 15
        /\ v = 10 * (v \div 10) + (v % 10)
        /\ v # 0 => v \div 10 < v
        /\ (v \div 10 = 0) <=> v < 10
    OBVIOUS
  <2> QED BY <1>1, <2>1
<1>2. CASE base = 16
  <2>1. /\ v \div 16 \in Nat /\ v % 16 \in 0 .. 16 - 1 /\ v % 16 \in 0 .. 15
        /\ v = 16 * (v \div 16) + (v % 16)
        /\ v # 0 => v \div 16 < v
        /\ (v \div 16 = 0) <=> v < 16
    OBVIOUS
  <2> QED BY <1>2, <2>1
<1> QED BY <1>1, <1>2 DEF Bases

-----------------------------------------------------------------------------
(* The value of a row of digits                                            *)

\* f is the value of the first digits, one more at each turn.
Values(f, digits, base, n) ==
  /\ f[0] = 0 /\ f[n] = ValueOf(digits, base)
  /\ \A k \in 0 .. n : f[k] \in Nat
  /\ \A k \in 1 .. n : f[k] = base * f[k - 1] + DigitValue[digits[k]]

\* The value of a row of digits is reached digit by digit.
LEMMA ValueLoop ==
  ASSUME NEW base \in Bases, NEW digits \in Seq(HexDigits)
  PROVE  \E f : Values(f, digits, base, Len(digits))
<1> DEFINE n == Len(digits)
           step == [k \in 1 .. n |-> [x \in Nat |-> base * x + DigitValue[digits[k]]]]
           Val(f) == f = [k \in 0 .. n |-> IF k = 0 THEN 0
                                           ELSE base * f[k - 1] + DigitValue[digits[k]]]
           value == CHOOSE f : Val(f)
<1>1. n \in Nat /\ base \in Nat
  BY LenProperties DEF Bases
<1>2. \A k \in 1 .. n : DigitValue[digits[k]] \in Nat
  <2> TAKE k \in 1 .. n
  <2>1. digits[k] \in HexDigits
    BY ElementOfSeq
  <2>2. DigitValue[digits[k]] \in 0 .. 15
    BY <2>1, DigitFacts
  <2> QED BY <2>2
<1> HIDE DEF n
<1>3. step \in [1 .. n -> [Nat -> Nat]]
  <2>1. \A x, y, z \in Nat : x * y + z \in Nat
    OBVIOUS
  <2> QED BY <1>1, <1>2, <2>1
<1> HIDE DEF step
<1>4. \E f \in [0 .. n -> Nat] : Val(f)
  <2>1. PICK f \in [0 .. n -> Nat] : Iterates(f, n, 0, step)
    BY <1>1, <1>3, Recursion
  <2>2. ASSUME NEW k \in 0 .. n
        PROVE  f[k] = IF k = 0 THEN 0 ELSE base * f[k - 1] + DigitValue[digits[k]]
    <3>1. f[k] = IF k = 0 THEN 0 ELSE step[k][f[k - 1]]
      BY <2>1 DEF Iterates
    <3>2. k # 0 => k \in 1 .. n /\ f[k - 1] \in Nat
      BY <1>1
    <3> QED BY <3>1, <3>2 DEF step
  <2>3. f = [k \in 0 .. n |-> f[k]]
    OBVIOUS
  <2> QED BY <2>2, <2>3
<1>5. Val(value)
  <2> HIDE DEF Val
  <2> QED BY <1>4
<1>6. ValueOf(digits, base) = value[n]
  BY DEF ValueOf, n
<1> HIDE DEF value
<1>7. value[0] = 0
  BY <1>1, <1>5
<1>8. \A k \in 1 .. n : value[k] = base * value[k - 1] + DigitValue[digits[k]]
  BY <1>1, <1>5
<1>9. \A k \in 0 .. n : value[k] \in Nat
  <2> DEFINE T == {k \in Nat : k <= n => value[k] \in Nat}
  <2>1. 0 \in T
    BY <1>7
  <2>2. ASSUME NEW k \in Nat, k \in T PROVE k + 1 \in T
    <3> SUFFICES ASSUME k + 1 <= n PROVE value[k + 1] \in Nat
      OBVIOUS
    <3>1. k + 1 \in 1 .. n /\ (k + 1) - 1 = k /\ k <= n
      BY <1>1
    <3>2. \A x, y, z \in Nat : x * y + z \in Nat
      OBVIOUS
    <3>3. value[k + 1] = base * value[k] + DigitValue[digits[k + 1]]
      BY <1>8, <3>1
    <3>4. value[k] \in Nat /\ DigitValue[digits[k + 1]] \in Nat
      BY <1>2, <2>2, <3>1
    <3>5. base * value[k] + DigitValue[digits[k + 1]] \in Nat
      BY <1>1, <3>2, <3>4, Zenon
    <3> QED BY <3>3, <3>5
  <2> HIDE DEF T
  <2>3. \A k \in Nat : k \in T
    BY <2>1, <2>2, Induction
  <2> QED BY <1>1, <2>3 DEF T
<1> HIDE DEF Val
<1>10. Values(value, digits, base, n)
  BY <1>6, <1>7, <1>8, <1>9 DEF Values
<1> QED BY <1>10 DEF n

\* No digits are worth nothing, and one more shifts the others.
LEMMA ValueFacts ==
  ASSUME NEW base \in Bases
  PROVE  /\ ValueOf(<<>>, base) = 0
         /\ \A s \in Seq(HexDigits) : ValueOf(s, base) \in Nat
         /\ \A s \in Seq(HexDigits), c \in HexDigits :
              ValueOf(Append(s, c), base) = base * ValueOf(s, base) + DigitValue[c]
<1>1. ValueOf(<<>>, base) = 0
  <2>1. Len(<<>>) = 0 /\ <<>> \in Seq(HexDigits)
    OBVIOUS
  <2>2. PICK f : Values(f, <<>>, base, 0)
    BY <2>1, ValueLoop
  <2> QED BY <2>2 DEF Values
<1>2. \A s \in Seq(HexDigits) : ValueOf(s, base) \in Nat
  <2> TAKE s \in Seq(HexDigits)
  <2>1. PICK f : Values(f, s, base, Len(s))
    BY ValueLoop
  <2>2. Len(s) \in 0 .. Len(s)
    BY LenProperties
  <2> QED BY <2>1, <2>2 DEF Values
<1>3. ASSUME NEW s \in Seq(HexDigits), NEW c \in HexDigits
      PROVE  ValueOf(Append(s, c), base) = base * ValueOf(s, base) + DigitValue[c]
  <2> DEFINE t == Append(s, c)
             n == Len(s)
  <2>1. /\ n \in Nat /\ t \in Seq(HexDigits) /\ Len(t) = n + 1 /\ t[n + 1] = c
        /\ \A k \in 1 .. n : t[k] = s[k]
    BY AppendProperties, LenProperties
  <2> HIDE DEF t, n
  <2>2. PICK f : Values(f, s, base, n)
    BY ValueLoop DEF n
  <2>3. PICK g : Values(g, t, base, n + 1)
    BY <2>1, ValueLoop
  <2>4. /\ g[0] = 0 /\ \A k \in 1 .. n + 1 : g[k] = base * g[k - 1] + DigitValue[t[k]]
        /\ g[n + 1] = ValueOf(t, base)
    BY <2>3 DEF Values
  <2>5. /\ f[0] = 0 /\ \A k \in 1 .. n : f[k] = base * f[k - 1] + DigitValue[s[k]]
        /\ f[n] = ValueOf(s, base)
    BY <2>2 DEF Values
  <2>6. GoAlike(g, f, n)
    <3>1. \A k \in 1 .. n : k \in 1 .. n + 1
      BY <2>1
    <3> QED BY <2>1, <2>4, <2>5, <3>1 DEF GoAlike
  <2>7. g[n] = f[n]
    <3>1. n \in 0 .. n
      BY <2>1
    <3> QED BY <2>1, <2>6, <3>1, Agreement
  <2>8. n + 1 \in 1 .. n + 1 /\ (n + 1) - 1 = n
    BY <2>1
  <2> QED BY <2>1, <2>4, <2>5, <2>7, <2>8 DEF t
<1> QED BY <1>1, <1>2, <1>3

\* Zeros in front are worth nothing.
LEMMA ZerosFacts ==
  ASSUME NEW base \in Bases, NEW s \in Seq(HexDigits), NEW m \in Int
  PROVE  /\ Zeros(m) \o s \in Seq(HexDigits)
         /\ Len(Zeros(m) \o s) = IF m <= 0 THEN Len(s) ELSE m + Len(s)
         /\ m <= 0 => Zeros(m) \o s = s
         /\ ValueOf(Zeros(m) \o s, base) = ValueOf(s, base)
<1> DEFINE z == Zeros(m)
           t == z \o s
           n == Len(s)
<1>1. n \in Nat /\ DigitValue["0"] = 0 /\ "0" \in HexDigits
  <2>1. DigitChar(0) = "0" /\ 0 \in 0 .. 15
    BY DEF DigitChar, DigitChars
  <2> QED BY <2>1, DigitFacts, LenProperties
<1>2. CASE m <= 0
  <2>1. z = <<>>
    BY <1>2 DEF Zeros
  <2>2. t = s
    BY <2>1, ConcatEmptySeq
  <2> QED BY <1>2, <2>2
<1>3. CASE m > 0
  <2>1. m \in Nat /\ z \in [1 .. m -> HexDigits]
    BY <1>1, <1>3 DEF Zeros
  <2>2. z \in Seq(HexDigits) /\ Len(z) = m
    BY <2>1, IsASeq
  <2>3. /\ t \in Seq(HexDigits) /\ Len(t) = m + n
        /\ \A k \in 1 .. m : t[k] = "0"
        /\ \A k \in 1 .. n : t[m + k] = s[k]
    <3>1. \A k \in 1 .. m : z[k] = "0"
      BY DEF Zeros
    <3> HIDE DEF z
    <3>2. /\ t \in Seq(HexDigits) /\ Len(t) = Len(z) + Len(s)
          /\ \A i \in 1 .. Len(z) + Len(s) :
               t[i] = IF i <= Len(z) THEN z[i] ELSE s[i - Len(z)]
      BY <2>2, ConcatProperties
    <3>3. \A k \in 1 .. m : k \in 1 .. m + n /\ k <= m
      BY <1>1, <2>1
    <3>4. \A k \in 1 .. n : m + k \in 1 .. m + n /\ ~(m + k <= m) /\ (m + k) - m = k
      BY <1>1, <2>1
    <3> HIDE DEF t
    <3> QED BY <2>2, <3>1, <3>2, <3>3, <3>4
  <2> HIDE DEF z, t
  <2>4. PICK f : Values(f, t, base, m + n)
    BY <2>3, ValueLoop
  <2>5. /\ f[0] = 0 /\ \A k \in 1 .. m + n : f[k] = base * f[k - 1] + DigitValue[t[k]]
        /\ f[m + n] = ValueOf(t, base)
    BY <2>4 DEF Values
  <2>6. PICK g : Values(g, s, base, n)
    BY ValueLoop
  <2>7. /\ g[0] = 0 /\ \A k \in 1 .. n : g[k] = base * g[k - 1] + DigitValue[s[k]]
        /\ g[n] = ValueOf(s, base)
    BY <2>6 DEF Values
  <2> HIDE DEF n
  <2>8. f[m] = 0
    <3> DEFINE none == [k \in 0 .. m |-> 0]
    <3>1. ASSUME NEW k \in 1 .. m, f[k - 1] = 0 PROVE f[k] = 0
      <4>1. k \in 1 .. m + n /\ t[k] = "0"
        BY <1>1, <2>1, <2>3
      <4>2. f[k] = base * 0 + 0
        BY <1>1, <2>5, <3>1, <4>1
      <4> QED BY <4>2 DEF Bases
    <3>2. GoAlike(f, none, m)
      <4>1. \A k \in 1 .. m : none[k] = 0 /\ none[k - 1] = 0
        BY <2>1
      <4>2. none[0] = 0
        BY <2>1
      <4> HIDE DEF none
      <4> QED BY <2>5, <3>1, <4>1, <4>2 DEF GoAlike
    <3>3. m \in 0 .. m /\ none[m] = 0
      BY <2>1
    <3> HIDE DEF none
    <3> QED BY <2>1, <3>2, <3>3, Agreement
  <2>9. f[m + n] = g[n]
    <3> DEFINE h == [k \in 0 .. n |-> f[m + k]]
    <3>1. GoAlike(h, g, n)
      <4>1. h[0] = f[m]
        BY <1>1, <2>1
      <4>2. ASSUME NEW k \in 1 .. n, h[k - 1] = g[k - 1] PROVE h[k] = g[k]
        <5>1. m + k \in 1 .. m + n /\ (m + k) - 1 = m + (k - 1) /\ k - 1 \in 0 .. n /\ k \in 0 .. n
          BY <1>1, <2>1
        <5>2. h[k] = f[m + k] /\ h[k - 1] = f[m + (k - 1)]
          BY <5>1
        <5> HIDE DEF h
        <5>3. h[k] = base * h[k - 1] + DigitValue[t[m + k]]
          BY <2>5, <5>1, <5>2
        <5>4. g[k] = base * g[k - 1] + DigitValue[s[k]] /\ t[m + k] = s[k]
          BY <2>3, <2>7
        <5> QED BY <4>2, <5>3, <5>4
      <4> HIDE DEF h
      <4> QED BY <2>7, <2>8, <4>1, <4>2 DEF GoAlike
    <3>2. n \in 0 .. n /\ h[n] = f[m + n]
      BY <1>1
    <3> HIDE DEF h
    <3> QED BY <1>1, <3>1, <3>2, Agreement
  <2>10. ValueOf(t, base) = ValueOf(s, base)
    BY <2>5, <2>7, <2>9
  <2> QED BY <1>3, <2>1, <2>3, <2>10 DEF t, z, n
<1> QED BY <1>2, <1>3

\* The digits of v: the last one is the rest of its division by the base, and
\* those in front are the digits of the quotient.
LEMMA LowFacts ==
  ASSUME NEW base \in Bases
  PROVE  /\ LowDigits(0, base) = <<>>
         /\ \A v \in Nat : LowDigits(v, base) \in Seq(HexDigits)
         /\ \A v \in Nat \ {0} :
              LowDigits(v, base) = <<DigitChar(v % base)>> \o LowDigits(v \div base, base)
<1> DEFINE X == Seq(HexDigits)
           step == [n \in Nat |-> [x \in X |-> <<DigitChar(n % base)>> \o x]]
           back == [n \in Nat |-> n \div base]
           Low(f) == f = [n \in Nat |-> IF n = 0 THEN <<>>
                                        ELSE <<DigitChar(n % base)>> \o f[n \div base]]
           low == CHOOSE f : Low(f)
<1>1. \A n \in Nat : DigitChar(n % base) \in HexDigits /\ n \div base \in Nat
  BY DigitOf, DigitFacts
<1>2. \A c \in HexDigits, x \in X : <<c>> \o x \in X
  <2> TAKE c \in HexDigits, x \in X
  <2>1. <<c>> \in Seq(HexDigits)
    OBVIOUS
  <2> QED BY <2>1, ConcatProperties
<1>3. <<>> \in X
  OBVIOUS
<1> HIDE DEF X
<1>4. step \in [Nat -> [X -> X]]
  BY <1>1, <1>2
<1>5. back \in [Nat -> Nat] /\ \A n \in Nat \ {0} : back[n] < n
  BY <1>1, DigitOf
<1>6. \E f \in [Nat -> X] : Low(f)
  <2> HIDE DEF step, back
  <2>1. PICK f \in [Nat -> X] : Recurses(f, <<>>, step, back)
    BY <1>3, <1>4, <1>5, StrongRecursion
  <2>2. ASSUME NEW n \in Nat
        PROVE  f[n] = IF n = 0 THEN <<>> ELSE <<DigitChar(n % base)>> \o f[n \div base]
    <3>1. f[n] = IF n = 0 THEN <<>> ELSE step[n][f[back[n]]]
      BY <2>1 DEF Recurses
    <3>2. back[n] = n \div base /\ f[n \div base] \in X
      BY <1>1 DEF back
    <3> QED BY <3>1, <3>2 DEF step
  <2>3. f = [n \in Nat |-> f[n]]
    OBVIOUS
  <2> QED BY <2>2, <2>3
<1>7. Low(low)
  <2> HIDE DEF Low
  <2> QED BY <1>6
<1>8. \A v \in Nat : LowDigits(v, base) = low[v]
  BY DEF LowDigits
<1> HIDE DEF low, step, back
<1>9. LowDigits(0, base) = <<>>
  BY <1>7, <1>8
<1>10. \A v \in Nat \ {0} :
         LowDigits(v, base) = <<DigitChar(v % base)>> \o LowDigits(v \div base, base)
  BY <1>1, <1>7, <1>8
<1> HIDE DEF Low
<1>11. \A v \in Nat : LowDigits(v, base) \in X
  <2> DEFINE T == {v \in Nat : LowDigits(v, base) \in X}
  <2>1. ASSUME NEW n \in Nat, \A m \in 0 .. n - 1 : m \in T PROVE n \in T
    <3>1. CASE n = 0
      BY <1>3, <1>9, <3>1
    <3>2. CASE n # 0
      <4>1. n \div base \in Nat /\ n \div base < n
        BY <3>2, DigitOf
      <4>2. n \div base \in 0 .. n - 1
        BY <4>1
      <4>3. LowDigits(n \div base, base) \in X
        BY <2>1, <4>2
      <4> QED BY <1>1, <1>2, <1>10, <3>2, <4>3
    <3> QED BY <3>1, <3>2
  <2> HIDE DEF T
  <2>2. \A v \in Nat : v \in T
    BY <2>1, StrongInduction
  <2> QED BY <2>2 DEF T
<1> QED BY <1>9, <1>10, <1>11 DEF X

\* The digits of v, the first one first: they denote v and start with another
\* digit than 0.
LEMMA HighFacts ==
  ASSUME NEW base \in Bases
  PROVE  \A v \in Nat :
           LET r == Reverse(LowDigits(v, base))
           IN  /\ r \in Seq(HexDigits) /\ (base = 10 => r \in Seq(Decimals))
               /\ ValueOf(r, base) = v
               /\ v = 0 => r = <<>>
               /\ v # 0 => Len(r) >= 1 /\ r[1] # "0"
<1> DEFINE R(v) == Reverse(LowDigits(v, base))
           Good(v) == /\ R(v) \in Seq(HexDigits) /\ (base = 10 => R(v) \in Seq(Decimals))
                      /\ ValueOf(R(v), base) = v
                      /\ v = 0 => R(v) = <<>>
                      /\ v # 0 => Len(R(v)) >= 1 /\ R(v)[1] # "0"
           T == {v \in Nat : Good(v)}
<1>1. Good(0)
  <2>1. R(0) = <<>>
    BY LowFacts, ReverseFacts
  <2>2. <<>> \in Seq(HexDigits) /\ <<>> \in Seq(Decimals) /\ ValueOf(<<>>, base) = 0
    BY ValueFacts
  <2> HIDE DEF R
  <2> QED BY <2>1, <2>2
<1>2. ASSUME NEW v \in Nat, v # 0, Good(v \div base) PROVE Good(v)
  <2> DEFINE q == v \div base
             d == v % base
             c == DigitChar(d)
  <2>1. /\ q \in Nat /\ d \in 0 .. base - 1 /\ d \in 0 .. 15
        /\ v = base * q + d /\ (q = 0 <=> v < base)
    BY DigitOf
  <2>2. LowDigits(v, base) = <<c>> \o LowDigits(q, base) /\ LowDigits(q, base) \in Seq(HexDigits)
    BY <1>2, <2>1, LowFacts
  <2> HIDE DEF q, d
  <2>3. c \in HexDigits /\ DigitValue[c] = d
    BY <2>1, DigitFacts
  <2>4. R(v) = Append(R(q), c)
    BY <2>2, <2>3, ReverseFacts
  <2>5. Good(q)
    BY <1>2 DEF q
  <2>6. base = 10 => c \in Decimals
    BY <2>1 DEF Decimals
  <2> DEFINE r == R(q)
  <2> HIDE DEF c
  <2>7. /\ r \in Seq(HexDigits) /\ (base = 10 => r \in Seq(Decimals)) /\ ValueOf(r, base) = q
        /\ q = 0 => r = <<>>
        /\ q # 0 => Len(r) >= 1 /\ r[1] # "0"
    BY <2>5
  <2> DEFINE t == Append(r, c)
  <2> HIDE DEF r, Good
  <2>8. t \in Seq(HexDigits) /\ Len(t) = Len(r) + 1 /\ (Len(r) >= 1 => t[1] = r[1])
    <3>1. Len(r) \in Nat
      BY <2>7, LenProperties
    <3> QED BY <2>3, <2>7, <3>1, AppendProperties
  <2>9. base = 10 => t \in Seq(Decimals)
    BY <2>6, <2>7, AppendProperties
  <2>10. ValueOf(t, base) = v
    <3>1. ValueOf(t, base) = base * q + d
      BY <2>3, <2>7, ValueFacts
    <3> QED BY <2>1, <3>1
  <2>11. Len(t) >= 1 /\ t[1] # "0"
    <3>1. CASE q # 0
      <4>1. Len(r) \in Nat
        BY <2>7, LenProperties
      <4> QED BY <2>7, <2>8, <3>1, <4>1
    <3>2. CASE q = 0
      <4>1. t = <<c>> /\ d = v
        <5>1. t = <<c>>
          BY <2>7, <3>2
        <5>2. base * 0 = 0
          BY DEF Bases
        <5> QED BY <2>1, <3>2, <5>1, <5>2
      <4>2. c # "0"
        <5>1. DigitChar(0) = "0" /\ 0 \in 0 .. 15
          BY DEF DigitChar, DigitChars
        <5>2. DigitValue["0"] = 0
          BY <5>1, DigitFacts
        <5> QED BY <1>2, <2>3, <4>1, <5>2
      <4> QED BY <4>1, <4>2
    <3> QED BY <3>1, <3>2
  <2> HIDE DEF t
  <2>12. R(v) = t
    BY <2>4 DEF t, r
  <2> QED BY <1>2, <2>8, <2>9, <2>10, <2>11, <2>12 DEF Good
<1> HIDE DEF Good
<1>3. ASSUME NEW n \in Nat, \A m \in 0 .. n - 1 : m \in T PROVE n \in T
  <2>1. CASE n = 0
    BY <1>1, <2>1
  <2>2. CASE n # 0
    <3>1. n \div base \in Nat /\ n \div base < n
      BY <2>2, DigitOf
    <3>2. n \div base \in 0 .. n - 1
      BY <3>1
    <3> QED BY <1>2, <1>3, <2>2, <3>2
  <2> QED BY <2>1, <2>2
<1> HIDE DEF T
<1>4. \A v \in Nat : v \in T
  BY <1>3, StrongInduction
<1> QED BY <1>4 DEF T, Good

\* A sign is not a digit.
LEMMA SignFacts == "-" \notin HexDigits /\ "+" \notin HexDigits
<1>1. /\ DOMAIN DigitChars = 1 .. 16
      /\ \A i \in 1 .. 16 : DigitChars[i] # "-" /\ DigitChars[i] # "+"
  BY DEF DigitChars
<1> QED BY <1>1 DEF HexDigits, Range

\* A number is written by at least one digit, and no 0 stands in front of others.
LEMMA DigitsFacts ==
  ASSUME NEW base \in Bases, NEW v \in Nat
  PROVE  LET s == Digits(v, base)
         IN  /\ s \in Seq(HexDigits) /\ (base = 10 => s \in Seq(Decimals))
             /\ ValueOf(s, base) = v
             /\ Len(s) >= 1 /\ (Len(s) > 1 => s[1] # "0")
             /\ s = IF v = 0 THEN <<"0">> ELSE Reverse(LowDigits(v, base))
<1> DEFINE s == Digits(v, base)
           r == Reverse(LowDigits(v, base))
<1>1. s = IF v = 0 THEN <<"0">> ELSE r
  BY DEF Digits
<1>2. /\ r \in Seq(HexDigits) /\ (base = 10 => r \in Seq(Decimals)) /\ ValueOf(r, base) = v
      /\ v # 0 => Len(r) >= 1 /\ r[1] # "0"
  BY HighFacts
<1> HIDE DEF s, r
<1>3. CASE v # 0
  BY <1>1, <1>2, <1>3 DEF s, r
<1>4. CASE v = 0
  <2>1. DigitChar(0) = "0" /\ 0 \in 0 .. 15 /\ 0 \in 0 .. 9
    BY DEF DigitChar, DigitChars
  <2>2. "0" \in HexDigits /\ "0" \in Decimals /\ DigitValue["0"] = 0
    <3>1. "0" \in Decimals
      BY <2>1 DEF Decimals
    <3> QED BY <2>1, <3>1, DigitFacts
  <2>3. <<"0">> \in Seq(HexDigits) /\ <<"0">> \in Seq(Decimals) /\ Len(<<"0">>) = 1
    BY <2>2
  <2>4. ValueOf(<<"0">>, base) = 0
    <3>1. <<>> \in Seq(HexDigits) /\ Append(<<>>, "0") = <<"0">>
      OBVIOUS
    <3>2. ValueOf(<<"0">>, base) = base * 0 + 0
      BY <2>2, <3>1, ValueFacts
    <3> QED BY <3>2 DEF Bases
  <2>5. s = <<"0">>
    BY <1>1, <1>4
  <2>6. ~(Len(s) > 1) /\ Len(s) >= 1
    BY <2>3, <2>5
  <2> QED BY <1>4, <2>3, <2>4, <2>5, <2>6 DEF s, r
<1> QED BY <1>3, <1>4

-----------------------------------------------------------------------------
(* Base 16                                                                 *)

\* Padding keeps the value, and leaves what is long enough as it is.
LEMMA PaddedFacts ==
  ASSUME NEW base \in Bases, NEW s \in Seq(HexDigits), NEW w \in Nat
  PROVE  LET p == Padded(s, w)
         IN  /\ p \in Seq(HexDigits) /\ ValueOf(p, base) = ValueOf(s, base)
             /\ Len(p) = IF w <= Len(s) THEN Len(s) ELSE w
             /\ w <= Len(s) => p = s
<1> DEFINE m == w - Len(s)
           p == Padded(s, w)
<1>1. Len(s) \in Nat /\ m \in Int /\ (m <= 0 <=> w <= Len(s)) /\ m + Len(s) = w
  BY LenProperties
<1>2. p = Zeros(m) \o s
  BY DEF Padded
<1> HIDE DEF m, p
<1>3. /\ p \in Seq(HexDigits) /\ Len(p) = IF m <= 0 THEN Len(s) ELSE m + Len(s)
      /\ m <= 0 => p = s
      /\ ValueOf(p, base) = ValueOf(s, base)
  BY <1>1, <1>2, ZerosFacts
<1> QED BY <1>1, <1>3 DEF p

\* The ways to write a number in base 16 that take any number: with a width
\* they pad, and up to a width of 1 they leave it as it is.
LEMMA HexFacts ==
  ASSUME NEW v \in Nat, NEW w \in Nat
  PROVE  LET hex == hex32_to_str(v, w)
         IN  /\ hex \in Seq(HexDigits) /\ ValueOf(hex, 16) = v
             /\ Len(hex) >= w /\ (Len(hex) > Max({w, 1}) => hex[1] # "0")
             /\ write_hex(v, w) = hex
             /\ w <= 1 => itoa(v, 16) = hex
<1> DEFINE s == Digits(v, 16)
           hex == hex32_to_str(v, w)
           base == 16
<1>1. base \in Bases
  BY DEF Bases
<1>2. /\ s \in Seq(HexDigits) /\ ValueOf(s, 16) = v
      /\ Len(s) >= 1 /\ (Len(s) > 1 => s[1] # "0")
      /\ s = IF v = 0 THEN <<"0">> ELSE Reverse(LowDigits(v, 16))
  BY <1>1, DigitsFacts
<1>3. hex = Padded(s, w)
  BY DEF hex32_to_str
<1> HIDE DEF s, hex
<1>4. /\ hex \in Seq(HexDigits) /\ ValueOf(hex, 16) = v
      /\ Len(hex) = IF w <= Len(s) THEN Len(s) ELSE w
      /\ w <= Len(s) => hex = s
  BY <1>1, <1>2, <1>3, PaddedFacts
<1>5. Len(s) \in Nat /\ Len(hex) \in Nat
  BY <1>2, <1>4, LenProperties
<1>6. Len(hex) >= w /\ (Len(hex) > Max({w, 1}) => hex[1] # "0")
  <2>1. Max({w, 1}) = IF w <= 1 THEN 1 ELSE w
    BY OfTwo
  <2> QED BY <1>2, <1>4, <1>5, <2>1
<1>7. write_hex(v, w) = hex
  <2>1. CASE v # 0
    <3>1. write_hex(v, w) = Padded(Reverse(LowDigits(v, 16)), w)
      BY <2>1 DEF write_hex
    <3> QED BY <1>2, <1>3, <2>1, <3>1
  <2>2. CASE v = 0 /\ w = 0
    <3>1. write_hex(v, w) = <<"0">> /\ s = <<"0">> /\ w <= Len(s)
      BY <1>2, <1>5, <2>2 DEF write_hex
    <3> QED BY <1>4, <3>1
  <2>3. CASE v = 0 /\ w # 0
    <3> DEFINE p == Zeros(w)
               q == Zeros(w - 1)
               a == p \o <<>>
               b == q \o <<"0">>
    <3>1. "0" \in HexDigits
      <4>1. DigitChar(0) = "0" /\ 0 \in 0 .. 15
        BY DEF DigitChar, DigitChars
      <4> QED BY <4>1, DigitFacts
    <3>2. write_hex(v, w) = a
      <4>1. Reverse(LowDigits(v, 16)) = <<>> /\ Len(<<>>) = 0 /\ w - 0 = w
        BY <1>1, <2>3, HighFacts
      <4> QED BY <2>3, <4>1 DEF write_hex, Padded
    <3>3. hex = b
      <4>1. s = <<"0">> /\ Len(<<"0">>) = 1
        BY <1>2, <2>3
      <4> QED BY <1>3, <4>1 DEF Padded
    <3>4. /\ p \in Seq(HexDigits) /\ Len(p) = w /\ \A i \in 1 .. w : p[i] = "0"
      <4>1. p \in [1 .. w -> HexDigits] /\ \A i \in 1 .. w : p[i] = "0"
        BY <3>1 DEF Zeros
      <4> QED BY <4>1, IsASeq
    <3>5. w - 1 \in Nat
      BY <2>3
    <3>6. /\ q \in Seq(HexDigits) /\ Len(q) = w - 1 /\ \A i \in 1 .. w - 1 : q[i] = "0"
      <4>1. q \in [1 .. w - 1 -> HexDigits] /\ \A i \in 1 .. w - 1 : q[i] = "0"
        BY <3>1 DEF Zeros
      <4> QED BY <3>5, <4>1, IsASeq
    <3> HIDE DEF p, q
    <3>7. a = p
      BY <3>4, ConcatEmptySeq
    <3>8. b = Append(q, "0")
      <4>1. Append(q, "0") = q \o <<"0">>
        BY <3>1, <3>6, AppendIsConcat
      <4> QED BY <4>1
    <3>9. /\ b \in Seq(HexDigits) /\ Len(b) = w /\ b[w] = "0"
          /\ \A i \in 1 .. w - 1 : b[i] = "0"
      <4>1. (w - 1) + 1 = w
        OBVIOUS
      <4>2. /\ Append(q, "0") \in Seq(HexDigits) /\ Len(Append(q, "0")) = Len(q) + 1
            /\ Append(q, "0")[Len(q) + 1] = "0"
            /\ \A i \in 1 .. Len(q) : Append(q, "0")[i] = q[i]
        BY <3>1, <3>6, AppendProperties
      <4> HIDE DEF b
      <4> QED BY <3>6, <3>8, <4>1, <4>2
    <3> HIDE DEF a, b
    <3>10. \A i \in 1 .. w : a[i] = b[i]
      <4> TAKE i \in 1 .. w
      <4>1. i = w \/ i \in 1 .. w - 1
        OBVIOUS
      <4> QED BY <3>4, <3>7, <3>9, <4>1
    <3>11. a = b
      BY <3>4, <3>7, <3>9, <3>10, SeqEqual
    <3> QED BY <3>2, <3>3, <3>11
  <2> QED BY <2>1, <2>2, <2>3
<1>8. w <= 1 => itoa(v, 16) = hex
  <2>1. itoa(v, 16) = s
    <3>1. ~(v < 0)
      OBVIOUS
    <3> QED BY <1>2, <3>1 DEF itoa
  <2>2. w <= 1 => w <= Len(s)
    BY <1>2, <1>5
  <2> QED BY <1>4, <2>1, <2>2
<1> QED BY <1>4, <1>6, <1>7, <1>8 DEF hex

\* What HexAgrees says of a number and a width
HexWritten(v, w) ==
  LET hex == hex32_to_str(v, w)
  IN  /\ ValueOf(hex, 16) = v
      /\ Len(hex) >= w /\ (Len(hex) > Max({w, 1}) => hex[1] # "0")
      /\ write_hex(v, w) = hex
      /\ w <= HEX_DIGITS => serial_print_hex(v, w) = hex
      /\ w <= 1 => itoa(v, 16) = hex

\* A number of the machine fits in the buffer of serial_print_hex.
LEMMA HexCorrect ==
  ASSUME NEW v \in 0 .. INT_MAX, NEW w \in Nat
  PROVE  HexWritten(v, w)
<1> DEFINE p == 16^HEX_DIGITS
<1>1. p \in Nat /\ INT_MAX < p /\ INT_MAX \in Nat /\ HEX_DIGITS \in Nat /\ v \in Nat
  BY TextAssumption
<1>2. v % p = v
  <2> HIDE DEF p
  <2> QED BY <1>1
<1>3. w <= HEX_DIGITS => Min({w, HEX_DIGITS}) = w
  BY <1>1, OfTwo
<1>4. w <= HEX_DIGITS => serial_print_hex(v, w) = hex32_to_str(v, w)
  BY <1>2, <1>3 DEF serial_print_hex, hex32_to_str
<1> QED BY <1>1, <1>4, HexFacts DEF HexWritten

-----------------------------------------------------------------------------
(* atoi                                                                    *)

\* One digit: the result goes on unless it would not fit in an int.
LEMMA StepFacts ==
  ASSUME NEW s, s \in [result : Nat, over : BOOLEAN], NEW d \in 0 .. 9,
         NEW x \in Nat, ~s.over => s.result = x /\ x <= INT_MAX, s.over => x > INT_MAX
  PROVE  LET t == DigitStep(s, d)
         IN  /\ t \in [result : Nat, over : BOOLEAN]
             /\ ~t.over => t.result = 10 * x + d /\ 10 * x + d <= INT_MAX
             /\ t.over => 10 * x + d > INT_MAX
<1>1. INT_MAX \in Nat
  BY TextAssumption
<1>2. 10 * x + d \in Nat /\ 10 * x + d >= x
  OBVIOUS
<1>3. CASE s.over
  <2>1. DigitStep(s, d) = [s EXCEPT !.over = TRUE]
    BY <1>3 DEF DigitStep
  <2>2. [s EXCEPT !.over = TRUE] \in [result : Nat, over : BOOLEAN] /\ [s EXCEPT !.over = TRUE].over
    OBVIOUS
  <2>3. 10 * x + d > INT_MAX
    BY <1>1, <1>2, <1>3
  <2> QED BY <2>1, <2>2, <2>3
<1>4. CASE ~s.over
  <2> DEFINE q == (INT_MAX - d) \div 10
  <2>1. q \in Int /\ 10 * q <= INT_MAX - d /\ INT_MAX - d < 10 * q + 10
    BY <1>1
  <2>2. Overflows(s.result, d) <=> x > q
    BY <1>4 DEF Overflows
  <2> HIDE DEF q
  <2>3. x > q <=> 10 * x + d > INT_MAX
    BY <1>1, <2>1
  <2>4. CASE Overflows(s.result, d)
    <3>1. DigitStep(s, d) = [s EXCEPT !.over = TRUE]
      BY <2>4 DEF DigitStep
    <3>2. /\ [s EXCEPT !.over = TRUE] \in [result : Nat, over : BOOLEAN]
          /\ [s EXCEPT !.over = TRUE].over
      OBVIOUS
    <3> QED BY <2>2, <2>3, <2>4, <3>1, <3>2
  <2>5. CASE ~Overflows(s.result, d)
    <3>1. DigitStep(s, d) = [s EXCEPT !.result = 10 * s.result + d]
      BY <1>4, <2>5 DEF DigitStep
    <3> DEFINE y == 10 * x + d
    <3>2. 10 * s.result + d = y /\ y \in Nat
      BY <1>2, <1>4
    <3>3. y <= INT_MAX
      BY <1>1, <1>2, <2>2, <2>3, <2>5
    <3> HIDE DEF y
    <3>4. DigitStep(s, d) = [s EXCEPT !.result = y]
      BY <3>1, <3>2
    <3>5. /\ [s EXCEPT !.result = y] \in [result : Nat, over : BOOLEAN]
          /\ [s EXCEPT !.result = y].result = y /\ ~[s EXCEPT !.result = y].over
      BY <1>4, <3>2
    <3> QED BY <3>3, <3>4, <3>5 DEF y
  <2> QED BY <2>4, <2>5
<1> QED BY <1>3, <1>4

\* What the digits make of an int
Reading(s, x) ==
  /\ s \in [result : Nat, over : BOOLEAN]
  /\ ~s.over => s.result = x /\ x <= INT_MAX
  /\ s.over => x > INT_MAX

\* The turns of the loop of atoi
Reads(digits) ==
  CHOOSE read : read = [k \in 0 .. Len(digits) |->
    IF k = 0 THEN [result |-> 0, over |-> FALSE]
    ELSE DigitStep(read[k - 1], DigitValue[digits[k]])]

\* atoi has the value of the digits, or has seen that it is too large.
LEMMA ReadLoop ==
  ASSUME NEW digits \in Seq(Decimals)
  PROVE  Reading(Reads(digits)[Len(digits)], ValueOf(digits, 10))
<1> DEFINE n == Len(digits)
           X == [result : Nat, over : BOOLEAN]
           first == [result |-> 0, over |-> FALSE]
           step == [k \in 1 .. n |-> [s \in X |-> DigitStep(s, DigitValue[digits[k]])]]
           IsRead(f) == f = [k \in 0 .. n |-> IF k = 0 THEN first
                                              ELSE DigitStep(f[k - 1], DigitValue[digits[k]])]
           read == Reads(digits)
<1>1. n \in Nat /\ digits \in Seq(HexDigits) /\ 10 \in Bases
  <2>1. \A i \in 1 .. n : digits[i] \in HexDigits
    BY DigitFacts, ElementOfSeq
  <2>2. n \in Nat /\ DOMAIN digits = 1 .. n /\ digits \in [1 .. n -> Decimals]
    BY LenProperties
  <2>3. digits \in [1 .. n -> HexDigits]
    BY <2>1, <2>2
  <2> QED BY <2>2, <2>3, IsASeq DEF Bases
<1>2. \A k \in 1 .. n : DigitValue[digits[k]] \in 0 .. 9
  <2> TAKE k \in 1 .. n
  <2>1. digits[k] \in Decimals
    BY ElementOfSeq
  <2> QED BY <2>1, DigitFacts
<1>3. first \in X
  OBVIOUS
<1> HIDE DEF n
<1>4. ASSUME NEW k \in 1 .. n, NEW s \in X PROVE DigitStep(s, DigitValue[digits[k]]) \in X
  <2> DEFINE d == DigitValue[digits[k]]
  <2>1. d \in 0 .. 9
    BY <1>2
  <2> HIDE DEF d
  <2>2. s.result \in Nat /\ 10 * s.result + d \in Nat
    BY <2>1
  <2>3. DigitStep(s, d) \in X
    BY <2>2 DEF DigitStep
  <2> QED BY <2>3 DEF d
<1> HIDE DEF X, first
<1>5. \E f \in [0 .. n -> X] : IsRead(f)
  <2>1. step \in [1 .. n -> [X -> X]]
    BY <1>4
  <2> HIDE DEF step
  <2>2. PICK f \in [0 .. n -> X] : Iterates(f, n, first, step)
    BY <1>1, <1>3, <2>1, Recursion
  <2>3. ASSUME NEW k \in 0 .. n
        PROVE  f[k] = IF k = 0 THEN first ELSE DigitStep(f[k - 1], DigitValue[digits[k]])
    <3>1. f[k] = IF k = 0 THEN first ELSE step[k][f[k - 1]]
      BY <2>2 DEF Iterates
    <3>2. k # 0 => k \in 1 .. n /\ f[k - 1] \in X
      BY <1>1
    <3> QED BY <3>1, <3>2 DEF step
  <2>4. f = [k \in 0 .. n |-> f[k]]
    OBVIOUS
  <2> QED BY <2>3, <2>4
<1>6. IsRead(read)
  <2>1. read = CHOOSE f : IsRead(f)
    BY DEF Reads, n, first
  <2> HIDE DEF IsRead, read
  <2> QED BY <1>5, <2>1
<1> HIDE DEF read, step
<1>7. read[0] = first /\ \A k \in 1 .. n : read[k] = DigitStep(read[k - 1], DigitValue[digits[k]])
  BY <1>1, <1>6
<1> HIDE DEF IsRead
<1>8. PICK f : Values(f, digits, 10, n)
  BY <1>1, ValueLoop DEF n
<1>9. /\ f[0] = 0 /\ f[n] = ValueOf(digits, 10)
      /\ \A k \in 0 .. n : f[k] \in Nat
      /\ \A k \in 1 .. n : f[k] = 10 * f[k - 1] + DigitValue[digits[k]]
  BY <1>8 DEF Values
<1> DEFINE T == {k \in Nat : k <= n => Reading(read[k], f[k])}
<1>10. 0 \in T
  <2>1. Reading(first, 0)
    BY TextAssumption DEF Reading, first
  <2> QED BY <1>7, <1>9, <2>1
<1>11. ASSUME NEW k \in Nat, k \in T PROVE k + 1 \in T
  <2>1. k + 1 \in Nat
    OBVIOUS
  <2> SUFFICES ASSUME k + 1 <= n PROVE Reading(read[k + 1], f[k + 1])
    BY <2>1
  <2>2. k + 1 \in 1 .. n /\ (k + 1) - 1 = k /\ k <= n /\ k \in 0 .. n
    BY <1>1
  <2>3. Reading(read[k], f[k]) /\ f[k] \in Nat
    BY <1>9, <1>11, <2>2
  <2> DEFINE s == read[k]
             x == f[k]
             d == DigitValue[digits[k + 1]]
  <2>4. d \in 0 .. 9 /\ read[k + 1] = DigitStep(s, d) /\ f[k + 1] = 10 * x + d
    BY <1>2, <1>7, <1>9, <2>2
  <2>5. Reading(s, x) /\ x \in Nat
    BY <2>3
  <2> HIDE DEF s, x, d
  <2>6. Reading(DigitStep(s, d), 10 * x + d)
    BY <2>4, <2>5, StepFacts DEF Reading
  <2> QED BY <2>4, <2>6
<1> HIDE DEF T
<1>12. \A k \in Nat : k \in T
  BY <1>10, <1>11, Induction
<1>13. Reading(read[n], f[n])
  BY <1>1, <1>12 DEF T
<1> QED BY <1>9, <1>13 DEF read, n

\* The nearest int
NearestInt(x) == Min({INT_MAX, Max({-INT_MAX - 1, x})})

\* The nearest int of a number is itself unless it is too large or too small.
LEMMA ClampFacts ==
  ASSUME NEW x \in Int
  PROVE  NearestInt(x) = IF x > INT_MAX THEN INT_MAX
                      ELSE IF x < -INT_MAX - 1 THEN -INT_MAX - 1 ELSE x
<1> DEFINE m == Max({-INT_MAX - 1, x})
<1>1. INT_MAX \in Nat /\ -INT_MAX - 1 \in Int
  BY TextAssumption
<1>2. m = IF -INT_MAX - 1 <= x THEN x ELSE -INT_MAX - 1
  BY <1>1, OfTwo
<1> HIDE DEF m
<1>3. m \in Int
  BY <1>1, <1>2
<1>4. Min({INT_MAX, m}) = IF INT_MAX <= m THEN INT_MAX ELSE m
  BY <1>1, <1>3, OfTwo
<1> QED BY <1>1, <1>2, <1>4 DEF NearestInt, m

\* The first place from i on with a property, or the end
LEMMA FirstPlace ==
  ASSUME NEW n \in Nat, NEW T \in SUBSET (1 .. n), NEW i \in 1 .. n + 1,
         \A k \in 1 .. i - 1 : k \notin T, i <= n => i \in T
  PROVE  Min(T \cup {n + 1}) = i
<1> DEFINE U == T \cup {n + 1}
<1>1. U \in SUBSET Nat /\ U # {}
  OBVIOUS
<1>2. i \in U /\ \A k \in U : i <= k
  OBVIOUS
<1> HIDE DEF U
<1>3. Min(U) \in U /\ \A y \in U : Min(U) <= y
  BY <1>1, MinExists
<1>4. Min(U) <= i /\ i <= Min(U) /\ Min(U) \in Nat
  BY <1>1, <1>2, <1>3
<1>5. Min(U) = i
  BY <1>4
<1> QED BY <1>5 DEF U

\* atoi finds the number, whatever is in front of it and after it.
LEMMA AtoiFacts ==
  ASSUME NEW S, NEW str \in Seq(S), NEW i \in 0 .. Len(str), NEW j \in 0 .. Len(str),
         NEW k \in 0 .. Len(str), Numeral(str, i, j, k)
  PROVE  atoi(str) = NearestInt(Signed10(SubSeq(str, i + 1, k)))
<1> DEFINE l == Len(str)
           first == Min({m \in DOMAIN str : str[m] # Space} \cup {l + 1})
           signed == first <= l /\ str[first] \in {"-", "+"}
           start == IF signed THEN first + 1 ELSE first
           sign == IF signed /\ str[first] = "-" THEN -1 ELSE 1
           digits == SubSeq(str, start, DigitsEnd(str, start) - 1)
           last == Reads(digits)[Len(digits)]
<1>1. l \in Nat /\ DOMAIN str = 1 .. l /\ \A m \in 1 .. l : str[m] \in S
  BY LenProperties, ElementOfSeq
<1>2. i \in Nat /\ j \in Nat /\ k \in Nat /\ i <= j /\ j <= k /\ k <= l
  <2>1. i <= j /\ j <= k
    BY DEF Numeral
  <2> QED BY <1>1, <2>1
<1>3. \A m \in 1 .. i : str[m] = Space
  BY DEF Numeral
<1>4. i < l => str[i + 1] # Space
  BY DEF Numeral
<1>5. j = IF i < l /\ str[i + 1] \in {"-", "+"} THEN i + 1 ELSE i
  BY DEF Numeral
<1>6. \A m \in j + 1 .. k : str[m] \in Decimals
  BY DEF Numeral
<1>7. k < l => str[k + 1] \notin Decimals
  BY DEF Numeral
<1>8. atoi(str) = IF ~last.over THEN sign * last.result
                  ELSE IF sign = 1 THEN INT_MAX ELSE -INT_MAX - 1
  BY DEF atoi, Reads
<1> HIDE DEF l
<1>9. first = i + 1
  <2> DEFINE T == {m \in 1 .. l : str[m] # Space}
             e == i + 1
  <2>1. T \in SUBSET (1 .. l) /\ e \in 1 .. l + 1 /\ e - 1 = i
    <3>1. T \in SUBSET (1 .. l)
      OBVIOUS
    <3>2. i <= l
      BY <1>1, <1>2
    <3>3. \A m \in Nat : m <= l => m + 1 \in 1 .. l + 1 /\ (m + 1) - 1 = m
      BY <1>1
    <3> QED BY <1>2, <3>1, <3>2, <3>3
  <2>2. e <= l => e \in T
    <3>1. e <= l => e \in 1 .. l /\ i < l
      BY <1>1, <1>2
    <3> QED BY <1>4, <3>1
  <2>3. \A m \in 1 .. i : m \notin T
    BY <1>3
  <2> HIDE DEF T, e
  <2>4. Min(T \cup {l + 1}) = e
    BY <1>1, <2>1, <2>2, <2>3, FirstPlace
  <2> QED BY <1>1, <2>4 DEF T, e, first, l
<1> HIDE DEF first
<1>10. signed <=> i < l /\ str[i + 1] \in {"-", "+"}
  <2>1. i + 1 <= l <=> i < l
    BY <1>1, <1>2
  <2> QED BY <1>9, <2>1
<1>11. start = j + 1 /\ (signed => j = i + 1) /\ (~signed => j = i)
  BY <1>9, <1>10, <1>5
<1> HIDE DEF signed, start
<1>12. DigitsEnd(str, start) - 1 = k
  <2> DEFINE T == {m \in j + 1 .. l : str[m] \notin Decimals}
             e == k + 1
  <2>1. T \in SUBSET (1 .. l) /\ e \in 1 .. l + 1 /\ e - 1 = k
    BY <1>1, <1>2
  <2>2. \A m \in 1 .. k : m \notin T
    <3>1. \A m \in 1 .. k : m \in j + 1 .. l => m \in j + 1 .. k
      BY <1>2
    <3> QED BY <1>6, <3>1
  <2>3. e <= l => e \in T
    <3>1. e <= l => e \in j + 1 .. l /\ k < l
      BY <1>1, <1>2
    <3> QED BY <1>7, <3>1
  <2>4. DigitsEnd(str, start) = Min(T \cup {l + 1})
    BY <1>11 DEF DigitsEnd, l
  <2> HIDE DEF T, e
  <2>5. Min(T \cup {l + 1}) = e
    BY <1>1, <2>1, <2>2, <2>3, FirstPlace
  <2> QED BY <2>1, <2>4, <2>5
<1>13. digits = SubSeq(str, j + 1, k)
  BY <1>11, <1>12
<1> HIDE DEF digits
<1>14. /\ digits \in Seq(Decimals) /\ digits \in Seq(S) /\ Len(digits) = k - j
      /\ \A m \in 1 .. k - j : digits[m] = str[j + m]
  <2> DEFINE a == j + 1
  <2>1. a \in Int /\ k \in Int /\ (a <= k => k - a + 1 = k - j) /\ (~(a <= k) => k - j = 0)
    BY <1>2
  <2>2. \A m \in a .. k : str[m] \in Decimals /\ str[m] \in S
    <3>1. \A m \in a .. k : m \in 1 .. l
      BY <1>1, <1>2
    <3> QED BY <1>1, <1>6, <3>1
  <2>3. /\ digits \in Seq(Decimals) /\ digits \in Seq(S)
        /\ Len(digits) = IF a <= k THEN k - a + 1 ELSE 0
        /\ \A m \in 1 .. k - a + 1 : digits[m] = str[a + m - 1]
    BY <1>13, <2>1, <2>2, SubSeqProperties
  <2>4. k - a + 1 = k - j /\ \A m \in 1 .. k - j : a + m - 1 = j + m
    BY <1>2
  <2> HIDE DEF a
  <2> QED BY <2>1, <2>3, <2>4
<1> DEFINE x == ValueOf(digits, 10)
           u == SubSeq(str, i + 1, k)
<1>15. Reading(last, x) /\ x \in Nat
  <2>1. digits \in Seq(HexDigits) /\ 10 \in Bases
    <3>1. DOMAIN digits = 1 .. Len(digits) /\ Len(digits) \in Nat
      BY <1>14, LenProperties
    <3>2. \A m \in 1 .. Len(digits) : digits[m] \in HexDigits
      BY <1>14, DigitFacts, ElementOfSeq
    <3>3. digits = [m \in 1 .. Len(digits) |-> digits[m]]
      BY <1>14, <3>1
    <3> QED BY <3>1, <3>2, <3>3, IsASeq DEF Bases
  <2> QED BY <1>14, <2>1, ReadLoop, ValueFacts
<1> HIDE DEF last, x
<1>16. Signed10(u) = sign * x
  <2>1. CASE signed
    <3>1. str[i + 1] \in {"-", "+"} /\ j = i + 1
      BY <1>10, <1>11, <2>1
    <3>2. i + 1 \in 1 .. l /\ i + 1 <= k /\ i + 1 \in Int /\ k \in Int
      BY <1>1, <1>2, <3>1
    <3>3. \A m \in i + 1 .. k : str[m] \in S
      <4>1. \A m \in i + 1 .. k : m \in 1 .. l
        BY <1>1, <1>2
      <4> QED BY <1>1, <4>1
    <3> DEFINE a == i + 1
    <3>4. /\ u \in Seq(S) /\ Len(u) = k - a + 1 /\ Len(u) >= 1 /\ Len(u) - 1 = k - j
          /\ \A m \in 1 .. k - a + 1 : u[m] = str[a + m - 1]
      <4> HIDE DEF a
      <4>1. /\ SubSeq(str, a, k) \in Seq(S)
            /\ Len(SubSeq(str, a, k)) = IF a <= k THEN k - a + 1 ELSE 0
            /\ \A m \in 1 .. k - a + 1 : SubSeq(str, a, k)[m] = str[a + m - 1]
        BY <3>2, <3>3, SubSeqProperties DEF a
      <4>2. u = SubSeq(str, a, k)
        BY DEF a
      <4>3. a <= k /\ k - a + 1 >= 1 /\ (k - a + 1) - 1 = k - j
        BY <1>2, <3>1, <3>2 DEF a
      <4> HIDE DEF u
      <4> QED BY <4>1, <4>2, <4>3
    <3> HIDE DEF u
    <3>5. u[1] = str[i + 1]
      <4>1. 1 \in 1 .. k - a + 1 /\ a + 1 - 1 = i + 1
        BY <1>2, <3>2
      <4> QED BY <3>4, <4>1
    <3>6. u # <<>>
      BY <3>4
    <3>7. Tail(u) = digits
      <4> DEFINE t == Tail(u)
      <4>1. /\ t \in Seq(S) /\ Len(t) = Len(u) - 1
            /\ \A m \in 1 .. Len(t) : t[m] = u[m + 1]
        BY <3>4, <3>6, HeadTailProperties
      <4> HIDE DEF t
      <4>2. \A m \in 1 .. k - j : m + 1 \in 1 .. k - a + 1 /\ a + (m + 1) - 1 = j + m
        BY <1>2, <3>1
      <4>3. \A m \in 1 .. Len(t) : t[m] = digits[m]
        <5>1. \A m \in 1 .. Len(t) : m \in 1 .. k - j
          BY <3>4, <4>1
        <5> TAKE m \in 1 .. Len(t)
        <5>2. t[m] = u[m + 1] /\ m \in 1 .. k - j
          BY <4>1, <5>1
        <5>3. u[m + 1] = str[a + (m + 1) - 1]
          <6> HIDE DEF a
          <6> QED BY <3>4, <4>2, <5>2
        <5>4. digits[m] = str[j + m] /\ a + (m + 1) - 1 = j + m
          BY <1>14, <4>2, <5>2
        <5> QED BY <5>2, <5>3, <5>4
      <4>4. t = digits
        BY <1>14, <3>4, <4>1, <4>3, SeqEqual
      <4> QED BY <4>4 DEF t
    <3>8. Signed10(u) = (IF u[1] = "-" THEN -1 ELSE 1) * x
      BY <3>1, <3>5, <3>6, <3>7 DEF Signed10, x
    <3>9. sign = IF u[1] = "-" THEN -1 ELSE 1
      BY <1>9, <2>1, <3>5
    <3> QED BY <3>8, <3>9
  <2>2. CASE ~signed
    <3>1. u = digits
      BY <1>11, <1>13, <2>2
    <3>2. u # <<>> => u[1] \notin {"-", "+"}
      <4>1. u # <<>> => u[1] \in Decimals
        BY <1>14, <3>1, EmptySeq, ElementOfSeq, LenProperties
      <4> QED BY <4>1, DigitFacts, SignFacts
    <3>3. Signed10(u) = x
      BY <3>1, <3>2 DEF Signed10, x
    <3>4. sign = 1 /\ 1 * x = x
      BY <1>15, <2>2
    <3> QED BY <3>3, <3>4
  <2> QED BY <2>1, <2>2
<1>17. sign = 1 \/ sign = -1
  OBVIOUS
<1> HIDE DEF sign, u
<1>18. atoi(str) = NearestInt(sign * x)
  <2>1. INT_MAX \in Nat
    BY TextAssumption
  <2>2. CASE sign = 1
    <3>1. sign * x = x /\ x \in Int /\ ~(x < -INT_MAX - 1)
      BY <1>15, <2>1, <2>2
    <3>2. NearestInt(x) = IF x > INT_MAX THEN INT_MAX ELSE x
      BY <3>1, ClampFacts
    <3>3. last.over \in BOOLEAN
      BY <1>15 DEF Reading
    <3>4. CASE last.over
      BY <1>8, <1>15, <2>2, <3>1, <3>2, <3>4 DEF Reading
    <3>5. CASE ~last.over
      <4>1. last.result = x /\ ~(x > INT_MAX)
        BY <1>15, <2>1, <3>5 DEF Reading
      <4> QED BY <1>8, <3>1, <3>2, <3>5, <4>1
    <3> QED BY <3>4, <3>5
  <2>3. CASE sign = -1
    <3>1. sign * x = -x /\ -x \in Int /\ ~(-x > INT_MAX) /\ sign # 1
      BY <1>15, <2>1, <2>3
    <3>2. NearestInt(-x) = IF -x < -INT_MAX - 1 THEN -INT_MAX - 1 ELSE -x
      BY <3>1, ClampFacts
    <3>3. CASE last.over
      <4>1. x > INT_MAX
        BY <1>15, <3>3 DEF Reading
      <4>2. NearestInt(-x) = -INT_MAX - 1
        BY <1>15, <2>1, <3>2, <4>1
      <4> QED BY <1>8, <3>1, <3>3, <4>2
    <3>4. CASE ~last.over
      <4>1. last.result = x /\ ~(-x < -INT_MAX - 1)
        BY <1>15, <2>1, <3>4 DEF Reading
      <4> QED BY <1>8, <3>1, <3>2, <3>4, <4>1
    <3> QED BY <3>3, <3>4
  <2> QED BY <1>17, <2>2, <2>3
<1> QED BY <1>16, <1>18 DEF u

\* What NumbersReadBack says of a number
ReadBack(v) ==
  LET str == int_to_str(v)
  IN  /\ itoa(v, 10) = str
      /\ Signed10(str) = v /\ atoi(str) = v
      /\ Len(str) > 1 => str[1] # "0"

\* int_to_str and itoa write what atoi reads.
LEMMA IntCorrect ==
  ASSUME NEW v \in -INT_MAX .. INT_MAX
  PROVE  ReadBack(v)
<1> DEFINE str == int_to_str(v)
           C == HexDigits \cup {"-"}
           base == 10
<1>1. INT_MAX \in Nat /\ v \in Int /\ base \in Bases
  BY TextAssumption DEF Bases
<1>2. NearestInt(v) = v
  <2>1. ~(v > INT_MAX) /\ ~(v < -INT_MAX - 1)
    BY <1>1
  <2> QED BY <1>1, <2>1, ClampFacts
<1>3. Space \notin HexDigits
  <2>1. DOMAIN DigitChars = 1 .. 16 /\ \A i \in 1 .. 16 : DigitChars[i] # Space
    BY DEF DigitChars, Space
  <2> QED BY <2>1 DEF HexDigits, Range
<1>4. CASE v >= 0
  <2> DEFINE s == Digits(v, 10)
  <2>1. /\ s \in Seq(HexDigits) /\ s \in Seq(Decimals) /\ ValueOf(s, 10) = v
        /\ Len(s) >= 1 /\ (Len(s) > 1 => s[1] # "0")
        /\ s = IF v = 0 THEN <<"0">> ELSE Reverse(LowDigits(v, 10))
    <3>1. v \in Nat
      BY <1>1, <1>4
    <3> QED BY <1>1, <3>1, DigitsFacts
  <2>2. str = s /\ itoa(v, 10) = s
    <3>1. ~(v < 0)
      BY <1>1, <1>4
    <3>2. str = s
      BY <3>1 DEF int_to_str
    <3> HIDE DEF s, str
    <3>3. itoa(v, 10) = s
      BY <2>1, <3>1 DEF itoa
    <3> QED BY <3>2, <3>3
  <2> HIDE DEF s, str
  <2>3. Len(s) \in Nat /\ \A i \in 1 .. Len(s) : s[i] \in Decimals
    BY <2>1, LenProperties, ElementOfSeq
  <2>4. 1 \in 1 .. Len(s) /\ s # <<>> /\ s[1] \in Decimals /\ s[1] \in HexDigits
    <3>1. 1 \in 1 .. Len(s) /\ s # <<>>
      BY <2>1, <2>3
    <3> QED BY <2>3, <3>1, DigitFacts
  <2>5. s[1] # "-" /\ s[1] # "+" /\ s[1] # Space
    BY <1>3, <2>4, SignFacts
  <2>6. Signed10(s) = v
    BY <2>1, <2>4, <2>5 DEF Signed10
  <2> DEFINE n == Len(s)
  <2>7. Numeral(s, 0, 0, n)
    <3>1. 0 <= 0 /\ 0 <= n /\ ~(n < n) /\ 0 + 1 = 1 /\ (0 < n)
      BY <2>1, <2>3
    <3>2. \A m \in 1 .. 0 : s[m] = Space
      <4>1. \A m \in 1 .. 0 : FALSE
        OBVIOUS
      <4> QED BY <4>1
    <3> HIDE DEF n
    <3>3. \A m \in 0 + 1 .. n : s[m] \in Decimals
      BY <2>3, <3>1 DEF n
    <3> QED BY <2>5, <3>1, <3>2, <3>3 DEF Numeral, n
  <2>8. atoi(s) = v
    <3>1. 0 \in 0 .. n /\ n \in 0 .. n
      BY <2>3
    <3> HIDE DEF n
    <3>2. atoi(s) = NearestInt(Signed10(SubSeq(s, 0 + 1, n)))
      BY <2>1, <2>7, <3>1, AtoiFacts DEF n
    <3>3. 0 + 1 = 1 /\ SubSeq(s, 1, n) = s
      <4>1. SubSeq(s, 1, n) = s
        BY <2>1, SubSeqFull DEF n
      <4> QED BY <4>1
    <3> QED BY <1>2, <2>6, <3>2, <3>3
  <2> QED BY <2>1, <2>2, <2>6, <2>8 DEF ReadBack, str
<1>5. CASE v < 0
  <2> DEFINE x == -v
             s == Digits(x, 10)
             low == LowDigits(x, 10)
  <2>1. x \in Nat /\ x # 0
    BY <1>1, <1>5
  <2> HIDE DEF x
  <2>2. /\ s \in Seq(HexDigits) /\ s \in Seq(Decimals) /\ ValueOf(s, 10) = x
        /\ Len(s) >= 1 /\ s = Reverse(low) /\ low \in Seq(HexDigits)
    BY <1>1, <2>1, DigitsFacts, LowFacts
  <2>3. str = <<"-">> \o s
    BY <1>5 DEF int_to_str, x
  <2>4. itoa(v, 10) = Reverse(Append(low, "-"))
    BY <1>5 DEF itoa, x
  <2> HIDE DEF s, str, low
  <2>5. s \in Seq(C) /\ low \in Seq(C) /\ "-" \in C
    BY <2>2, Wider
  <2>6. itoa(v, 10) = str
    <3> HIDE DEF C
    <3> QED BY <2>2, <2>3, <2>4, <2>5, ReverseFacts
  <2>7. /\ str \in Seq(C) /\ Len(str) = Len(s) + 1 /\ str[1] = "-" /\ Tail(str) = s
        /\ \A m \in 1 .. Len(s) : str[m + 1] = s[m]
    BY <2>3, <2>5, FrontFacts
  <2>8. Len(s) \in Nat /\ \A i \in 1 .. Len(s) : s[i] \in Decimals
    BY <2>2, LenProperties, ElementOfSeq
  <2>9. Signed10(str) = v
    <3>1. str # <<>>
      BY <2>7, <2>8
    <3>2. Signed10(str) = (-1) * x
      BY <2>2, <2>7, <3>1 DEF Signed10
    <3> QED BY <1>1, <3>2 DEF x
  <2> DEFINE n == Len(str)
  <2>10. Numeral(str, 0, 1, n)
    <3>1. /\ 0 <= 1 /\ 1 <= n /\ ~(n < n) /\ 0 + 1 = 1 /\ 0 < n
      BY <2>7, <2>8
    <3>2. \A m \in 1 .. 0 : str[m] = Space
      <4>1. \A m \in 1 .. 0 : FALSE
        OBVIOUS
      <4> QED BY <4>1
    <3>3. \A m \in 1 + 1 .. n : str[m] \in Decimals
      <4> TAKE m \in 1 + 1 .. n
      <4>1. m - 1 \in 1 .. Len(s) /\ (m - 1) + 1 = m
        BY <2>7, <2>8
      <4> QED BY <2>7, <2>8, <4>1
    <3>4. str[1] # Space
      BY <2>7 DEF Space
    <3> HIDE DEF n
    <3> QED BY <2>7, <3>1, <3>2, <3>3, <3>4 DEF Numeral, n
  <2>11. atoi(str) = v
    <3>1. 0 \in 0 .. n /\ 1 \in 0 .. n /\ n \in 0 .. n
      BY <2>7, <2>8
    <3> HIDE DEF n, C
    <3>2. atoi(str) = NearestInt(Signed10(SubSeq(str, 0 + 1, n)))
      BY <2>7, <2>10, <3>1, AtoiFacts DEF n
    <3>3. 0 + 1 = 1 /\ SubSeq(str, 1, n) = str
      BY <2>7, SubSeqFull DEF n
    <3> QED BY <1>2, <2>9, <3>2, <3>3
  <2> QED BY <2>6, <2>7, <2>9, <2>11 DEF ReadBack, str
<1> QED BY <1>1, <1>4, <1>5

-----------------------------------------------------------------------------
(* Formats                                                                 *)

\* What may stand in a text that is printed
Chars == STRING \cup HexDigits \cup {"-", "%", ""}

\* The texts that are printed are made of these.
LEMMA CharsFacts ==
  /\ STRING \subseteq Chars /\ HexDigits \subseteq Chars
  /\ "-" \in Chars /\ "%" \in Chars /\ "" \in Chars
BY DEF Chars

\* A directive has a width, and the format goes on behind it.
LEMMA DirectiveFacts ==
  ASSUME NEW fmt \in Seq(Chars), NEW i \in Nat \ {0}
  PROVE  LET d == Directive(fmt, i)
         IN  /\ d.width \in Nat /\ d.next \in Nat \ {0}
             /\ d.conv \in Chars /\ d.conv \in Range(fmt) \cup {""}
<1> DEFINE at(k) == IF k \in DOMAIN fmt THEN fmt[k] ELSE ""
           pad == at(i + 1) = "0"
           start == IF pad THEN i + 2 ELSE i + 1
           stop == IF pad THEN DigitsEnd(fmt, start) ELSE start
           conv == IF at(stop) = "l" /\ at(stop + 1) = "l" THEN stop + 2 ELSE stop
           digits == SubSeq(fmt, start, stop - 1)
           d == Directive(fmt, i)
           l == Len(fmt)
<1>1. d = [width |-> ValueOf(digits, 10), is_ll |-> conv # stop, conv |-> at(conv),
           next |-> conv + 1]
  BY DEF Directive
<1>2. l \in Nat /\ DOMAIN fmt = 1 .. l
  BY LenProperties
<1>3. start \in Nat \ {0}
  OBVIOUS
<1>4. \A k : at(k) \in Chars /\ at(k) \in Range(fmt) \cup {""}
  <2> TAKE k
  <2>1. CASE k \in DOMAIN fmt
    BY <1>2, <2>1, ElementOfSeq DEF Range
  <2>2. CASE k \notin DOMAIN fmt
    BY <2>2, CharsFacts
  <2> QED BY <2>1, <2>2
<1> HIDE DEF at, pad, start, d, l
<1>5. stop \in Nat \ {0} /\ \A m \in start .. stop - 1 : fmt[m] \in Decimals
  <2>1. CASE ~pad
    BY <1>3, <2>1
  <2>2. CASE pad
    <3> DEFINE T == {k \in start .. l : fmt[k] \notin Decimals}
               U == T \cup {l + 1}
    <3>1. stop = Min(U)
      BY <2>2 DEF DigitsEnd, l
    <3>2. U \in SUBSET Nat /\ U # {} /\ \A k \in U : k # 0
      BY <1>2, <1>3
    <3>3. l + 1 \in U /\ l + 1 \in Nat
      BY <1>2
    <3>4. \A k \in start .. l : k \notin U => fmt[k] \in Decimals
      OBVIOUS
    <3> HIDE DEF U, stop
    <3>5. stop \in U /\ \A k \in U : stop <= k
      BY <3>1, <3>2, MinExists
    <3>6. stop \in Nat \ {0} /\ stop <= l + 1
      BY <3>2, <3>3, <3>5
    <3>7. ASSUME NEW m \in start .. stop - 1 PROVE fmt[m] \in Decimals
      <4>1. m \in start .. l /\ ~(stop <= m)
        BY <1>2, <1>3, <3>6
      <4> QED BY <3>4, <3>5, <4>1
    <3> QED BY <3>6, <3>7
  <2> QED BY <2>1, <2>2
<1> HIDE DEF stop
<1>6. digits \in Seq(Decimals)
  <2> DEFINE n == stop - 1
  <2>1. n \in Int /\ start \in Int /\ \A m \in start .. n : fmt[m] \in Decimals
    BY <1>3, <1>5
  <2> HIDE DEF n
  <2>2. SubSeq(fmt, start, n) \in Seq(Decimals)
    BY <2>1, SubSeqProperties
  <2> QED BY <2>2 DEF n
<1>7. ValueOf(digits, 10) \in Nat
  <2>1. digits \in Seq(HexDigits) /\ 10 \in Bases
    BY <1>6, DigitFacts, Wider DEF Bases
  <2> QED BY <2>1, ValueFacts
<1>8. conv + 1 \in Nat \ {0}
  BY <1>5
<1> HIDE DEF conv, digits
<1>9. /\ d.width \in Nat /\ d.next \in Nat \ {0}
      /\ d.conv \in Chars /\ d.conv \in Range(fmt) \cup {""}
  BY <1>1, <1>4, <1>7, <1>8
<1> QED BY <1>9 DEF d

\* What a directive prints is a text.
LEMMA PrintedFacts ==
  ASSUME NEW d, d.width \in Nat, d.conv \in Chars
  PROVE  /\ PrintDirective(d) \in Seq(Chars) /\ ConcatDirective(d) \in Seq(Chars)
         /\ d.conv # "u" => PrintDirective(d) = ConcatDirective(d)
<1> DEFINE v == TextInt
           u == TextUnsigned
<1>1. u \in Nat /\ v \in Int /\ 10 \in Bases
  BY TextAssumption DEF Bases
<1>2. TextString \in Seq(Chars) /\ <<TextChar>> \in Seq(Chars)
  <2>1. TextChar \in Chars
    BY TextAssumption, CharsFacts
  <2>2. TextString \in Seq(Chars)
    BY TextAssumption, CharsFacts, Wider
  <2> QED BY <2>1, <2>2
<1>3. <<"%">> \in Seq(Chars) /\ <<"%", d.conv>> \in Seq(Chars)
  <2>1. \A x, y \in Chars : <<x>> \in Seq(Chars) /\ <<x, y>> \in Seq(Chars)
    OBVIOUS
  <2> QED BY <2>1, CharsFacts
<1>4. \A x \in Nat : Digits(x, 10) \in Seq(Chars)
  <2> TAKE x \in Nat
  <2>1. Digits(x, 10) \in Seq(HexDigits)
    BY <1>1, DigitsFacts
  <2> QED BY <2>1, CharsFacts, Wider
<1>5. int_to_str(v) \in Seq(Chars) /\ write_int(v) = int_to_str(v)
  <2>1. CASE v < 0
    <3>1. -v \in Nat
      BY <1>1, <2>1
    <3>2. int_to_str(v) = <<"-">> \o Digits(-v, 10) /\ write_int(v) = int_to_str(v)
      BY <2>1 DEF int_to_str, write_int
    <3>3. <<"-">> \o Digits(-v, 10) \in Seq(Chars)
      BY <1>4, <3>1, CharsFacts, FrontFacts
    <3> QED BY <3>2, <3>3
  <2>2. CASE ~(v < 0)
    <3>1. v \in Nat
      BY <1>1, <2>2
    <3>2. int_to_str(v) = Digits(v, 10) /\ write_int(v) = int_to_str(v)
      BY <2>2 DEF int_to_str, write_int
    <3> QED BY <1>4, <3>1, <3>2
  <2> QED BY <2>1, <2>2
<1>6. /\ hex32_to_str(u, d.width) \in Seq(Chars)
      /\ write_hex(u, d.width) = hex32_to_str(u, d.width)
  <2>1. /\ hex32_to_str(u, d.width) \in Seq(HexDigits)
        /\ write_hex(u, d.width) = hex32_to_str(u, d.width)
    BY <1>1, HexFacts
  <2> QED BY <2>1, CharsFacts, Wider
<1>7. u64_to_str(u) \in Seq(Chars) /\ uint_to_str(u) \in Seq(Chars)
  BY <1>1, <1>4 DEF u64_to_str, uint_to_str
<1>8. CASE d.conv = "d"
  <2>1. PrintDirective(d) = int_to_str(v) /\ ConcatDirective(d) = write_int(v)
    BY <1>8 DEF PrintDirective, ConcatDirective, i64_to_str
  <2> QED BY <1>5, <2>1
<1>9. CASE d.conv = "u"
  <2>1. /\ PrintDirective(d) = IF d.is_ll THEN u64_to_str(u) ELSE uint_to_str(u)
        /\ ConcatDirective(d) = <<>>
    BY <1>9 DEF PrintDirective, ConcatDirective
  <2> QED BY <1>7, <1>9, <2>1
<1>10. CASE d.conv = "x"
  <2>1. /\ PrintDirective(d) = hex32_to_str(u, d.width)
        /\ ConcatDirective(d) = write_hex(u, d.width)
    BY <1>10 DEF PrintDirective, ConcatDirective, hex64_to_str
  <2> QED BY <1>6, <2>1
<1>11. CASE d.conv = "s"
  BY <1>2, <1>11 DEF PrintDirective, ConcatDirective
<1>12. CASE d.conv = "c"
  BY <1>2, <1>12 DEF PrintDirective, ConcatDirective
<1>13. CASE d.conv = "%"
  BY <1>3, <1>13 DEF PrintDirective, ConcatDirective
<1>14. CASE d.conv \notin {"d", "u", "x", "s", "c", "%"}
  <2>1. PrintDirective(d) = <<"%", d.conv>> /\ ConcatDirective(d) = <<"%", d.conv>>
    BY <1>14 DEF PrintDirective, ConcatDirective
  <2> QED BY <1>3, <2>1
<1> QED BY <1>8, <1>9, <1>10, <1>11, <1>12, <1>13, <1>14

\* Where the loops of printf and strconcat are, and what they have written
Printings == [at : Nat \ {0}, out : Seq(Chars)]
Started == [at |-> 1, out |-> <<>>]

\* A turn of either loop goes on in the format and adds to the text.
LEMMA StepsTyped ==
  ASSUME NEW fmt \in Seq(Chars), NEW s \in Printings
  PROVE  PrintStep(fmt, s) \in Printings /\ ConcatStep(fmt, s) \in Printings
<1> DEFINE d == Directive(fmt, s.at)
           char == [at |-> s.at + 1, out |-> Append(s.out, fmt[s.at])]
           print == [at |-> d.next, out |-> s.out \o PrintDirective(d)]
           concat == [at |-> d.next, out |-> s.out \o ConcatDirective(d)]
<1>1. s.at \in Nat \ {0} /\ s.out \in Seq(Chars) /\ Len(fmt) \in Nat
  BY LenProperties DEF Printings
<1>2. ~(s.at > Len(fmt)) => char \in Printings
  <2>1. SUFFICES ASSUME ~(s.at > Len(fmt)) PROVE char \in Printings
    OBVIOUS
  <2>2. s.at \in 1 .. Len(fmt)
    BY <1>1, <2>1
  <2>3. fmt[s.at] \in Chars
    BY <2>2, ElementOfSeq
  <2> QED BY <1>1, <2>3, AppendProperties DEF Printings
<1>3. print \in Printings /\ concat \in Printings
  <2>1. d.width \in Nat /\ d.next \in Nat \ {0} /\ d.conv \in Chars
    BY <1>1, DirectiveFacts
  <2> HIDE DEF d
  <2>2. PrintDirective(d) \in Seq(Chars) /\ ConcatDirective(d) \in Seq(Chars)
    BY <2>1, PrintedFacts
  <2>3. s.out \o PrintDirective(d) \in Seq(Chars) /\ s.out \o ConcatDirective(d) \in Seq(Chars)
    BY <1>1, <2>2, ConcatProperties
  <2> QED BY <2>1, <2>3 DEF Printings
<1>4. PrintStep(fmt, s) \in {s, print} \/ (~(s.at > Len(fmt)) /\ PrintStep(fmt, s) = char)
  BY DEF PrintStep
<1>5. ConcatStep(fmt, s) \in {s, concat} \/ (~(s.at > Len(fmt)) /\ ConcatStep(fmt, s) = char)
  BY DEF ConcatStep
<1> HIDE DEF char, print, concat
<1> QED BY <1>2, <1>3, <1>4, <1>5

\* f is what printf has done after each turn.
Printing(f, fmt, n) ==
  /\ f[0] = Started /\ f[n].out = printf(fmt)
  /\ \A k \in 0 .. n : f[k] \in Printings
  /\ \A k \in 1 .. n : f[k] = PrintStep(fmt, f[k - 1])

\* The loop of printf has a turn for each character, and more is not needed.
LEMMA PrintLoop ==
  ASSUME NEW fmt \in Seq(Chars)
  PROVE  \E f : Printing(f, fmt, Len(fmt))
<1> DEFINE n == Len(fmt)
           step == [k \in 1 .. n |-> [s \in Printings |-> PrintStep(fmt, s)]]
           IsLoop(f) == f = [k \in 0 .. n |-> IF k = 0 THEN Started ELSE PrintStep(fmt, f[k - 1])]
           after == CHOOSE f : IsLoop(f)
<1>1. n \in Nat /\ Started \in Printings
  BY LenProperties DEF Printings, Started
<1>2. printf(fmt) = after[n].out
  BY DEF printf, Started
<1> HIDE DEF n
<1>3. \E f \in [0 .. n -> Printings] : IsLoop(f)
  <2>1. step \in [1 .. n -> [Printings -> Printings]]
    BY StepsTyped
  <2> HIDE DEF step
  <2>2. PICK f \in [0 .. n -> Printings] : Iterates(f, n, Started, step)
    BY <1>1, <2>1, Recursion
  <2>3. ASSUME NEW k \in 0 .. n
        PROVE  f[k] = IF k = 0 THEN Started ELSE PrintStep(fmt, f[k - 1])
    <3>1. f[k] = IF k = 0 THEN Started ELSE step[k][f[k - 1]]
      BY <2>2 DEF Iterates
    <3>2. k # 0 => k \in 1 .. n /\ f[k - 1] \in Printings
      BY <1>1
    <3> QED BY <3>1, <3>2 DEF step
  <2>4. f = [k \in 0 .. n |-> f[k]]
    OBVIOUS
  <2> QED BY <2>3, <2>4
<1>4. IsLoop(after)
  <2> HIDE DEF IsLoop
  <2> QED BY <1>3
<1> HIDE DEF after
<1>5. after[0] = Started /\ \A k \in 1 .. n : after[k] = PrintStep(fmt, after[k - 1])
  BY <1>1, <1>4
<1> HIDE DEF IsLoop
<1> DEFINE T == {k \in Nat : k <= n => after[k] \in Printings}
<1>6. 0 \in T
  BY <1>1, <1>5
<1>7. ASSUME NEW k \in Nat, k \in T PROVE k + 1 \in T
  <2>1. k + 1 \in Nat /\ (k + 1 <= n => k + 1 \in 1 .. n /\ (k + 1) - 1 = k /\ k <= n)
    BY <1>1
  <2> QED BY <1>5, <1>7, <2>1, StepsTyped
<1> HIDE DEF T
<1>8. \A k \in Nat : k \in T
  BY <1>6, <1>7, Induction
<1>9. \A k \in 0 .. n : after[k] \in Printings
  BY <1>1, <1>8 DEF T
<1>10. Printing(after, fmt, n)
  BY <1>2, <1>5, <1>9 DEF Printing
<1> QED BY <1>10 DEF n

\* f is what strconcat has done after each turn.
Concatenating(f, fmt, n) ==
  /\ f[0] = Started /\ f[n].out = strconcat(fmt)
  /\ \A k \in 1 .. n : f[k] = ConcatStep(fmt, f[k - 1])

\* So has the loop of strconcat.
LEMMA ConcatLoop ==
  ASSUME NEW fmt \in Seq(Chars)
  PROVE  \E f : Concatenating(f, fmt, Len(fmt))
<1> DEFINE n == Len(fmt)
           step == [k \in 1 .. n |-> [s \in Printings |-> ConcatStep(fmt, s)]]
           IsLoop(f) == f = [k \in 0 .. n |-> IF k = 0 THEN Started ELSE ConcatStep(fmt, f[k - 1])]
           after == CHOOSE f : IsLoop(f)
<1>1. n \in Nat /\ Started \in Printings
  BY LenProperties DEF Printings, Started
<1>2. strconcat(fmt) = after[n].out
  BY DEF strconcat, Started
<1> HIDE DEF n
<1>3. \E f \in [0 .. n -> Printings] : IsLoop(f)
  <2>1. step \in [1 .. n -> [Printings -> Printings]]
    BY StepsTyped
  <2> HIDE DEF step
  <2>2. PICK f \in [0 .. n -> Printings] : Iterates(f, n, Started, step)
    BY <1>1, <2>1, Recursion
  <2>3. ASSUME NEW k \in 0 .. n
        PROVE  f[k] = IF k = 0 THEN Started ELSE ConcatStep(fmt, f[k - 1])
    <3>1. f[k] = IF k = 0 THEN Started ELSE step[k][f[k - 1]]
      BY <2>2 DEF Iterates
    <3>2. k # 0 => k \in 1 .. n /\ f[k - 1] \in Printings
      BY <1>1
    <3> QED BY <3>1, <3>2 DEF step
  <2>4. f = [k \in 0 .. n |-> f[k]]
    OBVIOUS
  <2> QED BY <2>3, <2>4
<1>4. IsLoop(after)
  <2> HIDE DEF IsLoop
  <2> QED BY <1>3
<1> HIDE DEF after
<1>5. after[0] = Started /\ \A k \in 1 .. n : after[k] = ConcatStep(fmt, after[k - 1])
  BY <1>1, <1>4
<1>6. Concatenating(after, fmt, n)
  BY <1>2, <1>5 DEF Concatenating
<1> QED BY <1>6 DEF n

\* A full buffer stays full, and until then both have written the same.
LEMMA FormatsCorrect ==
  ASSUME NEW fmt \in Seq(Chars), "u" \notin Range(fmt), ~Full(printf(fmt))
  PROVE  strconcat(fmt) = printf(fmt)
<1> DEFINE n == Len(fmt)
<1>1. n \in Nat
  BY LenProperties
<1>2. PICK p : Printing(p, fmt, n)
  BY PrintLoop
<1>3. PICK c : Concatenating(c, fmt, n)
  BY ConcatLoop
<1>4. /\ p[0] = Started /\ p[n].out = printf(fmt)
      /\ \A k \in 0 .. n : p[k] \in Printings
      /\ \A k \in 1 .. n : p[k] = PrintStep(fmt, p[k - 1])
  BY <1>2 DEF Printing
<1>5. /\ c[0] = Started /\ c[n].out = strconcat(fmt)
      /\ \A k \in 1 .. n : c[k] = ConcatStep(fmt, c[k - 1])
  BY <1>3 DEF Concatenating
<1> HIDE DEF n
<1> DEFINE T == {k \in Nat : k <= n => Full(p[k].out) \/ c[k] = p[k]}
<1>6. 0 \in T
  BY <1>4, <1>5
<1>7. ASSUME NEW k \in Nat, k \in T PROVE k + 1 \in T
  <2>1. k + 1 \in Nat
    OBVIOUS
  <2> SUFFICES ASSUME k + 1 <= n PROVE Full(p[k + 1].out) \/ c[k + 1] = p[k + 1]
    BY <2>1
  <2> DEFINE s == p[k]
             d == Directive(fmt, s.at)
  <2>2. k + 1 \in 1 .. n /\ (k + 1) - 1 = k /\ k <= n /\ k \in 0 .. n
    BY <1>1
  <2>3. /\ p[k + 1] = PrintStep(fmt, s) /\ c[k + 1] = ConcatStep(fmt, c[k])
        /\ s \in Printings /\ (Full(s.out) \/ c[k] = s)
    BY <1>4, <1>5, <1>7, <2>2
  <2> HIDE DEF s
  <2>4. CASE Full(s.out)
    <3>1. p[k + 1] = s
      BY <2>3, <2>4 DEF PrintStep
    <3> QED BY <2>4, <3>1
  <2>5. CASE ~Full(s.out)
    <3>1. d.width \in Nat /\ d.conv \in Chars /\ d.conv \in Range(fmt) \cup {""}
      BY <2>3, DirectiveFacts DEF Printings
    <3>2. d.conv # "u"
      BY <3>1
    <3> HIDE DEF d
    <3>3. PrintDirective(d) = ConcatDirective(d)
      BY <3>1, <3>2, PrintedFacts
    <3>4. PrintStep(fmt, s) = ConcatStep(fmt, s)
      BY <2>5, <3>3 DEF PrintStep, ConcatStep, d
    <3> QED BY <2>3, <2>5, <3>4
  <2> QED BY <2>4, <2>5
<1> HIDE DEF T
<1>8. n \in T
  BY <1>1, <1>6, <1>7, Induction
<1> QED BY <1>1, <1>4, <1>5, <1>8 DEF T

\* A text without directives is printed as it is.
LEMMA PlainText ==
  ASSUME NEW text \in Seq(Chars), "%" \notin Range(text), Len(text) < OUT_SIZE
  PROVE  printf(text) = text
<1> DEFINE n == Len(text)
           S == Chars
<1>1. n \in Nat /\ OUT_SIZE \in Nat /\ n < OUT_SIZE /\ DOMAIN text = 1 .. n
  BY LenProperties, TextAssumption
<1>2. PICK p : Printing(p, text, n)
  BY PrintLoop
<1>3. /\ p[0] = Started /\ p[n].out = printf(text)
      /\ \A k \in 0 .. n : p[k] \in Printings
      /\ \A k \in 1 .. n : p[k] = PrintStep(text, p[k - 1])
  BY <1>2 DEF Printing
<1> HIDE DEF n
<1> DEFINE Copied(s, k) == /\ s.at = k + 1 /\ s.out \in Seq(S) /\ Len(s.out) = k
                           /\ \A i \in 1 .. k : s.out[i] = text[i]
           T == {k \in Nat : k <= n => Copied(p[k], k)}
<1>4. 0 \in T
  <2>1. Started.at = 0 + 1 /\ Started.out \in Seq(S) /\ Len(Started.out) = 0
    BY DEF Started
  <2>2. \A i \in 1 .. 0 : FALSE
    OBVIOUS
  <2>3. Copied(p[0], 0)
    BY <1>3, <2>1, <2>2
  <2> HIDE DEF Copied
  <2> QED BY <2>3
<1>5. ASSUME NEW k \in Nat, k \in T PROVE k + 1 \in T
  <2>1. k + 1 \in Nat
    OBVIOUS
  <2> SUFFICES ASSUME k + 1 <= n PROVE Copied(p[k + 1], k + 1)
    <3> HIDE DEF Copied
    <3> QED BY <2>1
  <2> DEFINE s == p[k]
             c == text[k + 1]
  <2>2. k + 1 \in 1 .. n /\ (k + 1) - 1 = k /\ k <= n
    BY <1>1
  <2>3. p[k + 1] = PrintStep(text, s)
    BY <1>3, <2>2
  <2>4. /\ s.at = k + 1 /\ s.out \in Seq(S) /\ Len(s.out) = k
        /\ \A i \in 1 .. k : s.out[i] = text[i]
    BY <1>5, <2>2
  <2> HIDE DEF s
  <2>5. c # "%" /\ c \in S
    <3>1. k + 1 \in DOMAIN text
      BY <1>1, <2>2
    <3>2. c \in Range(text)
      BY <3>1 DEF Range
    <3>3. c \in S
      BY <2>2, ElementOfSeq DEF n
    <3> QED BY <3>2, <3>3
  <2>6. ~(s.at > Len(text)) /\ ~Full(s.out)
    <3>1. ~(k + 1 > n) /\ ~(k >= OUT_SIZE - 1)
      BY <1>1, <2>2
    <3> QED BY <2>4, <3>1 DEF Full, n
  <2>7. p[k + 1] = [at |-> (k + 1) + 1, out |-> Append(s.out, c)]
    BY <2>3, <2>4, <2>5, <2>6 DEF PrintStep
  <2> HIDE DEF c, S
  <2>8. /\ Append(s.out, c) \in Seq(S) /\ Len(Append(s.out, c)) = k + 1
        /\ Append(s.out, c)[k + 1] = c
        /\ \A i \in 1 .. k : Append(s.out, c)[i] = s.out[i]
    BY <2>4, <2>5, AppendProperties
  <2>9. ASSUME NEW i \in 1 .. k + 1 PROVE Append(s.out, c)[i] = text[i]
    <3>1. i = k + 1 \/ i \in 1 .. k
      OBVIOUS
    <3> QED BY <2>4, <2>8, <3>1 DEF c
  <2> QED BY <2>7, <2>8, <2>9
<1> HIDE DEF T
<1>6. n \in T
  BY <1>1, <1>4, <1>5, Induction
<1>7. /\ p[n].out \in Seq(S) /\ Len(p[n].out) = n
      /\ \A i \in 1 .. n : p[n].out[i] = text[i]
  BY <1>1, <1>6 DEF T
<1>8. p[n].out = text
  BY <1>7, SeqEqual DEF n
<1> QED BY <1>3, <1>8

\* What printf writes is a text.
LEMMA PrintfTyped ==
  ASSUME NEW fmt \in Seq(Chars)
  PROVE  printf(fmt) \in Seq(Chars)
<1>1. PICK p : Printing(p, fmt, Len(fmt))
  BY PrintLoop
<1>2. Len(fmt) \in 0 .. Len(fmt)
  BY LenProperties
<1> QED BY <1>1, <1>2 DEF Printing, Printings

-----------------------------------------------------------------------------
(* Commands                                                                *)

\* w is argument i: a word of p from a on, or the rest of the line.
Argument(p, a, w, i) ==
  LET end == a + Len(w)
  IN  /\ w # <<>> /\ w = SubSeq(p, a, end - 1)
      /\ i < ARGC_MAX => /\ Space \notin Range(w)
                         /\ end <= Len(p) => p[end] = Space
      /\ i = ARGC_MAX => end = Len(p) + 1

\* argv are the words of p that start before m, at the places at.
Parsed(p, argv, at, n, m) ==
  /\ n <= ARGC_MAX /\ at \in [1 .. n -> WordStarts(p)]
  /\ \A i, j \in 1 .. n : i < j => at[i] < at[j]
  /\ \A w \in WordStarts(p) :
       w < m /\ (n < ARGC_MAX \/ (\E i \in 1 .. n : w <= at[i])) => \E i \in 1 .. n : w = at[i]
  /\ \A i \in 1 .. n : Argument(p, at[i], argv[i], i)
  /\ \A i \in 1 .. n : at[i] < m

\* One more word, after the others
LEMMA AddWord ==
  ASSUME NEW S, NEW p \in Seq(S), NEW argv \in Seq(Seq(S)), NEW n, n = Len(argv), NEW at,
         NEW a \in WordStarts(p), NEW w \in Seq(S), NEW m \in Nat, a < m,
         Parsed(p, argv, at, n, a), n < ARGC_MAX, Argument(p, a, w, n + 1),
         \A x \in WordStarts(p) : a < x /\ x < m => n + 1 = ARGC_MAX
  PROVE  \E b : Parsed(p, Append(argv, w), b, n + 1, m)
<1> DEFINE b == [i \in 1 .. n + 1 |-> IF i = n + 1 THEN a ELSE at[i]]
           t == Append(argv, w)
<1>1. n \in Nat /\ ARGC_MAX \in Nat /\ WordStarts(p) \subseteq Nat
  <2>1. WordStarts(p) \subseteq DOMAIN p /\ DOMAIN p = 1 .. Len(p) /\ Len(p) \in Nat
    BY LenProperties DEF WordStarts
  <2>2. n \in Nat
    BY LenProperties
  <2>3. ARGC_MAX \in Nat
    BY TextAssumption
  <2> QED BY <2>1, <2>2, <2>3
<1>2. a \in Nat
  BY <1>1
<1> DEFINE W == WordStarts(p)
<1>3. /\ at \in [1 .. n -> W]
      /\ \A i, j \in 1 .. n : i < j => at[i] < at[j]
      /\ \A x \in W : x < a => \E i \in 1 .. n : x = at[i]
      /\ \A i \in 1 .. n : Argument(p, at[i], argv[i], i)
      /\ \A i \in 1 .. n : at[i] < a
  BY DEF Parsed
<1> HIDE DEF W
<1>4. a \in W /\ W \subseteq Nat
  BY <1>1 DEF W
<1>5. b[n + 1] = a /\ \A i \in 1 .. n : b[i] = at[i] /\ i \in 1 .. n + 1
  BY <1>1
<1>6. \A i \in 1 .. n + 1 : i = n + 1 \/ i \in 1 .. n
  BY <1>1
<1>7. b \in [1 .. n + 1 -> W]
  BY <1>3, <1>4, <1>6
<1> HIDE DEF b
<1>8. ASSUME NEW i \in 1 .. n + 1, NEW j \in 1 .. n + 1, i < j PROVE b[i] < b[j]
  <2>1. i \in 1 .. n
    BY <1>1, <1>8
  <2> QED BY <1>3, <1>5, <1>6, <1>8, <2>1
<1>9. ASSUME NEW x \in W, x < m, n + 1 < ARGC_MAX \/ (\E i \in 1 .. n + 1 : x <= b[i])
      PROVE  \E i \in 1 .. n + 1 : x = b[i]
  <2>1. CASE x < a
    <3>1. PICK i \in 1 .. n : x = at[i]
      BY <1>3, <2>1
    <3> QED BY <1>5, <3>1
  <2>2. CASE x = a
    <3>1. n + 1 \in 1 .. n + 1
      BY <1>1
    <3> QED BY <1>5, <2>2, <3>1
  <2>3. CASE a < x
    <3>1. n + 1 = ARGC_MAX
      BY <1>9, <2>3 DEF W
    <3>2. PICK i \in 1 .. n + 1 : x <= b[i]
      BY <1>1, <1>9, <3>1
    <3>3. x \in Nat /\ b[i] \in Nat /\ b[i] <= a
      <4>1. CASE i = n + 1
        BY <1>2, <1>4, <1>5, <4>1
      <4>2. CASE i \in 1 .. n
        <5>1. at[i] \in W /\ at[i] < a
          BY <1>3, <4>2
        <5>2. b[i] = at[i] /\ x \in Nat /\ at[i] \in Nat
          BY <1>4, <1>5, <4>2, <5>1
        <5> QED BY <1>2, <5>1, <5>2
      <4> QED BY <1>6, <4>1, <4>2
    <3>4. FALSE
      BY <1>2, <2>3, <3>2, <3>3
    <3> QED BY <3>4
  <2>4. x \in Nat
    BY <1>4
  <2> QED BY <1>2, <2>1, <2>2, <2>3, <2>4
<1>10. t[n + 1] = w /\ \A i \in 1 .. n : t[i] = argv[i]
  BY AppendProperties
<1> HIDE DEF t
<1>11. \A i \in 1 .. n + 1 : Argument(p, b[i], t[i], i)
  BY <1>3, <1>5, <1>6, <1>10
<1>12. ASSUME NEW i \in 1 .. n + 1 PROVE b[i] < m
  <2>1. CASE i = n + 1
    BY <1>5, <2>1
  <2>2. CASE i \in 1 .. n
    <3>1. at[i] \in Nat /\ at[i] < a /\ b[i] = at[i]
      BY <1>3, <1>4, <1>5, <2>2
    <3> QED BY <1>2, <3>1
  <2> QED BY <1>6, <2>1, <2>2
<1>13. n + 1 <= ARGC_MAX
  BY <1>1
<1>14. Parsed(p, t, b, n + 1, m)
  BY <1>7, <1>8, <1>9, <1>11, <1>12, <1>13 DEF Parsed, W
<1> QED BY <1>14 DEF t

\* Where the parser is: at the start of the line, behind a space, or at the end
Parsing(p, s, S) ==
  /\ s.at \in Nat \ {0} /\ s.argv \in Seq(Seq(S))
  /\ s.at = 1 \/ s.at > Len(p) \/ p[s.at - 1] = Space
  /\ Len(s.argv) = ARGC_MAX => s.at > Len(p)
  /\ \E at : Parsed(p, s.argv, at, Len(s.argv), s.at)

\* The word at i ends before the next space.
LEMMA SpaceFacts ==
  ASSUME NEW S, NEW p \in Seq(S), NEW i \in 1 .. Len(p), p[i] # Space
  PROVE  LET e == SpaceFrom(p, i)
         IN  /\ e \in Nat /\ i < e /\ e <= Len(p) + 1
             /\ e <= Len(p) => p[e] = Space
             /\ \A k \in i .. e - 1 : p[k] # Space
<1> DEFINE l == Len(p)
           T == {k \in i .. l : p[k] = Space}
           U == T \cup {l + 1}
           e == SpaceFrom(p, i)
<1>1. l \in Nat /\ i \in Nat /\ i <= l
  BY LenProperties
<1>2. e = Min(U)
  BY DEF SpaceFrom
<1> HIDE DEF l, e
<1>3. /\ U \in SUBSET Nat /\ U # {} /\ l + 1 \in U
      /\ \A k \in U : i <= k /\ k <= l + 1 /\ (k <= l => p[k] = Space)
      /\ \A k \in i .. l : k \notin U => p[k] # Space
  BY <1>1
<1> HIDE DEF U
<1>4. e \in U /\ \A k \in U : e <= k
  BY <1>2, <1>3, MinExists
<1>5. e \in Nat /\ i <= e /\ e <= l + 1 /\ (e <= l => p[e] = Space)
  BY <1>3, <1>4
<1>6. i < e
  BY <1>1, <1>5
<1>7. ASSUME NEW k \in i .. e - 1 PROVE p[k] # Space
  <2>1. k \in i .. l /\ ~(e <= k)
    BY <1>1, <1>5
  <2> QED BY <1>3, <1>4, <2>1
<1> QED BY <1>5, <1>6, <1>7 DEF e, l

\* A piece of a line
LEMMA PieceFacts ==
  ASSUME NEW S, NEW p \in Seq(S), NEW i \in 1 .. Len(p), NEW e \in Nat, i < e, e <= Len(p) + 1
  PROVE  LET w == SubSeq(p, i, e - 1)
         IN  /\ w \in Seq(S) /\ w # <<>> /\ i + Len(w) = e
             /\ \A k \in 1 .. Len(w) : w[k] = p[i + k - 1] /\ i + k - 1 \in i .. e - 1
<1> DEFINE l == Len(p)
           m == e - 1
           w == SubSeq(p, i, m)
<1>1. l \in Nat /\ i \in Nat /\ m \in Int /\ i \in Int /\ i <= m /\ m <= l
  BY LenProperties
<1> HIDE DEF m
<1>2. \A k \in i .. m : p[k] \in S
  <2>1. \A k \in i .. m : k \in 1 .. l
    BY <1>1
  <2> QED BY <2>1, ElementOfSeq
<1>3. /\ w \in Seq(S) /\ Len(w) = IF i <= m THEN m - i + 1 ELSE 0
      /\ \A k \in 1 .. m - i + 1 : w[k] = p[i + k - 1]
  BY <1>1, <1>2, SubSeqProperties
<1> HIDE DEF w
<1>4. Len(w) = m - i + 1 /\ Len(w) >= 1 /\ i + Len(w) = e
  <2>1. i + (m - i + 1) = e
    BY <1>1 DEF m
  <2> QED BY <1>1, <1>3, <2>1
<1>5. \A k \in 1 .. m - i + 1 : i + k - 1 \in i .. m
  BY <1>1
<1>6. w # <<>>
  BY <1>4
<1> QED BY <1>3, <1>4, <1>5, <1>6 DEF w, m

\* A turn of the parser takes a space or a word, until the line is at its end.
LEMMA ParseKeeps ==
  ASSUME NEW S, NEW p \in Seq(S), NEW s, Parsing(p, s, S)
  PROVE  LET t == ParseStep(p, s)
         IN  /\ Parsing(p, t, S) /\ (s.at <= Len(p) => t.at > s.at)
             /\ s.at > Len(p) => t = s
<1> DEFINE l == Len(p)
           n == Len(s.argv)
           a == s.at
           t == ParseStep(p, s)
           W == WordStarts(p)
<1>1. /\ l \in Nat /\ n \in Nat /\ a \in Nat \ {0} /\ s.argv \in Seq(Seq(S)) /\ ARGC_MAX \in Nat
      /\ DOMAIN p = 1 .. l
  BY LenProperties, TextAssumption DEF Parsing
<1>2. PICK at : Parsed(p, s.argv, at, n, a)
  BY DEF Parsing
<1>3. (a = 1 \/ a > l \/ p[a - 1] = Space) /\ (n = ARGC_MAX => a > l) /\ n <= ARGC_MAX
  BY <1>2 DEF Parsing, Parsed
<1>4. CASE a > l
  <2>1. t = s
    BY <1>4 DEF ParseStep
  <2>2. ~(a <= l)
    BY <1>1, <1>4
  <2> QED BY <1>4, <2>1, <2>2
<1>5. CASE ~(a > l)
  <2>1. a \in 1 .. l /\ a <= l /\ n < ARGC_MAX
    BY <1>1, <1>3, <1>5
  <2>2. CASE p[a] = Space
    <3>1. t = [at |-> a + 1, argv |-> s.argv]
      BY <1>5, <2>2 DEF ParseStep
    <3>2. a + 1 \in Nat \ {0} /\ a + 1 > a /\ (a + 1) - 1 = a
      BY <1>1
    <3>3. \A w \in W : w < a + 1 => w < a
      <4> TAKE w \in W
      <4>1. w \in 1 .. l /\ w # a
        BY <1>1, <2>2 DEF WordStarts
      <4> QED BY <1>1, <4>1
    <3>4. \A i \in 1 .. n : at[i] < a + 1
      <4> TAKE i \in 1 .. n
      <4>1. at[i] \in W /\ at[i] < a
        BY <1>2 DEF Parsed
      <4>2. at[i] \in Nat
        BY <1>1, <4>1 DEF WordStarts
      <4> QED BY <1>1, <4>1, <4>2
    <3>5. Parsed(p, s.argv, at, n, a + 1)
      BY <1>2, <3>3, <3>4 DEF Parsed
    <3>6. Parsing(p, t, S)
      <4>1. t.at = a + 1 /\ t.argv = s.argv
        BY <3>1
      <4>2. p[t.at - 1] = Space /\ t.at \in Nat \ {0}
        BY <2>2, <3>2, <4>1
      <4>3. Len(t.argv) # ARGC_MAX
        BY <1>1, <2>1, <4>1
      <4>4. Parsed(p, t.argv, at, Len(t.argv), t.at)
        BY <3>5, <4>1
      <4> HIDE DEF t
      <4> QED BY <1>1, <4>1, <4>2, <4>3, <4>4 DEF Parsing
    <3>7. t.at > a /\ ~(a > l)
      BY <1>5, <3>1, <3>2
    <3> QED BY <3>6, <3>7
  <2>3. ASSUME p[a] # Space PROVE a \in W
    BY <1>1, <1>3, <1>5, <2>1, <2>3 DEF WordStarts
  <2>4. ASSUME NEW w, NEW e \in Nat, p[a] # Space, a < e, e <= l + 1, w = SubSeq(p, a, e - 1),
               Argument(p, a, w, n + 1), w \in Seq(S),
               t = [at |-> e + 1, argv |-> Append(s.argv, w)] \/
                 (e = l + 1 /\ t = [at |-> e, argv |-> Append(s.argv, w)]),
               e <= l => p[e] = Space, n + 1 = ARGC_MAX => e = l + 1,
               \A x \in W : a < x /\ x < e + 1 => n + 1 = ARGC_MAX
        PROVE  Parsing(p, t, S) /\ t.at > a
    <3> DEFINE m == t.at
    <3>1. m \in Nat \ {0} /\ a < m /\ m <= e + 1 /\ (m = e + 1 \/ (m = e /\ e = l + 1))
      BY <1>1, <2>4
    <3>2. t.argv = Append(s.argv, w)
      BY <2>4
    <3> HIDE DEF m
    <3>3. \A x \in W : a < x /\ x < m => n + 1 = ARGC_MAX
      <4> TAKE x \in W
      <4>1. x \in Nat
        BY <1>1 DEF WordStarts
      <4>2. x < m => x < e + 1
        BY <3>1, <4>1
      <4> QED BY <2>4, <4>2
    <3>4. a \in W
      BY <2>3, <2>4
    <3>5. PICK b : Parsed(p, Append(s.argv, w), b, n + 1, m)
      <4>1. m \in Nat
        BY <3>1
      <4> HIDE DEF W, t, a
      <4>2. \A x \in WordStarts(p) : a < x /\ x < m => n + 1 = ARGC_MAX
        BY <3>3 DEF W
      <4>3. a \in WordStarts(p)
        BY <3>4 DEF W
      <4> QED BY <1>1, <1>2, <2>1, <2>4, <3>1, <4>1, <4>2, <4>3, AddWord
    <3>6. Len(t.argv) = n + 1 /\ t.argv \in Seq(Seq(S))
      BY <1>1, <2>4, <3>2, AppendProperties
    <3>7. m > l \/ p[m - 1] = Space
      <4>1. CASE m = e + 1
        <5>1. m - 1 = e
          BY <4>1
        <5> QED BY <1>1, <2>4, <4>1, <5>1
      <4>2. CASE m = e /\ e = l + 1
        BY <1>1, <4>2
      <4> QED BY <3>1, <4>1, <4>2
    <3>8. n + 1 = ARGC_MAX => m > l
      BY <1>1, <2>4, <3>1
    <3>9. Parsing(p, t, S)
      BY <3>1, <3>2, <3>5, <3>6, <3>7, <3>8 DEF Parsing, m
    <3> QED BY <1>1, <3>1, <3>9 DEF m
  <2>5. CASE p[a] # Space /\ n + 1 = ARGC_MAX
    <3> DEFINE e == l + 1
               w == SubSeq(p, a, e - 1)
    <3>1. e \in Nat /\ a < e /\ e <= l + 1 /\ e - 1 = l /\ ~(e <= l)
      BY <1>1, <2>1
    <3>2. t = [at |-> e, argv |-> Append(s.argv, w)]
      BY <1>5, <2>5, <3>1 DEF ParseStep
    <3> HIDE DEF e
    <3>3. /\ w \in Seq(S) /\ w # <<>> /\ a + Len(w) = e
      <4> HIDE DEF a
      <4> QED BY <2>1, <3>1, PieceFacts
    <3> HIDE DEF w
    <3>4. Argument(p, a, w, n + 1)
      <4>1. ~(n + 1 < ARGC_MAX)
        BY <1>1, <2>5
      <4> QED BY <3>3, <4>1 DEF Argument, w, e
    <3>5. e = l + 1
      BY DEF e
    <3>6. Parsing(p, t, S) /\ t.at > a
      <4> HIDE DEF t, W, a
      <4>1. w = SubSeq(p, a, e - 1)
        BY DEF w
      <4> QED BY <2>4, <2>5, <3>1, <3>2, <3>3, <3>4, <3>5, <4>1
    <3> QED BY <1>5, <3>6
  <2>6. CASE p[a] # Space /\ n + 1 # ARGC_MAX
    <3> DEFINE e == SpaceFrom(p, a)
               w == SubSeq(p, a, e - 1)
    <3>1. t = [at |-> e + 1, argv |-> Append(s.argv, w)]
      BY <1>5, <2>6 DEF ParseStep
    <3>2. /\ e \in Nat /\ a < e /\ e <= l + 1
          /\ e <= l => p[e] = Space
          /\ \A k \in a .. e - 1 : p[k] # Space
      BY <2>1, <2>6, SpaceFacts
    <3> HIDE DEF e
    <3>3. /\ w \in Seq(S) /\ w # <<>> /\ a + Len(w) = e
          /\ \A k \in 1 .. Len(w) : w[k] = p[a + k - 1] /\ a + k - 1 \in a .. e - 1
      BY <2>1, <3>2, PieceFacts
    <3>4. Space \notin Range(w)
      <4>1. DOMAIN w = 1 .. Len(w)
        BY <3>3, LenProperties
      <4> HIDE DEF w
      <4> QED BY <3>2, <3>3, <4>1 DEF Range
    <3>5. Argument(p, a, w, n + 1)
      <4> HIDE DEF a, t, n
      <4>1. w = SubSeq(p, a, e - 1)
        OBVIOUS
      <4> HIDE DEF w
      <4> QED BY <2>6, <3>2, <3>3, <3>4, <4>1 DEF Argument
    <3>6. ASSUME NEW x \in W, a < x, x < e + 1 PROVE FALSE
      <4>1. x \in 1 .. l /\ p[x] # Space /\ (x = 1 \/ p[x - 1] = Space)
        BY <1>1 DEF WordStarts
      <4>2. x # e
        BY <1>1, <3>2, <4>1
      <4>3. x - 1 \in a .. e - 1 /\ x # 1
        BY <1>1, <3>2, <3>6, <4>1, <4>2
      <4> QED BY <3>2, <4>1, <4>3
    <3>7. Parsing(p, t, S) /\ t.at > a
      <4> HIDE DEF t, W, a
      <4>1. w = SubSeq(p, a, e - 1)
        OBVIOUS
      <4> HIDE DEF w
      <4> QED BY <2>4, <2>6, <3>1, <3>2, <3>3, <3>5, <3>6, <4>1
    <3> QED BY <1>5, <3>7
  <2> QED BY <2>2, <2>5, <2>6
<1> QED BY <1>4, <1>5

\* What ArgumentsAreWords says of a line and its arguments
WordsOf(line, argv) ==
  LET n == Len(argv)
  IN  /\ n <= ARGC_MAX
      /\ \E at \in [1 .. n -> WordStarts(line)] :
           /\ \A i, j \in 1 .. n : i < j => at[i] < at[j]
           /\ \A w \in WordStarts(line) :
                n < ARGC_MAX \/ (\E i \in 1 .. n : w <= at[i]) => \E i \in 1 .. n : w = at[i]
           /\ \A i \in 1 .. n :
                LET end == at[i] + Len(argv[i])
                IN  /\ argv[i] # <<>> /\ argv[i] = SubSeq(line, at[i], end - 1)
                    /\ i < ARGC_MAX => /\ Space \notin Range(argv[i])
                                       /\ end <= Len(line) => line[end] = Space
                    /\ i = ARGC_MAX => end = Len(line) + 1

\* The parser comes to the end of the line, with its words.
LEMMA ParseCorrect ==
  ASSUME NEW S, NEW input, command_line(input) \in Seq(S)
  PROVE  WordsOf(command_line(input), parse(input))
<1> DEFINE p == command_line(input)
           n == Len(p)
           first == [at |-> 1, argv |-> <<>>]
           X == {s \in [at : Nat \ {0}, argv : Seq(Seq(S))] : Parsing(p, s, S)}
           step == [k \in 1 .. n |-> [s \in X |-> ParseStep(p, s)]]
           IsLoop(f) == f = [k \in 0 .. n |-> IF k = 0 THEN first ELSE ParseStep(p, f[k - 1])]
           after == CHOOSE f : IsLoop(f)
<1>1. n \in Nat /\ p \in Seq(S) /\ ARGC_MAX \in Nat \ {0}
  <2>1. ARGC_MAX \in Nat \ {0}
    BY TextAssumption
  <2> QED BY <2>1, LenProperties
<1>2. parse(input) = after[n].argv
  BY DEF parse
<1> HIDE DEF p, n
<1>3. first \in X
  <2> DEFINE at == [i \in 1 .. 0 |-> 1]
             none == <<>>
  <2>1. none \in Seq(Seq(S)) /\ Len(none) = 0 /\ 1 \in Nat \ {0}
    OBVIOUS
  <2>2. \A i \in 1 .. 0 : FALSE
    OBVIOUS
  <2>3. at \in [1 .. 0 -> WordStarts(p)]
    BY <2>2
  <2> HIDE DEF at, none
  <2>4. \A w \in WordStarts(p) : ~(w < 1)
    <3>1. \A w \in WordStarts(p) : w \in 1 .. n
      BY <1>1, LenProperties DEF WordStarts, n
    <3> QED BY <1>1, <3>1
  <2>5. Parsed(p, none, at, 0, 1)
    BY <1>1, <2>2, <2>3, <2>4 DEF Parsed
  <2>6. first.at = 1 /\ first.argv = none
    BY DEF none
  <2>7. first \in [at : Nat \ {0}, argv : Seq(Seq(S))]
    BY <2>1 DEF none
  <2> HIDE DEF first
  <2>8. Parsing(p, first, S)
    BY <1>1, <2>1, <2>5, <2>6 DEF Parsing
  <2> QED BY <2>7, <2>8
<1> HIDE DEF first
<1>4. ASSUME NEW s \in X
      PROVE  /\ ParseStep(p, s) \in X /\ (s.at <= n => ParseStep(p, s).at > s.at)
             /\ s.at > n => ParseStep(p, s) = s
  <2> DEFINE t == ParseStep(p, s)
  <2>1. Parsing(p, t, S) /\ (s.at <= n => t.at > s.at) /\ (s.at > n => t = s)
    BY <1>1, ParseKeeps DEF n
  <2>2. t = s \/ t = [at |-> t.at, argv |-> t.argv]
    <3>1. t = s \/ \E a, argv : t = [at |-> a, argv |-> argv]
      BY DEF ParseStep
    <3> HIDE DEF t
    <3>2. ASSUME NEW a, NEW argv, t = [at |-> a, argv |-> argv]
          PROVE  t = [at |-> t.at, argv |-> t.argv]
      BY <3>2
    <3> QED BY <3>1, <3>2
  <2> HIDE DEF t
  <2>3. t.at \in Nat \ {0} /\ t.argv \in Seq(Seq(S))
    BY <2>1 DEF Parsing
  <2>4. t \in [at : Nat \ {0}, argv : Seq(Seq(S))]
    BY <2>2, <2>3
  <2> QED BY <2>1, <2>4 DEF t
<1>5. \A s \in X : s.at \in Nat
  OBVIOUS
<1>6. \A s \in X : Parsing(p, s, S)
  OBVIOUS
<1> HIDE DEF X
<1>7. \E f \in [0 .. n -> X] : IsLoop(f)
  <2>1. step \in [1 .. n -> [X -> X]]
    BY <1>4
  <2> HIDE DEF step
  <2>2. PICK f \in [0 .. n -> X] : Iterates(f, n, first, step)
    BY <1>1, <1>3, <2>1, Recursion
  <2>3. ASSUME NEW k \in 0 .. n
        PROVE  f[k] = IF k = 0 THEN first ELSE ParseStep(p, f[k - 1])
    <3>1. f[k] = IF k = 0 THEN first ELSE step[k][f[k - 1]]
      BY <2>2 DEF Iterates
    <3>2. k # 0 => k \in 1 .. n /\ f[k - 1] \in X
      BY <1>1
    <3> QED BY <3>1, <3>2 DEF step
  <2>4. f = [k \in 0 .. n |-> f[k]]
    OBVIOUS
  <2> QED BY <2>3, <2>4
<1>8. IsLoop(after)
  <2> HIDE DEF IsLoop
  <2> QED BY <1>7
<1> HIDE DEF after
<1>9. after[0] = first /\ \A k \in 1 .. n : after[k] = ParseStep(p, after[k - 1])
  BY <1>1, <1>8
<1> HIDE DEF IsLoop
<1> DEFINE T == {k \in Nat : k <= n => after[k] \in X /\ after[k].at > k}
<1>10. 0 \in T
  <2>1. first.at = 1 /\ 1 > 0
    BY DEF first
  <2> QED BY <1>3, <1>9, <2>1
<1>11. ASSUME NEW k \in Nat, k \in T PROVE k + 1 \in T
  <2>1. k + 1 \in Nat
    OBVIOUS
  <2> SUFFICES ASSUME k + 1 <= n PROVE after[k + 1] \in X /\ after[k + 1].at > k + 1
    BY <2>1
  <2> DEFINE s == after[k]
             t == after[k + 1]
  <2>2. k + 1 \in 1 .. n /\ (k + 1) - 1 = k /\ k <= n
    BY <1>1
  <2>3. s \in X /\ s.at > k /\ t = ParseStep(p, s)
    BY <1>9, <1>11, <2>2
  <2> HIDE DEF s, t
  <2>4. t \in X /\ (s.at <= n => t.at > s.at) /\ (s.at > n => t = s)
    BY <1>4, <2>3
  <2>5. s.at \in Nat /\ t.at \in Nat
    BY <1>5, <2>3, <2>4
  <2>6. t.at > k + 1
    BY <1>1, <2>2, <2>3, <2>4, <2>5
  <2> QED BY <2>4, <2>6 DEF t
<1> HIDE DEF T
<1>12. n \in T
  BY <1>1, <1>10, <1>11, Induction
<1> DEFINE s == after[n]
           argv == s.argv
           m == Len(argv)
<1>13. Parsing(p, s, S) /\ s.at > n /\ s.at \in Nat
  BY <1>1, <1>5, <1>6, <1>12 DEF T
<1> HIDE DEF s
<1>14. PICK at : Parsed(p, argv, at, m, s.at)
  BY <1>13 DEF Parsing
<1>15. \A w \in WordStarts(p) : w < s.at
  <2>1. \A w \in WordStarts(p) : w \in 1 .. n
    BY <1>1, LenProperties DEF WordStarts, n
  <2> QED BY <1>1, <1>13, <2>1
<1> HIDE DEF argv, m
<1>16. /\ m <= ARGC_MAX /\ at \in [1 .. m -> WordStarts(p)]
       /\ \A i, j \in 1 .. m : i < j => at[i] < at[j]
       /\ \A w \in WordStarts(p) :
            m < ARGC_MAX \/ (\E i \in 1 .. m : w <= at[i]) => \E i \in 1 .. m : w = at[i]
       /\ \A i \in 1 .. m : Argument(p, at[i], argv[i], i)
  BY <1>14, <1>15 DEF Parsed
<1>17. WordsOf(p, argv)
  BY <1>16 DEF WordsOf, Argument, m
<1>18. parse(input) = argv
  BY <1>2 DEF argv, s
<1> QED BY <1>17, <1>18 DEF p

\* What the console takes for its line is a text.
LEMMA LineFacts ==
  ASSUME NEW S, NEW input \in Seq(S)
  PROVE  command_line(input) \in Seq(S)
<1> DEFINE ends == {i \in DOMAIN input : input[i] \in {"\n", "\r"}}
<1>1. command_line(input) = IF ends = {} THEN input ELSE SubSeq(input, 1, Min(ends) - 1)
  BY DEF command_line
<1>2. Len(input) \in Nat /\ DOMAIN input = 1 .. Len(input)
  BY LenProperties
<1>3. ends \subseteq DOMAIN input
  OBVIOUS
<1> HIDE DEF ends
<1>4. CASE ends = {}
  BY <1>1, <1>4
<1>5. CASE ends # {}
  <2>1. ends \in SUBSET Nat
    BY <1>2, <1>3
  <2>2. Min(ends) \in ends
    BY <1>5, <2>1, MinExists
  <2> DEFINE m == Min(ends) - 1
  <2>3. m \in Int /\ m <= Len(input)
    BY <1>2, <1>3, <2>2
  <2> HIDE DEF m
  <2>4. \A i \in 1 .. m : input[i] \in S
    <3>1. \A i \in 1 .. m : i \in 1 .. Len(input)
      BY <1>2, <2>3
    <3> QED BY <3>1, ElementOfSeq
  <2>5. SubSeq(input, 1, m) \in Seq(S)
    BY <2>3, <2>4, SubSeqProperties
  <2> QED BY <1>1, <1>5, <2>5 DEF m
<1> QED BY <1>4, <1>5

-----------------------------------------------------------------------------
(* Every call                                                              *)

\* A step is a call of one function, or clears the last call.
LEMMA Calls ==
  ASSUME TextNext
  PROVE  \/ call' = Idle
         \/ CallNumber \/ CallSearch \/ CallCopy \/ CallFormat \/ CallCommand
BY DEF TextNext, Return

\* A call that is named for numbers is a conversion.
LEMMA NumberCalls ==
  ASSUME TextNext
  PROVE  /\ call'.op = "int" =>
              \E v \in -INT_MAX .. INT_MAX :
                call' = [op |-> "int", in |-> v,
                         out |-> [str |-> int_to_str(v), itoa |-> itoa(v, 10)]]
         /\ call'.op = "hex" =>
              \E v \in 0 .. INT_MAX, w \in TextWidths :
                call' = [op |-> "hex", in |-> [value |-> v, width |-> w],
                         out |-> [hex32 |-> hex32_to_str(v, w), write |-> write_hex(v, w),
                                  serial |-> serial_print_hex(v, w), itoa |-> itoa(v, 16)]]
         /\ call'.op = "atoi" =>
              \E str \in TextNumerals : call' = [op |-> "atoi", in |-> str, out |-> atoi(str)]
<1>1. CASE call' = Idle
  BY <1>1 DEF Idle
<1>2. CASE CallNumber
  BY <1>2 DEF CallNumber, Call
<1>3. CASE CallSearch
  BY <1>3 DEF CallSearch, Call
<1>4. CASE CallCopy
  BY <1>4 DEF CallCopy, Call
<1>5. CASE CallFormat
  BY <1>5 DEF CallFormat, Call
<1>6. CASE CallCommand
  BY <1>6 DEF CallCommand, Call
<1> QED BY <1>1, <1>2, <1>3, <1>4, <1>5, <1>6, Calls

\* A call that is named for a search, a copy, a format or a command is one.
LEMMA OtherCalls ==
  ASSUME TextNext
  PROVE  /\ call'.op = "search" =>
              \E s \in TextWords, t \in TextWords :
                call' = [op |-> "search", in |-> <<s, t>>,
                         out |-> [str |-> strstr(s, t), cmp |-> strcmp(s, t),
                                  rchr |-> [c \in Range(t) |-> strrchr(s, c)]]]
         /\ call'.op = "move" =>
              \E d \in DOMAIN TextMemory, s \in DOMAIN TextMemory :
                \E n \in 0 .. Len(TextMemory) + 1 - Max({d, s}) :
                  call' = [op |-> "move", in |-> <<d, s, n>>,
                           out |-> memmove(TextMemory, d, s, n)]
         /\ call'.op = "format" =>
              \E fmt \in TextFormats :
                call' = [op |-> "format", in |-> fmt,
                         out |-> [printp |-> printp(fmt), concat |-> strconcat(fmt)]]
         /\ call'.op = "command" =>
              \E line \in TextLines :
                call' = [op |-> "command", in |-> line, out |-> parse(line)]
<1>1. CASE call' = Idle
  BY <1>1 DEF Idle
<1>2. CASE CallNumber
  BY <1>2 DEF CallNumber, Call
<1>3. CASE CallSearch
  BY <1>3 DEF CallSearch, Call
<1>4. CASE CallCopy
  <2>1. PICK d \in DOMAIN TextMemory, s \in DOMAIN TextMemory :
          \E n \in 0 .. Len(TextMemory) + 1 - Max({d, s}) :
            Call("move", <<d, s, n>>, memmove(TextMemory, d, s, n))
    BY <1>4 DEF CallCopy
  <2>2. PICK n \in 0 .. Len(TextMemory) + 1 - Max({d, s}) :
          call' = [op |-> "move", in |-> <<d, s, n>>, out |-> memmove(TextMemory, d, s, n)]
    BY <2>1 DEF Call
  <2>3. call'.op = "move"
    BY <2>2
  <2> QED BY <2>2, <2>3
<1>5. CASE CallFormat
  BY <1>5 DEF CallFormat, Call
<1>6. CASE CallCommand
  BY <1>6 DEF CallCommand, Call
<1> QED BY <1>1, <1>2, <1>3, <1>4, <1>5, <1>6, Calls

\* int_to_str and itoa write the number that atoi reads, write_hex,
\* serial_print_hex and itoa agree in base 16, and atoi stays within an int.
THEOREM NumbersAlwaysCorrect == TextSpec => []NumbersCorrect
<1>1. TextInit => NumbersCorrect
  BY DEF TextInit, Idle, NumbersCorrect, NumbersReadBack, HexAgrees, AtoiSaturates
<1>2. NumbersCorrect /\ [TextNext]_call => NumbersCorrect'
  <2>1. ASSUME TextNext PROVE NumbersReadBack'
    <3>1. SUFFICES ASSUME call'.op = "int"
                   PROVE  LET str == call'.out.str
                          IN  /\ call'.out.itoa = str
                              /\ Signed10(str) = call'.in /\ atoi(str) = call'.in
                              /\ Len(str) > 1 => str[1] # "0"
      BY DEF NumbersReadBack
    <3>2. PICK v \in -INT_MAX .. INT_MAX :
            call' = [op |-> "int", in |-> v, out |-> [str |-> int_to_str(v), itoa |-> itoa(v, 10)]]
      BY <2>1, <3>1, NumberCalls
    <3>3. call'.in = v /\ call'.out.str = int_to_str(v) /\ call'.out.itoa = itoa(v, 10)
      BY <3>2
    <3> QED BY <3>3, IntCorrect DEF ReadBack
  <2>2. ASSUME TextNext PROVE HexAgrees'
    <3>1. SUFFICES ASSUME call'.op = "hex"
                   PROVE  LET hex == call'.out.hex32
                              width == call'.in.width
                          IN  /\ ValueOf(hex, 16) = call'.in.value
                              /\ Len(hex) >= width /\ (Len(hex) > Max({width, 1}) => hex[1] # "0")
                              /\ call'.out.write = hex
                              /\ width <= HEX_DIGITS => call'.out.serial = hex
                              /\ width <= 1 => call'.out.itoa = hex
      BY DEF HexAgrees
    <3>2. PICK v \in 0 .. INT_MAX, w \in TextWidths :
            call' = [op |-> "hex", in |-> [value |-> v, width |-> w],
                     out |-> [hex32 |-> hex32_to_str(v, w), write |-> write_hex(v, w),
                              serial |-> serial_print_hex(v, w), itoa |-> itoa(v, 16)]]
      BY <2>2, <3>1, NumberCalls
    <3>3. /\ call'.in.value = v /\ call'.in.width = w
          /\ call'.out.hex32 = hex32_to_str(v, w) /\ call'.out.write = write_hex(v, w)
          /\ call'.out.serial = serial_print_hex(v, w) /\ call'.out.itoa = itoa(v, 16)
      BY <3>2
    <3>4. w \in Nat
      BY TextAssumption
    <3>5. HexWritten(v, w)
      BY <3>4, HexCorrect
    <3> QED BY <3>3, <3>5, Zenon DEF HexWritten
  <2>3. ASSUME TextNext PROVE AtoiSaturates'
    <3>1. SUFFICES ASSUME call'.op = "atoi",
                          NEW i \in 0 .. Len(call'.in), NEW j \in 0 .. Len(call'.in),
                          NEW k \in 0 .. Len(call'.in), Numeral(call'.in, i, j, k)
                   PROVE  call'.out = NearestInt(Signed10(SubSeq(call'.in, i + 1, k)))
      BY DEF AtoiSaturates, NearestInt
    <3>2. PICK str \in TextNumerals : call' = [op |-> "atoi", in |-> str, out |-> atoi(str)]
      BY <2>3, <3>1, NumberCalls
    <3>3. call'.in = str /\ call'.out = atoi(str)
      BY <3>2
    <3>4. str \in Seq(STRING)
      BY TextAssumption
    <3>5. i \in 0 .. Len(str) /\ j \in 0 .. Len(str) /\ k \in 0 .. Len(str) /\ Numeral(str, i, j, k)
      BY <3>1, <3>3
    <3> QED BY <3>3, <3>4, <3>5, AtoiFacts
  <2>4. ASSUME UNCHANGED call, NumbersCorrect PROVE NumbersCorrect'
    <3>1. NumbersReadBack'
      BY <2>4 DEF NumbersCorrect, NumbersReadBack
    <3>2. HexAgrees'
      BY <2>4 DEF NumbersCorrect, HexAgrees
    <3>3. AtoiSaturates'
      <4>1. SUFFICES ASSUME call'.op = "atoi",
                            NEW i \in 0 .. Len(call'.in), NEW j \in 0 .. Len(call'.in),
                            NEW k \in 0 .. Len(call'.in), Numeral(call'.in, i, j, k)
                     PROVE  call'.out = NearestInt(Signed10(SubSeq(call'.in, i + 1, k)))
        BY DEF AtoiSaturates, NearestInt
      <4>2. AtoiSaturates /\ call' = call
        BY <2>4 DEF NumbersCorrect
      <4>3. /\ call.op = "atoi" /\ Numeral(call.in, i, j, k)
            /\ i \in 0 .. Len(call.in) /\ j \in 0 .. Len(call.in) /\ k \in 0 .. Len(call.in)
        BY <4>1, <4>2
      <4>4. call.out = NearestInt(Signed10(SubSeq(call.in, i + 1, k)))
        BY <4>2, <4>3 DEF AtoiSaturates, NearestInt
      <4> QED BY <4>2, <4>4
    <3> QED BY <3>1, <3>2, <3>3 DEF NumbersCorrect
  <2> QED BY <2>1, <2>2, <2>3, <2>4 DEF NumbersCorrect
<1> QED BY <1>1, <1>2, PTL DEF TextSpec

\* string.c 360-380 and 435-454: the loops of strstr, strrchr and strcmp end at
\* the first place, the last place and the first difference, for all texts.
THEOREM SearchesAlwaysCorrect == TextSpec => []SearchesCorrect
<1>1. TextInit => SearchesCorrect
  BY DEF TextInit, Idle, SearchesCorrect
<1>2. SearchesCorrect /\ [TextNext]_call => SearchesCorrect'
  <2>1. ASSUME TextNext PROVE SearchesCorrect'
    <3>1. CASE call'.op # "search"
      BY <3>1 DEF SearchesCorrect
    <3>2. CASE call'.op = "search"
      <4>1. PICK s \in TextWords, t \in TextWords :
              call' = [op |-> "search", in |-> <<s, t>>,
                       out |-> [str |-> strstr(s, t), cmp |-> strcmp(s, t),
                                rchr |-> [c \in Range(t) |-> strrchr(s, c)]]]
        BY <2>1, <3>2, OtherCalls
      <4>2. /\ call'.in[1] = s /\ call'.in[2] = t
            /\ call'.out.str = strstr(s, t) /\ call'.out.cmp = strcmp(s, t)
            /\ \A c \in Range(t) : call'.out.rchr[c] = strrchr(s, c)
        BY <4>1
      <4>3. s \in Seq(DOMAIN Code) /\ t \in Seq(DOMAIN Code)
        BY TextAssumption
      <4>4. SearchesOf(s, t)
        BY <4>3, SearchesOfTexts
      <4> QED BY <4>2, <4>4 DEF SearchesCorrect, SearchesOf
    <3> QED BY <3>1, <3>2
  <2>2. ASSUME UNCHANGED call, SearchesCorrect PROVE SearchesCorrect'
    BY <2>2 DEF SearchesCorrect
  <2> QED BY <2>1, <2>2
<1> QED BY <1>1, <1>2, PTL DEF TextSpec

\* memmove moves what the source held before, wherever the two overlap.
THEOREM MoveAlwaysKeepsSource == TextSpec => []MoveKeepsSource
<1>1. TextInit => MoveKeepsSource
  BY DEF TextInit, Idle, MoveKeepsSource
<1>2. MoveKeepsSource /\ [TextNext]_call => MoveKeepsSource'
  <2>1. ASSUME TextNext PROVE MoveKeepsSource'
    <3> DEFINE l == Len(TextMemory)
    <3>1. TextMemory \in Seq(Range(TextMemory)) /\ l \in Nat /\ DOMAIN TextMemory = 1 .. l
      <4>1. TextMemory \in Seq(Range(TextMemory))
        BY TextAssumption
      <4> QED BY <4>1, LenProperties
    <3>2. CASE call'.op # "move"
      BY <3>2 DEF MoveKeepsSource
    <3>3. CASE call'.op = "move"
      <4>1. PICK d \in DOMAIN TextMemory, s \in DOMAIN TextMemory :
              \E n \in 0 .. l + 1 - Max({d, s}) :
                call' = [op |-> "move", in |-> <<d, s, n>>, out |-> memmove(TextMemory, d, s, n)]
        BY <2>1, <3>3, OtherCalls
      <4>2. PICK n \in 0 .. l + 1 - Max({d, s}) :
              call' = [op |-> "move", in |-> <<d, s, n>>, out |-> memmove(TextMemory, d, s, n)]
        BY <4>1
      <4>3. /\ call'.in[1] = d /\ call'.in[2] = s /\ call'.in[3] = n
            /\ call'.out = memmove(TextMemory, d, s, n)
        BY <4>2
      <4>4. d \in Int /\ s \in Int
        BY <3>1
      <4>5. n \in Nat /\ d + n <= l + 1 /\ s + n <= l + 1
        <5>1. Max({d, s}) = IF d <= s THEN s ELSE d
          BY <4>4, OfTwo
        <5>2. Max({d, s}) \in Int /\ d <= Max({d, s}) /\ s <= Max({d, s})
          BY <4>4, <5>1
        <5> HIDE DEF l
        <5> QED BY <3>1, <4>4, <5>2
      <4> DEFINE memory == TextMemory
      <4>6. \A i \in DOMAIN memory : memmove(memory, d, s, n)[i] = Moved(memory, d, s, 0, n, i)
        BY <3>1, <4>5, MoveCorrect
      <4>7. ASSUME NEW i \in DOMAIN TextMemory
            PROVE  Moved(TextMemory, d, s, 0, n, i)
                     = TextMemory[IF i \in d .. d + n - 1 THEN s + i - d ELSE i]
        <5>1. d + 0 = d
          BY <4>4
        <5> QED BY <5>1 DEF Moved
      <4> QED BY <4>3, <4>6, <4>7 DEF MoveKeepsSource
    <3> QED BY <3>2, <3>3
  <2>2. ASSUME UNCHANGED call, MoveKeepsSource PROVE MoveKeepsSource'
    BY <2>2 DEF MoveKeepsSource
  <2> QED BY <2>1, <2>2
<1> QED BY <1>1, <1>2, PTL DEF TextSpec

\* printf and strconcat give one text, and printp sends the serial line what it
\* shows.
THEOREM FormatsAlwaysAgree == TextSpec => []FormatsAgree
<1>1. TextInit => FormatsAgree
  BY DEF TextInit, Idle, FormatsAgree, DirectivesAgree, PanicLogged
<1>2. FormatsAgree /\ [TextNext]_call => FormatsAgree'
  <2>1. ASSUME TextNext PROVE FormatsAgree'
    <3>1. CASE call'.op # "format"
      BY <3>1 DEF FormatsAgree, DirectivesAgree, PanicLogged
    <3>2. CASE call'.op = "format"
      <4>1. PICK fmt \in TextFormats :
              call' = [op |-> "format", in |-> fmt,
                       out |-> [printp |-> printp(fmt), concat |-> strconcat(fmt)]]
        BY <2>1, <3>2, OtherCalls
      <4> DEFINE out == printf(fmt)
      <4>2. /\ call'.in = fmt /\ call'.out.concat = strconcat(fmt)
            /\ call'.out.printp.screen = out /\ call'.out.printp.serial = printf(out)
        BY <4>1 DEF printp, serial_print
      <4>3. fmt \in Seq(Chars)
        <5>1. fmt \in Seq(STRING)
          BY TextAssumption
        <5> QED BY <5>1, CharsFacts, Wider
      <4>4. "u" \notin Range(fmt) /\ ~Full(out) => strconcat(fmt) = out
        BY <4>3, FormatsCorrect
      <4>5. out \in Seq(Chars)
        BY <4>3, PrintfTyped
      <4> HIDE DEF out
      <4>6. "%" \notin Range(out) /\ Len(out) < OUT_SIZE => printf(out) = out
        BY <4>5, PlainText
      <4> QED BY <4>2, <4>4, <4>6 DEF FormatsAgree, DirectivesAgree, PanicLogged
    <3> QED BY <3>1, <3>2
  <2>2. ASSUME UNCHANGED call, FormatsAgree PROVE FormatsAgree'
    BY <2>2 DEF FormatsAgree, DirectivesAgree, PanicLogged
  <2> QED BY <2>1, <2>2
<1> QED BY <1>1, <1>2, PTL DEF TextSpec

\* The arguments of a command are the words of its line.
THEOREM ArgumentsAlwaysWords == TextSpec => []ArgumentsAreWords
<1>1. TextInit => ArgumentsAreWords
  BY DEF TextInit, Idle, ArgumentsAreWords
<1>2. ArgumentsAreWords /\ [TextNext]_call => ArgumentsAreWords'
  <2>1. ASSUME TextNext PROVE ArgumentsAreWords'
    <3>1. CASE call'.op # "command"
      BY <3>1 DEF ArgumentsAreWords
    <3>2. CASE call'.op = "command"
      <4>1. PICK line \in TextLines :
              call' = [op |-> "command", in |-> line, out |-> parse(line)]
        BY <2>1, <3>2, OtherCalls
      <4>2. call'.in = line /\ call'.out = parse(line)
        BY <4>1
      <4>3. line \in Seq(STRING)
        BY TextAssumption
      <4>4. command_line(line) \in Seq(STRING)
        BY <4>3, LineFacts
      <4>5. WordsOf(command_line(line), parse(line))
        BY <4>4, ParseCorrect
      <4>6. WordsOf(command_line(call'.in), call'.out)
        BY <4>2, <4>5
      <4> QED BY <4>6 DEF ArgumentsAreWords, WordsOf
    <3> QED BY <3>1, <3>2
  <2>2. ASSUME UNCHANGED call, ArgumentsAreWords PROVE ArgumentsAreWords'
    BY <2>2 DEF ArgumentsAreWords
  <2> QED BY <2>1, <2>2
<1> QED BY <1>1, <1>2, PTL DEF TextSpec

=================================================================================
