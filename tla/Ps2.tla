--------------------------------- MODULE Ps2 ---------------------------------
(***************************************************************************)
(* Keyboard and mouse (ps2_key.c, ps2_mouse.c) behind one controller,      *)
(* which has one output byte for both. Two interrupt handlers take bytes   *)
(* from it, and so does mouse_init, which the console task runs with       *)
(* interrupts enabled whenever `cursor` is typed: each may get what the    *)
(* other waits for. The port can be read whether a byte is waiting or not, *)
(* and then gives the last one again.                                      *)
(*                                                                         *)
(* A byte takes longer on its wire than an interrupt is held back, so none *)
(* comes while one is requested. The characters of the scancodes are left  *)
(* out (Tty goes on from there); shift is what the keyboard handler        *)
(* remembers.                                                              *)
(***************************************************************************)
EXTENDS Integers, SequencesExt, FiniteSetsExt

CONSTANTS
  mouse_max_x, mouse_max_y,
  Packets,        \* movements the mouse may send, <<flags, dx, dy>> in bytes
  KEYS            \* scancodes the keyboard can hold back

HasBit(byte, bit) == (byte \div bit) % 2 = 1
WithBit(byte, bit) == IF HasBit(byte, bit) THEN byte ELSE byte + bit

\* A mouse sets bit 3 of the first byte of each packet, as the protocol has it
\* and the handler relies on.
ASSUME Ps2Assumption ==
  /\ {mouse_max_x, mouse_max_y, KEYS} \subseteq Nat
  /\ Packets \subseteq [1 .. 3 -> 0 .. 255]
  /\ \A p \in Packets : HasBit(p[1], 8)

SC_LSHIFT_PRESS == 42
SC_RSHIFT_PRESS == 54
ShiftKeys == {SC_LSHIFT_PRESS, SC_RSHIFT_PRESS}
RELEASE == 128          \* the bit of a key that is let go
ACK == 250              \* answer of the mouse to a command
KBD_IRQ == 1            \* bits of the controller's configuration
MOUSE_IRQ == 2
BOOT_CONFIG == 97       \* only the keyboard interrupts

VARIABLES
  held,           \* shift keys that are down
  keys,           \* scancodes on their way
  reporting,      \* the mouse sends its movements
  packet,         \* the last movement
  wire,           \* bytes of the mouse on their way
  answer,         \* answer of the controller on its way
  output,         \* the output byte: [full, aux, data]; data stays when read
  irq,            \* interrupts requested for it and not yet served
  config,         \* configuration of the controller
  init_pc,        \* mouse_init: idle, config, reset, enable
  polled,         \* mouse_wait has returned, and the port will be read
  shift,
  mouse_cycle, mouse_bytes, mouse_x, mouse_y,
  overlap,        \* history: both shift keys were down since none was
  stolen,         \* history: mouse_init read a scancode and its interrupt did not come
  misread,        \* history: mouse_init took some other byte for the configuration
  settled         \* history: whether a quiet packet has arrived whole since the
                  \* stream of mouse bytes was last disturbed: no, packet, yes

device == <<held, keys, reporting, packet, wire, answer>>
keyboard == <<shift, held, keys, overlap>>
mouse == <<mouse_cycle, mouse_bytes, mouse_x, mouse_y>>
initVars == <<init_pc, polled>>
vars == <<device, output, irq, config, initVars, keyboard, mouse, stolen, misread, settled>>

Byte == 0 .. 255

TypeOK ==
  /\ held \subseteq ShiftKeys /\ keys \in Seq(Byte) /\ Len(keys) <= KEYS
  /\ packet \in Packets /\ wire \in Seq(Byte) /\ answer \in Seq(Byte)
  /\ output \in [full : BOOLEAN, aux : BOOLEAN, data : Byte] /\ config \in Byte
  /\ irq \subseteq {KBD_IRQ, MOUSE_IRQ}
  /\ init_pc \in {"idle", "config", "reset", "enable"}
  /\ {polled, reporting, shift, overlap, stolen, misread} \subseteq BOOLEAN
  /\ settled \in {"no", "packet", "yes"}
  /\ mouse_cycle \in 0 .. 2 /\ mouse_bytes \in [{1, 2} -> Byte]
  /\ mouse_x \in 0 .. mouse_max_x /\ mouse_y \in 0 .. mouse_max_y

-----------------------------------------------------------------------------
(* The devices and the controller                                          *)

Press(key) ==
  /\ key \notin held /\ Len(keys) < KEYS
  /\ held' = held \cup {key} /\ keys' = Append(keys, key)
  /\ overlap' = (overlap \/ held # {})
  /\ UNCHANGED <<reporting, packet, wire, answer, output, irq, config, initVars, shift, mouse,
                 stolen, misread, settled>>

Release(key) ==
  /\ key \in held /\ Len(keys) < KEYS
  /\ held' = held \ {key} /\ keys' = Append(keys, key + RELEASE)
  /\ overlap' = (overlap /\ held' # {})
  /\ UNCHANGED <<reporting, packet, wire, answer, output, irq, config, initVars, shift, mouse,
                 stolen, misread, settled>>

\* no byte but the first looks like the first of a packet
Quiet(p) == ~HasBit(p[2], 8) /\ ~HasBit(p[3], 8)

Move(p) ==
  /\ reporting /\ wire = <<>>
  /\ packet' = p /\ wire' = p
  /\ settled' = IF settled = "no" /\ Quiet(p) THEN "packet" ELSE settled
  /\ UNCHANGED <<held, keys, reporting, answer, output, irq, config, initVars, keyboard, mouse,
                 stolen, misread>>

\* The byte arrives, and an interrupt is requested if the line is enabled.
Put(aux, byte) ==
  /\ output' = [full |-> TRUE, aux |-> aux, data |-> byte]
  /\ irq' = {line \in {IF aux THEN MOUSE_IRQ ELSE KBD_IRQ} : HasBit(config, line)}

\* The next byte of the keyboard, of the controller itself or of the mouse
Transfer ==
  /\ ~output.full /\ irq = {}
  /\ \/ /\ keys # <<>> /\ Put(FALSE, Head(keys)) /\ keys' = Tail(keys)
        /\ UNCHANGED <<wire, answer>>
     \/ /\ answer # <<>> /\ Put(FALSE, Head(answer)) /\ answer' = Tail(answer)
        /\ UNCHANGED <<keys, wire>>
     \/ /\ wire # <<>> /\ Put(TRUE, Head(wire)) /\ wire' = Tail(wire)
        /\ UNCHANGED <<keys, answer>>
  /\ UNCHANGED <<held, reporting, packet, config, initVars, shift, overlap, mouse,
                 stolen, misread, settled>>

Taken == [output EXCEPT !.full = FALSE]

-----------------------------------------------------------------------------
(* Interrupts                                                              *)

translate_scancode_left_only(sc) ==
  CASE sc \in ShiftKeys -> TRUE
    [] sc = SC_LSHIFT_PRESS + RELEASE -> FALSE
    [] OTHER -> shift

\* shift after a scancode: letting go of either key clears it
translate_scancode(sc) ==
  CASE sc \in ShiftKeys -> TRUE
    [] sc >= RELEASE /\ sc - RELEASE \in ShiftKeys -> FALSE
    [] OTHER -> shift

\* reads the port, whatever is there
keyboard_irq ==
  /\ KBD_IRQ \in irq /\ irq' = irq \ {KBD_IRQ}
  /\ output' = Taken
  /\ shift' = translate_scancode(output.data)
  /\ UNCHANGED <<device, config, initVars, overlap, mouse, stolen, misread, settled>>

Signed(byte) == IF byte >= 128 THEN byte - 256 ELSE byte

Clamp_above_only(v, max) == IF v > max THEN max ELSE v

Clamp(v, max) == IF v < 0 THEN 0 ELSE IF v > max THEN max ELSE v

StartsPacket_always(byte) == TRUE

StartsPacket(byte) == HasBit(byte, 8)

\* the flags of the first byte are not used
mouse_byte ==
  LET data == output.data
  IN  /\ output' = Taken
      /\ \/ /\ mouse_cycle = 0
            /\ mouse_cycle' = IF StartsPacket(data) THEN 1 ELSE 0
            /\ UNCHANGED <<mouse_bytes, mouse_x, mouse_y>>
         \/ /\ mouse_cycle = 1
            /\ mouse_cycle' = 2 /\ mouse_bytes' = [mouse_bytes EXCEPT ![1] = data]
            /\ UNCHANGED <<mouse_x, mouse_y>>
         \/ /\ mouse_cycle = 2
            /\ mouse_cycle' = 0 /\ mouse_bytes' = [mouse_bytes EXCEPT ![2] = data]
            /\ mouse_x' = Clamp(mouse_x + Signed(mouse_bytes[1]), mouse_max_x)
            /\ mouse_y' = Clamp(mouse_y - Signed(data), mouse_max_y)
      /\ settled' = IF settled = "packet" /\ wire = <<>> THEN "yes" ELSE settled

\* returns when the status does not say that the byte is the mouse's
mouse_irq_handler ==
  /\ MOUSE_IRQ \in irq /\ irq' = irq \ {MOUSE_IRQ}
  /\ \/ output.aux /\ mouse_byte
     \/ ~output.aux /\ UNCHANGED <<output, mouse, settled>>
  /\ UNCHANGED <<device, config, initVars, keyboard, stolen, misread>>

-----------------------------------------------------------------------------
(* mouse_init.  mouse_wait returns when a byte is waiting, or gives up     *)
(* after a time that is long for the devices.  A handler may take the byte *)
(* before mouse_init reads the port, which then gives it again.            *)

mouse_wait ==
  /\ init_pc # "idle" /\ ~polled /\ polled' = TRUE
  /\ output.full \/ (answer = <<>> /\ wire = <<>>)
  /\ UNCHANGED <<device, output, irq, config, init_pc, keyboard, mouse, stolen, misread, settled>>

\* The port is read.  The interrupt controller may drop a request whose line
\* falls, and the status may forget whose byte it was.
mouse_read ==
  /\ polled /\ polled' = FALSE
  /\ output' \in {Taken, [Taken EXCEPT !.aux = FALSE]}
  /\ irq' = irq \/ (output.full /\ irq' = {})
  /\ stolen' = (stolen \/ (output.full /\ ~output.aux /\ output.data # config /\ irq' = {}))

mouse_init_ask ==
  /\ init_pc = "idle" /\ init_pc' = "config"
  /\ answer' = Append(answer, config)
  /\ UNCHANGED <<held, keys, reporting, packet, wire, output, irq, config, polled, keyboard,
                 mouse, stolen, misread, settled>>

EnableMouse(status) == WithBit(status, MOUSE_IRQ)

\* Reads the configuration, writes it back, and resets the mouse, which stops
\* in the middle of a packet.
mouse_init_configure ==
  /\ init_pc = "config" /\ mouse_read
  /\ config' = EnableMouse(output.data)
  /\ misread' = (misread \/ output.data # config)
  /\ init_pc' = "reset"
  /\ reporting' = FALSE /\ wire' = <<ACK>> /\ settled' = "no"
  /\ UNCHANGED <<held, keys, packet, answer, keyboard, mouse>>

mouse_init_enable ==
  /\ init_pc = "reset" /\ mouse_read /\ init_pc' = "enable"
  /\ reporting' = TRUE /\ wire' = Append(wire, ACK)
  /\ UNCHANGED <<held, keys, packet, answer, config, keyboard, mouse, misread, settled>>

mouse_init_done ==
  /\ init_pc = "enable" /\ mouse_read /\ init_pc' = "idle"
  /\ settled' = IF output.full /\ output.aux THEN "no" ELSE settled
  /\ UNCHANGED <<device, config, keyboard, mouse, misread>>

-----------------------------------------------------------------------------
Init ==
  /\ held = {} /\ keys = <<>> /\ answer = <<>> /\ wire = <<>>
  /\ reporting = FALSE /\ packet \in Packets
  /\ output = [full |-> FALSE, aux |-> FALSE, data |-> 0]
  /\ irq = {} /\ config = BOOT_CONFIG
  /\ init_pc = "idle" /\ polled = FALSE
  /\ shift = FALSE
  /\ mouse_cycle = 0 /\ mouse_bytes = [i \in {1, 2} |-> 0]
  /\ mouse_x = mouse_max_x \div 2 /\ mouse_y = mouse_max_y \div 2
  /\ overlap = FALSE /\ stolen = FALSE /\ misread = FALSE /\ settled = "no"

Environment ==
  \/ \E key \in ShiftKeys : Press(key) \/ Release(key)
  \/ \E p \in Packets : Move(p)
  \/ Transfer

mouse_init ==
  \/ mouse_init_ask \/ mouse_wait
  \/ mouse_init_configure \/ mouse_init_enable \/ mouse_init_done

\* What a controller does that was configured with a scancode is its own
\* affair: the model stops there.
Next ==
  /\ ~misread
  /\ Environment \/ keyboard_irq \/ mouse_irq_handler \/ mouse_init

Spec == Init /\ [][Next]_vars

-----------------------------------------------------------------------------
(* Properties                                                              *)

\* nothing of the mouse is between the device and the handler
MouseIdle == wire = <<>> /\ ~(output.full /\ output.aux)

\* translate_scancode: once the scancodes have arrived, shift is never on with
\* both keys up, and says whether a key is down unless the two overlapped.
\* The premise is that no scancode was lost to mouse_init: then shift may stick.
ShiftFollowsKeys ==
  keys = <<>> /\ ~(output.full /\ ~output.aux) /\ KBD_IRQ \notin irq /\ ~stolen =>
    /\ shift => held # {}
    /\ ~overlap => (shift <=> held # {})

Offset(byte) == ((byte + 128) % 256) - 128
Within(v, max) == Max({0, Min({v, max})})

\* mouse_irq_handler ("First byte must have bit 3 set"): wherever in a packet
\* the answers to mouse_init have left it, the handler finds the packets again
\* after one whose movements have bit 3 clear.  From then on the position
\* follows the mouse, packet by packet, and stops at the edges.
FollowsMouse ==
  [][settled = "yes" /\ ~MouseIdle /\ MouseIdle' /\ init_pc' = init_pc =>
       /\ mouse_x' = Within(mouse_x + Offset(packet[2]), mouse_max_x)
       /\ mouse_y' = Within(mouse_y - Offset(packet[3]), mouse_max_y)]_vars

=============================================================================
