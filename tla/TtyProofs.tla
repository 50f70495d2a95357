------------------------------- MODULE TtyProofs -------------------------------
(***************************************************************************)
(* TtyInv is inductive, for every size of the rings and of the line, with  *)
(* and without echo, and for any number of keys; the safety properties of  *)
(* Tty follow from it, and that Tty implements LineDiscipline.             *)
(***************************************************************************)
EXTENDS Tty, SequenceTheorems, TLAPS

-----------------------------------------------------------------------------
(* The invariant                                                           *)

\* Labels of tty_write
WriteLabel == {"write", "fill", "store", "unlock"}

\* Each task stays in its own program; it is BLOCKED only where block_task has
\* left it, and has something to write just while it is in tty_write.
ProgramInv ==
  /\ pc[Worker] \in Label \ {"take", "return"}
  /\ pc[Console] \in Label \ {"register", "loop", "copy", "wake", "drained"}
  /\ pc[Backend] \in {"check", "block", "woken", "acquire", "take", "release"}
  /\ \A p \in Task : state[p] = "BLOCKED" => pc[p] = "woken"
  /\ \A p \in Writer : writing[p] # <<>> <=> pc[p] \in WriteLabel

\* The worker writes a newline, what is left of the echo of a backspace, or a
\* letter, and nothing else.
EchoInv ==
  writing[Worker] \in {<<>>, <<NL>>, <<BS>>, <<SPACE, BS>>, <<BS, SPACE, BS>>}
                        \cup {<<c>> : c \in Letters}

\* A lock is taken while a task is in one of its sections, and only one is.
LockInv ==
  /\ input_lock <=> \/ pc[Worker] \in {"copy", "release"}
                    \/ pc[Console] \in {"take", "release"}
  /\ ~(pc[Worker] \in {"copy", "release"} /\ pc[Console] \in {"take", "release"})
  /\ output_lock <=> \/ \E p \in Writer : pc[p] \in {"fill", "store", "unlock"}
                     \/ pc[Backend] \in {"take", "release"}
  /\ \A p \in Writer : pc[p] \in {"fill", "store", "unlock"} =>
       /\ pc[Backend] \notin {"take", "release"}
       /\ \A q \in Writer \ {p} : pc[q] \notin {"fill", "store", "unlock"}

\* What a task found out about a ring before it took the lock, or in an earlier
\* step under it, is still so when it uses it.
RingInv ==
  /\ pc[Console] \in {"acquire", "take"} => input # <<>>
  /\ pc[Backend] \in {"acquire", "take"} => output_head # output_tail
  /\ \A p \in Writer : pc[p] = "store" =>
       next_head[p] = (output_head + 1) % OUTPUT_SIZE /\ next_head[p] # output_tail

\* A completed line is what was edited, with a newline, and is copied up to it.
CompletedInv ==
  /\ rest # <<>> <=> pc[Worker] \in {"acquire", "copy"}
  /\ rest # <<>> => rest[Len(rest)] = NL
  /\ pc[Worker] = "acquire" => rest = Append(edit, NL)

\* tty_read_line stops at a newline and at maxlen, so a line that it has not
\* returned has neither.
LineInv ==
  /\ pc[Console] \in WriteLabel => line = <<>>
  /\ pc[Console] \in {"release", "return"} => line # <<>>
  /\ pc[Console] \notin {"release", "return"} =>
       Len(line) < MAXLEN /\ \A i \in 1 .. Len(line) : line[i] # NL
  /\ \A i \in 1 .. Len(line) - 1 : line[i] # NL
  /\ pc[Console] = "return" => line[Len(line)] = NL \/ Len(line) = MAXLEN

\* The text on its way to the reader: what it has of its line and what is in
\* the ring; and with what the worker has still to copy
Handed == line \o input
Stream == Handed \o rest

\* A newline in every window of a full edit buffer and one more
Windows(s) == \A i \in 1 .. Len(s) - EDIT_MAX : \E j \in i .. i + EDIT_MAX : s[j] = NL

\* The text ends with a newline.
Ended(s) == s # <<>> => s[Len(s)] = NL

\* Unless something was dropped, the worker hands over whole lines that fit
\* into the buffer of the reader.
StreamInv ==
  ~dropped =>
    /\ pc[Worker] # "copy" => Ended(Handed)
    /\ line # <<>> /\ line[Len(line)] # NL => input # <<>>
    /\ Windows(Stream)

\* The raw ring holds the last of the accepted keys.
KeysInv ==
  /\ Len(raw) <= Len(accepted)
  /\ \A i \in 1 .. Len(raw) : raw[i] = accepted[Len(accepted) - Len(raw) + i]

TtyInv ==
  /\ TypeOK /\ ProgramInv /\ EchoInv /\ LockInv /\ RingInv
  /\ CompletedInv /\ LineInv /\ StreamInv /\ KeysInv

-----------------------------------------------------------------------------
(* Sequences                                                               *)

\* What head and tail of a sequence are.
LEMMA SeqFacts ==
  ASSUME NEW S, NEW s \in Seq(S)
  PROVE  /\ Len(s) \in Nat
         /\ s = <<>> <=> Len(s) = 0
         /\ s # <<>> => /\ Head(s) = s[1] /\ s[1] \in S
                        /\ Tail(s) \in Seq(S) /\ Len(Tail(s)) = Len(s) - 1
                        /\ \A i \in 1 .. Len(s) - 1 : Tail(s)[i] = s[i + 1]
BY EmptySeq, LenProperties, HeadTailProperties

\* The tail of a sequence is empty when it has one element.
LEMMA TailFacts ==
  ASSUME NEW S, NEW s \in Seq(S), s # <<>>
  PROVE  Tail(s) # <<>> <=> Len(s) > 1
<1>1. Tail(s) \in Seq(S) /\ Len(Tail(s)) = Len(s) - 1 /\ Len(s) \in Nat
  BY SeqFacts
<1> DEFINE t == Tail(s)
<1>2. t \in Seq(S) /\ Len(t) = Len(s) - 1
  BY <1>1
<1> HIDE DEF t
<1>3. t = <<>> <=> Len(t) = 0
  BY <1>2, EmptySeq
<1>4. t # <<>> <=> Len(s) > 1
  BY <1>1, <1>2, <1>3
<1> QED BY <1>4 DEF t

\* The last element of an extended sequence, and the others.
LEMMA AppendFacts ==
  ASSUME NEW S, NEW s \in Seq(S), NEW e \in S
  PROVE  /\ Append(s, e) \in Seq(S) /\ Append(s, e) # <<>>
         /\ Len(Append(s, e)) = Len(s) + 1
         /\ \A i \in 1 .. Len(s) : Append(s, e)[i] = s[i]
         /\ Append(s, e)[Len(s) + 1] = e
BY AppendProperties

\* Without its last element a sequence is one shorter.
LEMMA FrontFacts ==
  ASSUME NEW S, NEW s \in Seq(S), s # <<>>
  PROVE  Front(s) \in Seq(S) /\ Len(Front(s)) = Len(s) - 1
<1>1. Len(s) \in Nat /\ Len(s) >= 1 /\ \A i \in 1 .. Len(s) : s[i] \in S
  BY SeqFacts, ElementOfSeq
<1> DEFINE n == Len(s) - 1
           front == SubSeq(s, 1, n)
<1>2. n \in Nat /\ \A i \in 1 .. n : s[i] \in S
  BY <1>1
<1> HIDE DEF n
<1>3. front \in Seq(S) /\ Len(front) = IF 1 <= n THEN n - 1 + 1 ELSE 0
  BY <1>2, SubSeqProperties
<1> HIDE DEF front
<1>4. Len(front) = n
  BY <1>2, <1>3
<1> QED BY <1>3, <1>4 DEF front, n, Front

\* The elements of two sequences put together.
LEMMA ConcatFacts ==
  ASSUME NEW S, NEW s \in Seq(S), NEW t \in Seq(S)
  PROVE  /\ s \o t \in Seq(S) /\ Len(s \o t) = Len(s) + Len(t)
         /\ \A i \in 1 .. Len(s) : (s \o t)[i] = s[i]
         /\ \A i \in 1 .. Len(t) : (s \o t)[Len(s) + i] = t[i]
<1>1. Len(s) \in Nat /\ Len(t) \in Nat
  BY SeqFacts
<1>2. /\ s \o t \in Seq(S) /\ Len(s \o t) = Len(s) + Len(t)
      /\ \A i \in 1 .. Len(s) + Len(t) :
           (s \o t)[i] = IF i <= Len(s) THEN s[i] ELSE t[i - Len(s)]
  BY ConcatProperties
<1>3. \A i \in 1 .. Len(s) : i \in 1 .. Len(s) + Len(t) /\ i <= Len(s)
  BY <1>1
<1>4. \A i \in 1 .. Len(t) : /\ Len(s) + i \in 1 .. Len(s) + Len(t) /\ ~(Len(s) + i <= Len(s))
                             /\ (Len(s) + i) - Len(s) = i
  BY <1>1
<1> QED BY <1>2, <1>3, <1>4

\* An element moves from the head of one sequence to the end of the one before.
LEMMA MoveElement ==
  ASSUME NEW S, NEW s \in Seq(S), NEW t \in Seq(S), t # <<>>
  PROVE  Append(s, Head(t)) \o Tail(t) = s \o t
<1>1. Head(t) \in S /\ Tail(t) \in Seq(S) /\ <<Head(t)>> \in Seq(S)
  BY SeqFacts
<1>2. Append(s, Head(t)) = s \o <<Head(t)>>
  BY <1>1, AppendIsConcat
<1>3. <<Head(t)>> \o Tail(t) = t
  BY <1>1
<1> QED BY <1>1, <1>2, <1>3, ConcatAssociative

\* Appending to the second of two sequences appends to both.
LEMMA AppendConcat ==
  ASSUME NEW S, NEW s \in Seq(S), NEW t \in Seq(S), NEW e \in S
  PROVE  s \o Append(t, e) = Append(s \o t, e)
<1>1. <<e>> \in Seq(S) /\ s \o t \in Seq(S)
  BY ConcatFacts
<1> QED BY <1>1, AppendIsConcat, ConcatAssociative

\* Tails of the texts that are echoed.
LEMMA Tuples ==
  /\ \A a : <<a>> # <<>> /\ Tail(<<a>>) = <<>> /\ Len(<<a>>) = 1 /\ Head(<<a>>) = a
  /\ \A a, b : <<a, b>> # <<>> /\ Tail(<<a, b>>) = <<b>> 
  /\ \A a, b, c : <<a, b, c>> # <<>> /\ Tail(<<a, b, c>>) = <<b, c>>
OBVIOUS

-----------------------------------------------------------------------------
(* Slots of a ring of n slots                                              *)

\* The slot of a ring that follows a slot.
LEMMA RingSlot ==
  ASSUME NEW n \in Nat \ {0}, NEW a \in 0 .. n - 1
  PROVE  (a + 1) % n = IF a + 1 = n THEN 0 ELSE a + 1
OBVIOUS

\* How far the head of a ring is from its tail,
LEMMA RingDistance ==
  ASSUME NEW n \in Nat \ {0}, NEW h \in 0 .. n - 1, NEW t \in 0 .. n - 1
  PROVE  (h - t) % n = IF h >= t THEN h - t ELSE h - t + n
OBVIOUS

\* and where the slots between them lie.
LEMMA RingIndex ==
  ASSUME NEW n \in Nat \ {0}, NEW t \in 0 .. n - 1, NEW i \in 0 .. n
  PROVE  (t + i) % n = IF t + i < n THEN t + i ELSE t + i - n
OBVIOUS

-----------------------------------------------------------------------------
(* The constants and the steps                                             *)

\* The sizes of the rings and of the line are positive numbers, and the line
\* has room for what can be edited and a newline.
LEMMA Sizes ==
  /\ RAW_SIZE \in Nat \ {0} /\ INPUT_SIZE \in Nat \ {0} /\ OUTPUT_SIZE \in Nat \ {0}
  /\ EDIT_MAX \in Nat \ {0} /\ MAXLEN = EDIT_MAX + 1 /\ MAXLEN \in Nat
  /\ ECHO \in BOOLEAN /\ NL \notin Letters /\ BS \notin Letters
BY TtyAssumption

\* The slot that follows a slot of the output ring is one of its slots.
LEMMA SlotRange == 
  ASSUME NEW a \in 0 .. OUTPUT_SIZE - 1
  PROVE  (a + 1) % OUTPUT_SIZE \in 0 .. OUTPUT_SIZE - 1
BY Sizes, RingSlot

\* The texts that are written are characters.
LEMMA Echoes ==
  /\ {<<NL>>, <<PROMPT>>, <<BS, SPACE, BS>>} \subseteq Seq(Char)
  /\ \A k \in Letters : <<k>> \in Seq(Char)
BY DEF Char, Key

\* Echo leaves the text to write and the labels of the right type.
LEMMA Echoing ==
  ASSUME TypeOK, NEW text \in Seq(Char), NEW label \in Label, Echo(text, label)
  PROVE  /\ writing' \in [Writer -> Seq(Char)]
         /\ pc' \in [Task -> Label]
<1>1. <<>> \in Seq(Char) /\ "write" \in Label
  BY EmptySeq DEF Label
<1>2. CASE ECHO
  BY <1>1, <1>2 DEF Echo, Goto, TypeOK
<1>3. CASE ~ECHO
  BY <1>1, <1>3 DEF Echo, Goto, TypeOK
<1> QED BY <1>2, <1>3

\* Where the worker stands after Echo, and what it has to write.
LEMMA EchoGoes ==
  ASSUME TypeOK, NEW text, NEW label, Echo(text, label)
  PROVE  /\ ECHO => writing'[Worker] = text /\ pc'[Worker] = "write"
         /\ ~ECHO => writing'[Worker] = <<>> /\ pc'[Worker] = label
         /\ pc'[Worker] \in {"write", label}
         /\ writing'[Console] = writing[Console]
         /\ \A p \in Task \ {Worker} : pc'[p] = pc[p]
<1> USE DEF Echo, Goto, TypeOK, Task, Writer, Worker, Console, Backend
<1>1. CASE ECHO BY <1>1
<1>2. CASE ~ECHO BY <1>2
<1> QED BY <1>1, <1>2

\* The steps of the system, one by one.
LEMMA Actions ==
  Next =>
    \/ \E key \in Key : kb_ring_handle_input(key)
    \/ \E p \in Task : block_task(p) \/ resume(p)
    \/ \E p \in Writer : Write(p)
    \/ worker_check \/ worker_register \/ worker_backspace \/ worker_newline \/ worker_letter
    \/ worker_acquire \/ worker_copy \/ worker_release \/ worker_wake \/ worker_empty
    \/ worker_drained
    \/ reader_check \/ reader_acquire \/ reader_take \/ reader_release \/ reader_return
    \/ backend_check \/ backend_acquire \/ backend_take \/ backend_release
BY DEF Next, tty_worker, console_task, compositor_main, Task, Writer

-----------------------------------------------------------------------------
(* The parts of the invariant, step by step                                *)

\* Every step keeps the type: a ring takes a character only when it has room
\* for it, and is read only when it has one.
LEMMA TypeStep ==
  ASSUME TypeOK, ProgramInv, CompletedInv, RingInv, LineInv, Next
  PROVE  TypeOK'
<1> USE DEF TypeOK, Worker, Console, Backend, Task, Writer, Label, At, Goto, wake_task,
            inputVars, outputVars
<1> USE Sizes
<1>1. ASSUME NEW key \in Key, kb_ring_handle_input(key) PROVE TypeOK'
  <2>1. /\ raw' \in Seq(Key) /\ Len(raw') < RAW_SIZE
        /\ accepted' \in Seq(Key)
    BY <1>1, AppendFacts, SeqFacts DEF kb_ring_handle_input
  <2> QED BY <1>1, <2>1 DEF kb_ring_handle_input
<1>2. ASSUME NEW p \in Task, block_task(p) \/ resume(p) PROVE TypeOK'
  <2>1. CASE block_task(p) BY <2>1 DEF block_task
  <2>2. CASE resume(p) BY <2>2 DEF resume
  <2> QED BY <1>2, <2>1, <2>2
<1>3. ASSUME NEW p \in Writer, Write(p) PROVE TypeOK'
  <2>1. CASE tty_write_acquire(p) BY <2>1 DEF tty_write_acquire, output_acquire
  <2>2. CASE tty_write_fill(p)
    <3>1. (output_head + 1) % OUTPUT_SIZE \in 0 .. OUTPUT_SIZE - 1
      BY SlotRange
    <3> QED BY <2>2, <3>1 DEF tty_write_fill
  <2>3. CASE tty_write_store(p)
    <3>1. writing[p] \in Seq(Char) /\ writing[p] # <<>> /\ next_head[p] \in 0 .. OUTPUT_SIZE - 1
      BY <2>3 DEF tty_write_store, ProgramInv, WriteLabel
    <3>2. Head(writing[p]) \in Char
      BY <3>1, SeqFacts
    <3>3. stored' \in Seq(Char)
      BY <2>3, <3>2, AppendFacts DEF tty_write_store
    <3> QED BY <2>3, <3>1, <3>2, <3>3 DEF tty_write_store
  <2>4. CASE tty_write_release(p)
    <3>1. writing[p] \in Seq(Char) /\ writing[p] # <<>>
      BY <2>4 DEF tty_write_release, ProgramInv, WriteLabel
    <3>2. Tail(writing[p]) \in Seq(Char)
      BY <3>1, SeqFacts
    <3> QED BY <2>4, <3>2 DEF tty_write_release
  <2> QED BY <1>3, <2>1, <2>2, <2>3, <2>4 DEF Write
<1>4. CASE worker_check BY <1>4 DEF worker_check
<1>5. CASE worker_register BY <1>5 DEF worker_register
<1>6. ASSUME NEW key, Pop(key) PROVE raw' \in Seq(Key) /\ Len(raw') < RAW_SIZE
  <2>1. raw' = Tail(raw) /\ raw # <<>>
    BY <1>6 DEF Pop
  <2>2. Tail(raw) \in Seq(Key) /\ Len(Tail(raw)) = Len(raw) - 1 /\ Len(raw) \in Nat
    BY <2>1, SeqFacts
  <2> QED BY <2>1, <2>2
<1>7. CASE worker_backspace
  <2>1. /\ edit' \in Seq(Letters) /\ Len(edit') <= EDIT_MAX
        /\ writing' \in [Writer -> Seq(Char)] /\ pc' \in [Task -> Label]
    <3>1. CASE edit = <<>>
      BY <1>7, <3>1 DEF worker_backspace
    <3>2. CASE edit # <<>>
      <4>1. edit' = Front(edit) /\ Echo(<<BS, SPACE, BS>>, "loop")
        BY <1>7, <3>2 DEF worker_backspace
      <4>2. Front(edit) \in Seq(Letters) /\ Len(Front(edit)) <= EDIT_MAX
        <5>1. Front(edit) \in Seq(Letters) /\ Len(Front(edit)) = Len(edit) - 1 /\ Len(edit) \in Nat
          BY <3>2, FrontFacts, SeqFacts
        <5>2. Len(edit) <= EDIT_MAX /\ EDIT_MAX \in Nat
          OBVIOUS
        <5> DEFINE n == Len(edit)
        <5>3. n \in Nat /\ n - 1 <= EDIT_MAX
          BY ONLY <5>1, <5>2
        <5> QED BY <5>1, <5>3, Zenon DEF n
      <4> QED BY <4>1, <4>2, Echoes, Echoing
    <3> QED BY <3>1, <3>2
  <2> QED BY <1>6, <1>7, <2>1 DEF worker_backspace
<1>8. CASE worker_newline
  <2>1. rest' \in Seq(Key)
    BY <1>8, AppendFacts, SeqMonotonic DEF worker_newline, Key
  <2> QED BY <1>6, <1>8, <2>1 DEF worker_newline
<1>9. CASE worker_letter
  <2> PICK k \in Letters : worker_letter!(k)
    BY <1>9 DEF worker_letter
  <2>1. /\ edit' \in Seq(Letters) /\ Len(edit') <= EDIT_MAX
        /\ writing' \in [Writer -> Seq(Char)] /\ pc' \in [Task -> Label]
    <3>1. CASE ~EditHasRoom
      BY <3>1
    <3>2. CASE EditHasRoom
      <4>1. edit' = Append(edit, k) /\ Echo(<<k>>, "loop")
        BY <3>2
      <4>2. Append(edit, k) \in Seq(Letters) /\ Len(Append(edit, k)) <= EDIT_MAX
        BY <3>2, AppendFacts, SeqFacts DEF EditHasRoom
      <4> QED BY <4>1, <4>2, Echoes, Echoing
    <3> QED BY <3>1, <3>2
  <2> QED BY <1>6, <2>1
<1>10. CASE worker_acquire BY <1>10 DEF worker_acquire, input_acquire
<1>11. CASE worker_copy
  <2>1. rest # <<>>
    BY <1>11 DEF worker_copy, CompletedInv
  <2>2. Head(rest) \in Key /\ rest' \in Seq(Key)
    BY <1>11, <2>1, SeqFacts DEF worker_copy
  <2>3. input' \in Seq(Key) /\ Len(input') < INPUT_SIZE /\ dropped' \in BOOLEAN
    <3>1. CASE ~InputHasRoom
      BY <1>11, <3>1 DEF worker_copy
    <3>2. CASE InputHasRoom
      <4>1. Append(input, Head(rest)) \in Seq(Key) /\ Len(Append(input, Head(rest))) = Len(input) + 1
        BY <2>2, AppendFacts
      <4>2. Len(input) \in Nat
        BY SeqFacts
      <4>3. Len(input) + 1 < INPUT_SIZE
        BY <3>2, <4>2, Sizes DEF InputHasRoom
      <4>4. input' = Append(input, Head(rest)) /\ dropped' = dropped
        BY <1>11, <3>2 DEF worker_copy
      <4> QED BY <4>1, <4>3, <4>4
    <3> QED BY <3>1, <3>2
  <2> QED BY <1>11, <2>2, <2>3 DEF worker_copy
<1>12. CASE worker_release
  <2>1. writing' \in [Writer -> Seq(Char)] /\ pc' \in [Task -> Label]
    BY <1>12, Echoes, Echoing DEF worker_release
  <2> QED BY <1>12, <2>1 DEF worker_release
<1>13. CASE worker_wake
  <2>1. edit' \in Seq(Letters) /\ Len(edit') <= EDIT_MAX
    BY <1>13, EmptySeq DEF worker_wake
  <2> QED BY <1>13, <2>1 DEF worker_wake
<1>14. CASE worker_empty BY <1>14 DEF worker_empty
<1>15. CASE worker_drained BY <1>15 DEF worker_drained
<1>16. CASE reader_check BY <1>16 DEF reader_check
<1>17. CASE reader_acquire BY <1>17 DEF reader_acquire, input_acquire
<1>18. CASE reader_take
  <2>1. input # <<>> /\ Len(line) < MAXLEN
    BY <1>18 DEF reader_take, RingInv, LineInv
  <2>2. Head(input) \in Key /\ input' \in Seq(Key) /\ Len(input') < INPUT_SIZE
    BY <1>18, <2>1, SeqFacts DEF reader_take
  <2>3. line' \in Seq(Key) /\ Len(line') <= MAXLEN /\ delivered' \in Seq(Key)
    BY <1>18, <2>1, <2>2, AppendFacts, SeqFacts DEF reader_take
  <2> QED BY <1>18, <2>2, <2>3 DEF reader_take
<1>19. CASE reader_release BY <1>19 DEF reader_release
<1>20. CASE reader_return
  <2>1. line' \in Seq(Key) /\ Len(line') <= MAXLEN
    BY <1>20, EmptySeq DEF reader_return
  <2> QED BY <1>20, <2>1, Echoes DEF reader_return
<1>21. CASE backend_check BY <1>21 DEF backend_check
<1>22. CASE backend_acquire BY <1>22 DEF backend_acquire, output_acquire
<1>23. CASE backend_take
  <2>1. output_buff[output_tail] \in Char /\ (output_tail + 1) % OUTPUT_SIZE \in 0 .. OUTPUT_SIZE - 1
    BY SlotRange
  <2>2. shown' \in Seq(Char)
    BY <1>23, <2>1, AppendFacts DEF backend_take
  <2> QED BY <1>23, <2>1, <2>2 DEF backend_take
<1>24. CASE backend_release BY <1>24 DEF backend_release
<1> HIDE DEF TypeOK, Task, Writer
<1> QED
  BY <1>1, <1>2, <1>3, <1>4, <1>5, <1>7, <1>8, <1>9, <1>10, <1>11, <1>12, <1>13, <1>14,
     <1>15, <1>16, <1>17, <1>18, <1>19, <1>20, <1>21, <1>22, <1>23, <1>24, Actions

\* Every step of a task leads to one of its own labels.
LEMMA ProgramStep ==
  ASSUME TypeOK, ProgramInv, Next PROVE ProgramInv'
<1> USE DEF TypeOK, ProgramInv, Task, Writer, Worker, Console, Backend, Label, WriteLabel, At,
            Goto, wake_task, inputVars, outputVars
<1>1. ASSUME NEW key \in Key, kb_ring_handle_input(key) PROVE ProgramInv'
  <2>1. /\ UNCHANGED <<pc, writing>>
        /\ state' = state \/ state' = [state EXCEPT ![Worker] = "READY"]
    BY <1>1 DEF kb_ring_handle_input
  <2>2. \A p \in Task : state'[p] = "BLOCKED" => state[p] = "BLOCKED"
    BY <2>1
  <2> QED BY <2>1, <2>2
<1>2. ASSUME NEW p \in Task, block_task(p) \/ resume(p) PROVE ProgramInv'
  <2>1. CASE block_task(p) BY <2>1 DEF block_task
  <2>2. CASE resume(p) BY <2>2 DEF resume
  <2> QED BY <1>2, <2>1, <2>2
<1>3. ASSUME NEW p \in Writer, Write(p) PROVE ProgramInv'
  <2>1. CASE tty_write_acquire(p) BY <2>1 DEF tty_write_acquire, output_acquire
  <2>2. CASE tty_write_fill(p) BY <2>2 DEF tty_write_fill
  <2>3. CASE tty_write_store(p) BY <2>3 DEF tty_write_store
  <2>4. CASE tty_write_release(p)
    <3>1. writing[p] \in Seq(Char) /\ writing[p] # <<>>
      BY <2>4 DEF tty_write_release
    <3>2. Tail(writing[p]) \in Seq(Char) /\ Len(Tail(writing[p])) = Len(writing[p]) - 1
          /\ Len(writing[p]) \in Nat
      BY <3>1, SeqFacts
    <3>3. Tail(writing[p]) # <<>> <=> Len(writing[p]) > 1
      BY <3>1, TailFacts
    <3>4. /\ writing' = [writing EXCEPT ![p] = Tail(writing[p])]
          /\ pc[p] = "unlock" /\ state' = state
      BY <2>4 DEF tty_write_release
    <3>5. CASE Len(writing[p]) > 1
      <4>1. pc' = [pc EXCEPT ![p] = "write"]
        BY Zenon, <2>4, <3>5 DEF tty_write_release
      <4> QED BY <3>3, <3>4, <3>5, <4>1
    <3>6. CASE ~(Len(writing[p]) > 1)
      <4>1. PICK to \in {"check", "wake", "loop"} :
              /\ pc' = [pc EXCEPT ![p] = to]
              /\ p = Worker => to \in {"loop", "wake"}
              /\ p = Console => to = "check"
        <5>1. CASE p = Console
          BY <2>4, <3>6, <5>1 DEF tty_write_release
        <5>2. CASE p = Worker /\ writing[p] = <<NL>>
          BY <2>4, <3>6, <5>2 DEF tty_write_release
        <5>3. CASE p = Worker /\ writing[p] # <<NL>>
          BY <2>4, <3>6, <5>3 DEF tty_write_release
        <5> QED BY <5>1, <5>2, <5>3
      <4> QED BY <3>3, <3>4, <3>6, <4>1
    <3> QED BY <3>5, <3>6
  <2> QED BY <1>3, <2>1, <2>2, <2>3, <2>4 DEF Write
<1>4. CASE worker_check BY <1>4 DEF worker_check
<1>5. CASE worker_register BY <1>5 DEF worker_register
<1>6. ASSUME NEW text, text # <<>>, NEW label \in {"loop", "wake"}, Echo(text, label), 
             UNCHANGED state, pc[Worker] \in {"loop", "release"}
      PROVE  ProgramInv'
  <2>1. /\ ECHO => writing'[Worker] = text /\ pc'[Worker] = "write"
        /\ ~ECHO => writing'[Worker] = <<>> /\ pc'[Worker] = label
        /\ writing'[Console] = writing[Console]
        /\ pc'[Console] = pc[Console] /\ pc'[Backend] = pc[Backend]
    BY <1>6, EchoGoes
  <2> HIDE DEF TypeOK
  <2>2. CASE ECHO BY <1>6, <2>1, <2>2
  <2>3. CASE ~ECHO BY <1>6, <2>1, <2>3
  <2> QED BY <2>2, <2>3
<1>7. CASE worker_backspace
  <2>1. CASE edit = <<>> BY <1>7, <2>1 DEF worker_backspace
  <2>2. CASE edit # <<>> BY <1>6, <1>7, <2>2, Tuples DEF worker_backspace, Pop
  <2> QED BY <2>1, <2>2
<1>8. CASE worker_newline BY <1>8 DEF worker_newline, Pop
<1>9. CASE worker_letter
  <2> PICK k \in Letters : worker_letter!(k)
    BY <1>9 DEF worker_letter
  <2>1. CASE ~EditHasRoom BY <2>1
  <2>2. CASE EditHasRoom BY <1>6, <2>2, Tuples DEF Pop
  <2> QED BY <2>1, <2>2
<1>10. CASE worker_acquire BY <1>10 DEF worker_acquire, input_acquire
<1>11. CASE worker_copy BY <1>11 DEF worker_copy
<1>12. CASE worker_release BY <1>6, <1>12, Tuples DEF worker_release
<1>13. CASE worker_wake BY <1>13 DEF worker_wake
<1>14. CASE worker_empty BY <1>14 DEF worker_empty
<1>15. CASE worker_drained BY <1>15 DEF worker_drained
<1>16. CASE reader_check BY <1>16 DEF reader_check
<1>17. CASE reader_acquire BY <1>17 DEF reader_acquire, input_acquire
<1>18. CASE reader_take BY <1>18 DEF reader_take
<1>19. CASE reader_release BY <1>19 DEF reader_release
<1>20. CASE reader_return BY <1>20, Tuples DEF reader_return
<1>21. CASE backend_check BY <1>21 DEF backend_check
<1>22. CASE backend_acquire BY <1>22 DEF backend_acquire, output_acquire
<1>23. CASE backend_take BY <1>23 DEF backend_take
<1>24. CASE backend_release BY <1>24 DEF backend_release
<1> HIDE DEF TypeOK, ProgramInv, Task, Writer
<1> QED
  BY <1>1, <1>2, <1>3, <1>4, <1>5, <1>7, <1>8, <1>9, <1>10, <1>11, <1>12, <1>13, <1>14,
     <1>15, <1>16, <1>17, <1>18, <1>19, <1>20, <1>21, <1>22, <1>23, <1>24, Actions

\* Every step keeps the locks with those who are in their sections: a task
\* that acquires found the lock free, and nobody else releases it.
LEMMA LockStep ==
  ASSUME TypeOK, ProgramInv, LockInv, Next PROVE LockInv'
<1> USE DEF TypeOK, LockInv, Task, Writer, Worker, Console, Backend, Label, At,
            Goto, wake_task, inputVars, outputVars
<1>1. ASSUME NEW key \in Key, kb_ring_handle_input(key) PROVE LockInv'
  BY <1>1 DEF kb_ring_handle_input
<1>2. ASSUME NEW p \in Task, block_task(p) \/ resume(p) PROVE LockInv'
  <2>1. CASE block_task(p) BY <2>1 DEF block_task
  <2>2. CASE resume(p) BY <2>2 DEF resume
  <2> QED BY <1>2, <2>1, <2>2
<1>3. ASSUME NEW p \in Writer, Write(p) PROVE LockInv'
  <2>1. CASE tty_write_acquire(p) BY <2>1 DEF tty_write_acquire, output_acquire
  <2>2. CASE tty_write_fill(p) BY <2>2 DEF tty_write_fill
  <2>3. CASE tty_write_store(p) BY <2>3 DEF tty_write_store
  <2>4. CASE tty_write_release(p) BY <2>4 DEF tty_write_release
  <2> QED BY <1>3, <2>1, <2>2, <2>3, <2>4 DEF Write
<1>4. CASE worker_check BY <1>4 DEF worker_check
<1>5. CASE worker_register BY <1>5 DEF worker_register
<1>6. ASSUME NEW text, NEW label \in {"loop", "wake"}, Echo(text, label), UNCHANGED output_lock,
             \/ pc[Worker] = "loop" /\ UNCHANGED input_lock
             \/ pc[Worker] = "release" /\ input_lock' = FALSE
      PROVE  LockInv'
  <2>1. /\ ECHO => writing'[Worker] = text /\ pc'[Worker] = "write"
        /\ ~ECHO => writing'[Worker] = <<>> /\ pc'[Worker] = label
        /\ writing'[Console] = writing[Console]
        /\ pc'[Console] = pc[Console] /\ pc'[Backend] = pc[Backend]
    BY <1>6, EchoGoes
  <2> HIDE DEF TypeOK
  <2>2. CASE ECHO BY <1>6, <2>1, <2>2
  <2>3. CASE ~ECHO BY <1>6, <2>1, <2>3
  <2> QED BY <2>2, <2>3
<1>7. CASE worker_backspace
  <2>1. CASE edit = <<>> BY <1>7, <2>1 DEF worker_backspace
  <2>2. CASE edit # <<>> BY <1>6, <1>7, <2>2 DEF worker_backspace, Pop
  <2> QED BY <2>1, <2>2
<1>8. CASE worker_newline BY <1>8 DEF worker_newline, Pop
<1>9. CASE worker_letter
  <2> PICK k \in Letters : worker_letter!(k)
    BY <1>9 DEF worker_letter
  <2>1. CASE ~EditHasRoom BY <2>1
  <2>2. CASE EditHasRoom BY <1>6, <2>2 DEF Pop
  <2> QED BY <2>1, <2>2
<1>10. CASE worker_acquire BY <1>10 DEF worker_acquire, input_acquire
<1>11. CASE worker_copy BY <1>11 DEF worker_copy
<1>12. CASE worker_release BY <1>6, <1>12 DEF worker_release
<1>13. CASE worker_wake BY <1>13 DEF worker_wake
<1>14. CASE worker_empty BY <1>14 DEF worker_empty
<1>15. CASE worker_drained BY <1>15 DEF worker_drained
<1>16. CASE reader_check BY <1>16 DEF reader_check
<1>17. CASE reader_acquire BY <1>17 DEF reader_acquire, input_acquire
<1>18. CASE reader_take BY <1>18 DEF reader_take
<1>19. CASE reader_release BY <1>19 DEF reader_release
<1>20. CASE reader_return BY <1>20 DEF reader_return
<1>21. CASE backend_check BY <1>21 DEF backend_check
<1>22. CASE backend_acquire BY <1>22 DEF backend_acquire, output_acquire
<1>23. CASE backend_take BY <1>23 DEF backend_take
<1>24. CASE backend_release BY <1>24 DEF backend_release
<1> HIDE DEF TypeOK, LockInv, Task, Writer
<1> QED
  BY <1>1, <1>2, <1>3, <1>4, <1>5, <1>7, <1>8, <1>9, <1>10, <1>11, <1>12, <1>13, <1>14,
     <1>15, <1>16, <1>17, <1>18, <1>19, <1>20, <1>21, <1>22, <1>23, <1>24, Actions

\* Every step keeps the text of the worker one of the four kinds of echo.
LEMMA EchoStep ==
  ASSUME TypeOK, ProgramInv, EchoInv, Next PROVE EchoInv'
<1> USE DEF Worker, Console, Backend, Task, Writer, At, inputVars, outputVars
<1>1. ASSUME writing' = writing PROVE EchoInv'
  BY <1>1 DEF EchoInv
<1>2. ASSUME NEW text, NEW label, Echo(text, label),
             text \in {<<NL>>, <<BS, SPACE, BS>>} \cup {<<c>> : c \in Letters}
      PROVE  EchoInv'
  BY <1>2, EchoGoes, Sizes DEF EchoInv
<1>3. ASSUME NEW p \in Writer, tty_write_release(p) PROVE EchoInv'
  <2>1. CASE p = Console
    BY <1>3, <2>1 DEF tty_write_release, EchoInv, TypeOK
  <2>2. CASE p = Worker
    <3>1. writing'[Worker] = Tail(writing[Worker]) /\ writing[Worker] # <<>>
      BY <1>3, <2>2 DEF tty_write_release, TypeOK, ProgramInv, WriteLabel
    <3>2. CASE writing[Worker] \in {<<NL>>, <<BS>>} \cup {<<k>> : k \in Letters}
      BY <3>1, <3>2, Tuples DEF EchoInv
    <3>3. CASE writing[Worker] = <<SPACE, BS>>
      BY <3>1, <3>3, Tuples DEF EchoInv
    <3>4. CASE writing[Worker] = <<BS, SPACE, BS>>
      BY <3>1, <3>4, Tuples DEF EchoInv
    <3> QED BY <3>1, <3>2, <3>3, <3>4 DEF EchoInv
  <2> QED BY <1>3, <2>1, <2>2
<1>4. CASE worker_backspace
  <2>1. CASE edit = <<>> BY <1>1, <1>4, <2>1 DEF worker_backspace
  <2>2. CASE edit # <<>> BY <1>2, <1>4, <2>2 DEF worker_backspace
  <2> QED BY <2>1, <2>2
<1>5. CASE worker_letter
  <2> PICK k \in Letters : worker_letter!(k)
    BY <1>5 DEF worker_letter
  <2>1. CASE ~EditHasRoom BY <1>1, <2>1
  <2>2. CASE EditHasRoom BY <1>2, <2>2
  <2> QED BY <2>1, <2>2
<1>6. CASE worker_release BY <1>2, <1>6 DEF worker_release
<1>7. CASE reader_return BY <1>7 DEF reader_return, EchoInv, TypeOK
<1> HIDE DEF Task, Writer
<1> QED
  BY <1>1, <1>3, <1>4, <1>5, <1>6, <1>7, Actions
  DEF kb_ring_handle_input, block_task, resume, Write, tty_write_acquire, tty_write_fill,
      tty_write_store, worker_check, worker_register, worker_newline, worker_acquire,
      worker_copy, worker_wake, worker_empty, worker_drained, reader_check, reader_acquire,
      reader_take, reader_release, backend_check, backend_acquire, backend_take,
      backend_release

\* Nobody but the reader takes from a ring, so it is not empty after the
\* check, and the slot in next_head stays free under the lock.
LEMMA RingStep ==
  ASSUME TypeOK, ProgramInv, LockInv, RingInv, CompletedInv, Next PROVE RingInv'
<1> USE DEF TypeOK, RingInv, Worker, Console, Backend, Task, Writer, Label, At, Goto,
            inputVars, outputVars
<1>1. ASSUME NEW key \in Key, kb_ring_handle_input(key) PROVE RingInv'
  BY <1>1 DEF kb_ring_handle_input
<1>2. ASSUME NEW p \in Task, block_task(p) \/ resume(p) PROVE RingInv'
  <2>1. CASE block_task(p) BY <2>1 DEF block_task
  <2>2. CASE resume(p) BY <2>2 DEF resume
  <2> QED BY <1>2, <2>1, <2>2
<1>3. ASSUME NEW p \in Writer, Write(p) PROVE RingInv'
  <2>1. CASE tty_write_acquire(p) BY <2>1 DEF tty_write_acquire, output_acquire
  <2>2. CASE tty_write_fill(p) BY <2>2 DEF tty_write_fill
  <2>3. CASE tty_write_store(p) 
    <3>1. \A q \in Writer : pc'[q] # "store"
      BY <2>3 DEF tty_write_store, LockInv
    <3>2. output_head' # output_tail'
      BY <2>3 DEF tty_write_store
    <3> QED BY <2>3, <3>1, <3>2 DEF tty_write_store
  <2>4. CASE tty_write_release(p) BY <2>4 DEF tty_write_release
  <2> QED BY <1>3, <2>1, <2>2, <2>3, <2>4 DEF Write
<1>4. ASSUME \A p \in Task \ {Worker} : pc'[p] = pc[p], pc'[Worker] # "store",
             UNCHANGED <<input, output_head, output_tail, next_head>>
      PROVE  RingInv'
  BY <1>4
<1>5. CASE worker_check BY <1>5 DEF worker_check
<1>6. CASE worker_register BY <1>6 DEF worker_register
<1>7. CASE worker_backspace
  <2>1. CASE edit = <<>> BY <1>7, <2>1 DEF worker_backspace
  <2>2. CASE edit # <<>>
    <3>1. Echo(<<BS, SPACE, BS>>, "loop")
      BY <1>7, <2>2 DEF worker_backspace
    <3>2. /\ pc'[Worker] \in {"write", "loop"}
          /\ \A p \in Task \ {Worker} : pc'[p] = pc[p]
      <4>1. TypeOK
        OBVIOUS
      <4> QED BY ONLY <3>1, <4>1, EchoGoes
    <3> QED BY <1>4, <1>7, <3>2 DEF worker_backspace
  <2> QED BY <2>1, <2>2
<1>8. CASE worker_newline BY <1>8 DEF worker_newline, Pop
<1>9. CASE worker_letter
  <2> PICK k \in Letters : worker_letter!(k)
    BY <1>9 DEF worker_letter
  <2>1. CASE ~EditHasRoom BY <2>1
  <2>2. CASE EditHasRoom
    <3>1. Echo(<<k>>, "loop")
      BY <2>2
    <3> HIDE DEF TypeOK
    <3>2. pc'[Worker] # "store" /\ \A p \in Task \ {Worker} : pc'[p] = pc[p]
      BY <3>1, EchoGoes
    <3> QED BY <1>4, <3>2
  <2> QED BY <2>1, <2>2
<1>10. CASE worker_acquire BY <1>10 DEF worker_acquire, input_acquire
<1>11. CASE worker_copy
  <2>1. Head(rest) \in Key
    BY <1>11, SeqFacts DEF worker_copy, CompletedInv
  <2>2. input # <<>> => input' # <<>>
    BY <1>11, <2>1, AppendFacts DEF worker_copy
  <2> QED BY <1>11, <2>2 DEF worker_copy
<1>12. CASE worker_release
  <2>1. Echo(<<NL>>, "wake")
    BY <1>12 DEF worker_release
  <2> HIDE DEF TypeOK
  <2>2. pc'[Worker] # "store" /\ \A p \in Task \ {Worker} : pc'[p] = pc[p]
    BY <2>1, EchoGoes
  <2> QED BY <1>4, <1>12, <2>2 DEF worker_release, TypeOK
<1>13. CASE worker_wake BY <1>13 DEF worker_wake
<1>14. CASE worker_empty BY <1>14 DEF worker_empty
<1>15. CASE worker_drained BY <1>15 DEF worker_drained
<1>16. CASE reader_check BY <1>16 DEF reader_check
<1>17. CASE reader_acquire BY <1>17 DEF reader_acquire, input_acquire
<1>18. CASE reader_take BY <1>18 DEF reader_take
<1>19. CASE reader_release BY <1>19 DEF reader_release
<1>20. CASE reader_return BY <1>20 DEF reader_return
<1>21. CASE backend_check BY <1>21 DEF backend_check
<1>22. CASE backend_acquire BY <1>22 DEF backend_acquire, output_acquire
<1>23. CASE backend_take BY <1>23 DEF backend_take, LockInv
<1>24. CASE backend_release BY <1>24 DEF backend_release
<1> HIDE DEF TypeOK, RingInv, Task, Writer
<1> QED
  BY <1>1, <1>2, <1>3, <1>5, <1>6, <1>7, <1>8, <1>9, <1>10, <1>11, <1>12, <1>13, <1>14,
     <1>15, <1>16, <1>17, <1>18, <1>19, <1>20, <1>21, <1>22, <1>23, <1>24, Actions

\* Every step keeps a completed line to be copied up to its newline.
LEMMA CompletedStep ==
  ASSUME TypeOK, ProgramInv, CompletedInv, Next PROVE CompletedInv'
<1> USE DEF TypeOK, Worker, Console, Backend, Task, Writer, Label, At, Goto,
            inputVars, outputVars
<1>1. ASSUME UNCHANGED <<rest, edit>>, 
             \/ pc'[Worker] = pc[Worker]
             \/ {pc[Worker], pc'[Worker]} \cap {"acquire", "copy"} = {}
      PROVE  CompletedInv'
  BY <1>1 DEF CompletedInv
<1>2. ASSUME UNCHANGED rest, {pc[Worker], pc'[Worker]} \cap {"acquire", "copy"} = {}
      PROVE  CompletedInv'
  BY <1>2 DEF CompletedInv
<1>3. CASE \E key \in Key : kb_ring_handle_input(key) BY <1>1, <1>3 DEF kb_ring_handle_input
<1>4. ASSUME NEW p \in Task, block_task(p) \/ resume(p) PROVE CompletedInv'
  BY <1>1, <1>4 DEF block_task, resume
<1>5. ASSUME NEW p \in Writer, Write(p) PROVE CompletedInv'
  BY <1>1, <1>5 DEF Write, tty_write_acquire, output_acquire, tty_write_fill, tty_write_store,
                    tty_write_release
<1>6. CASE worker_check \/ worker_register \/ worker_empty \/ worker_drained
  BY <1>1, <1>6 DEF worker_check, worker_register, worker_empty, worker_drained
<1>7. CASE worker_backspace
  BY <1>2, <1>7, EchoGoes DEF worker_backspace, Pop
<1>8. CASE worker_newline
  <2>1. edit \in Seq(Key) /\ NL \in Key
    BY SeqMonotonic DEF Key
  <2>2. rest' = Append(edit, NL) /\ pc'[Worker] = "acquire" /\ edit' = edit
    BY <1>8 DEF worker_newline, Pop
  <2>3. Len(rest') = Len(edit) + 1 /\ rest' # <<>> /\ rest'[Len(edit) + 1] = NL
    <3>1. Len(Append(edit, NL)) = Len(edit) + 1 /\ Append(edit, NL) # <<>>
          /\ Append(edit, NL)[Len(edit) + 1] = NL
      <4> HIDE DEF TypeOK
      <4> QED BY ONLY <2>1, AppendFacts
    <3> QED BY <2>2, <3>1
  <2> QED BY <2>2, <2>3 DEF CompletedInv
<1>9. CASE worker_letter
  BY <1>2, <1>9, EchoGoes DEF worker_letter, Pop
<1>10. CASE worker_acquire BY <1>10 DEF worker_acquire, input_acquire, CompletedInv
<1>11. CASE worker_copy
  <2>1. rest # <<>> /\ rest[Len(rest)] = NL /\ Len(rest) \in Nat
    BY <1>11, SeqFacts DEF worker_copy, CompletedInv
  <2>2. rest' = Tail(rest) /\ (rest' # <<>> <=> Len(rest) > 1)
    BY <1>11, <2>1, TailFacts DEF worker_copy
  <2>3. Len(rest) > 1 => rest'[Len(rest')] = NL
    BY <2>1, <2>2, SeqFacts
  <2>4. pc'[Worker] = IF Len(rest) > 1 THEN "copy" ELSE "release"
    BY <1>11 DEF worker_copy
  <2> QED BY <2>2, <2>3, <2>4 DEF CompletedInv
<1>12. CASE worker_release
  BY <1>1, <1>12, EchoGoes DEF worker_release
<1>13. CASE worker_wake BY <1>2, <1>13 DEF worker_wake
<1>14. CASE \/ reader_check \/ reader_acquire \/ reader_take \/ reader_release \/ reader_return
            \/ backend_check \/ backend_acquire \/ backend_take \/ backend_release
  BY <1>1, <1>14 DEF reader_check, reader_acquire, reader_take, reader_release, reader_return,
     backend_check, backend_acquire, backend_take, backend_release, input_acquire, output_acquire
<1> HIDE DEF TypeOK, Task, Writer
<1> QED
  BY <1>3, <1>4, <1>5, <1>6, <1>7, <1>8, <1>9, <1>10, <1>11, <1>12, <1>13, <1>14, Actions

\* Every step keeps the line of the reader without a newline before its end
\* and shorter than maxlen.
LEMMA LineStep ==
  ASSUME TypeOK, ProgramInv, RingInv, LineInv, Next PROVE LineInv'
<1> USE DEF TypeOK, Worker, Console, Backend, Task, Writer, Label, At, Goto,
            inputVars, outputVars
<1>1. ASSUME UNCHANGED line,
             \/ pc'[Console] = pc[Console]
             \/ pc[Console] \in WriteLabel /\ pc'[Console] \in WriteLabel \cup {"check"}
             \/ {pc[Console], pc'[Console]} \cap ({"release", "return"} \cup WriteLabel) = {}
      PROVE  LineInv'
  <2>1. CASE pc'[Console] = pc[Console]
    BY <1>1, <2>1 DEF LineInv
  <2>2. CASE pc[Console] \in WriteLabel /\ pc'[Console] \in WriteLabel \cup {"check"}
    <3>1. line' = <<>> /\ Len(<<>>) = 0
      BY <1>1, <2>2, EmptySeq DEF LineInv
    <3> QED BY <2>2, <3>1, Sizes DEF LineInv, WriteLabel
  <2>3. CASE {pc[Console], pc'[Console]} \cap ({"release", "return"} \cup WriteLabel) = {}
    BY <1>1, <2>3 DEF LineInv
  <2> QED BY <1>1, <2>1, <2>2, <2>3
<1>2. CASE \E key \in Key : kb_ring_handle_input(key) BY <1>1, <1>2 DEF kb_ring_handle_input
<1>3. ASSUME NEW p \in Task, block_task(p) \/ resume(p) PROVE LineInv'
  BY <1>1, <1>3 DEF block_task, resume, WriteLabel
<1>4. ASSUME NEW p \in Writer, Write(p) PROVE LineInv'
  BY <1>1, <1>4 DEF Write, tty_write_acquire, output_acquire, tty_write_fill, tty_write_store,
                    tty_write_release, WriteLabel
<1>5. CASE \/ worker_check \/ worker_register \/ worker_newline \/ worker_acquire
           \/ worker_copy \/ worker_wake \/ worker_empty \/ worker_drained
  BY <1>1, <1>5 DEF worker_check, worker_register, worker_newline, worker_acquire,
     worker_copy, worker_wake, worker_empty, worker_drained, Pop, input_acquire
<1>6. CASE worker_backspace \/ worker_letter \/ worker_release
  BY <1>1, <1>6, EchoGoes DEF worker_backspace, worker_letter, worker_release
<1>7. CASE reader_check \/ reader_acquire
  BY <1>1, <1>7 DEF reader_check, reader_acquire, input_acquire, WriteLabel
<1>8. CASE reader_take
  <2>1. input # <<>> /\ Head(input) \in Key
    BY <1>8, SeqFacts DEF reader_take, RingInv
  <2>2. /\ line' = Append(line, Head(input)) /\ pc'[Console] = "release"
        /\ Len(line) \in Nat /\ \A i \in 1 .. Len(line) : line[i] # NL
    BY <1>8, SeqFacts DEF reader_take, LineInv
  <2>3. line' # <<>> /\ Len(line') = Len(line) + 1 /\ \A i \in 1 .. Len(line) : line'[i] = line[i]
    <3>1. line \in Seq(Key)
      OBVIOUS
    <3> QED BY ONLY <2>1, <2>2, <3>1, AppendFacts
  <2>4. \A i \in 1 .. Len(line') - 1 : line'[i] # NL
    BY <2>2, <2>3
  <2> QED BY <2>2, <2>3, <2>4 DEF LineInv, WriteLabel
<1>9. CASE reader_release
  <2>1. line' = line /\ pc[Console] = "release" /\ line # <<>> /\ Len(line) \in Nat
    BY <1>9, SeqFacts DEF reader_release, LineInv
  <2>2. CASE line[Len(line)] = NL \/ Len(line) = MAXLEN
    BY <1>9, <2>1, <2>2 DEF reader_release, LineInv, LineFull, Last, WriteLabel
  <2>3. CASE line[Len(line)] # NL /\ Len(line) # MAXLEN
    <3>1. pc'[Console] = "check"
      BY <1>9, <2>3 DEF reader_release, LineFull, Last
    <3>2. Len(line) < MAXLEN /\ \A i \in 1 .. Len(line) : line[i] # NL
      <4>1. Len(line) <= MAXLEN /\ \A i \in 1 .. Len(line) - 1 : line[i] # NL
        BY DEF LineInv
      <4>2. \A i \in 1 .. Len(line) : i \in 1 .. Len(line) - 1 \/ i = Len(line)
        BY <2>1
      <4>3. Len(line) < MAXLEN
        BY <2>1, <2>3, <4>1, Sizes
      <4>4. \A i \in 1 .. Len(line) : line[i] # NL
        BY <2>3, <4>1, <4>2
      <4> QED BY <4>3, <4>4
    <3> QED BY <2>1, <3>1, <3>2 DEF LineInv, WriteLabel
  <2> QED BY <2>2, <2>3
<1>10. CASE reader_return
  BY <1>10, EmptySeq, Sizes DEF reader_return, LineInv, WriteLabel
<1>11. CASE backend_check \/ backend_acquire \/ backend_take \/ backend_release
  BY <1>1, <1>11 DEF backend_check, backend_acquire, backend_take, backend_release,
                     output_acquire
<1> HIDE DEF TypeOK, Task, Writer
<1> QED
  BY <1>2, <1>3, <1>4, <1>5, <1>6, <1>7, <1>8, <1>9, <1>10, <1>11, Actions

\* Every step keeps the raw ring the last of the accepted keys.
LEMMA KeysStep ==
  ASSUME TypeOK, KeysInv, Next PROVE KeysInv'
<1> USE DEF Worker, Console, Backend, Task, Writer, At, inputVars, outputVars
<1>1. Len(raw) \in Nat /\ Len(accepted) \in Nat /\ raw \in Seq(Key) /\ accepted \in Seq(Key)
  BY SeqFacts DEF TypeOK
<1>2. ASSUME NEW key \in Key, kb_ring_handle_input(key) PROVE KeysInv'
  <2>1. raw' = Append(raw, key) /\ accepted' = Append(accepted, key)
    BY <1>2 DEF kb_ring_handle_input
  <2>2. /\ Len(raw') = Len(raw) + 1 /\ \A i \in 1 .. Len(raw) : raw'[i] = raw[i]
        /\ raw'[Len(raw) + 1] = key
    BY <1>1, <2>1, AppendFacts
  <2>3. /\ Len(accepted') = Len(accepted) + 1
        /\ \A i \in 1 .. Len(accepted) : accepted'[i] = accepted[i]
        /\ accepted'[Len(accepted) + 1] = key
    BY <1>1, <2>1, AppendFacts
  <2> DEFINE d == Len(accepted) - Len(raw)
  <2>4. d \in Nat /\ Len(accepted') - Len(raw') = d /\ Len(raw') <= Len(accepted')
    BY <1>1, <2>2, <2>3 DEF KeysInv
  <2>5. ASSUME NEW i \in 1 .. Len(raw) PROVE raw'[i] = accepted'[d + i]
    <3>1. raw'[i] = raw[i] /\ raw[i] = accepted[d + i]
      BY <2>2 DEF KeysInv
    <3>2. d + i \in 1 .. Len(accepted)
      BY <1>1, <2>4
    <3> QED BY <2>3, <3>1, <3>2
  <2>6. raw'[Len(raw) + 1] = accepted'[d + (Len(raw) + 1)]
    <3>1. d + (Len(raw) + 1) = Len(accepted) + 1
      BY <1>1
    <3> QED BY <2>2, <2>3, <3>1
  <2> HIDE DEF d
  <2>7. \A i \in 1 .. Len(raw') : raw'[i] = accepted'[d + i]
    BY <1>1, <2>2, <2>5, <2>6
  <2> QED BY <2>4, <2>7 DEF KeysInv
<1>3. ASSUME NEW key, Pop(key), UNCHANGED accepted PROVE KeysInv'
  <2>1. raw # <<>> /\ raw' = Tail(raw)
    BY <1>3 DEF Pop
  <2>2. Len(raw') = Len(raw) - 1 /\ \A i \in 1 .. Len(raw) - 1 : raw'[i] = raw[i + 1]
    BY <1>1, <2>1, SeqFacts
  <2> QED BY <1>1, <1>3, <2>2 DEF KeysInv
<1>4. ASSUME UNCHANGED <<raw, accepted>> PROVE KeysInv'
  BY <1>4 DEF KeysInv
<1> QED
  BY <1>2, <1>3, <1>4, Actions
  DEF block_task, resume, Write, tty_write_acquire, tty_write_fill,
      tty_write_store, tty_write_release, worker_check, worker_register, worker_newline,
      worker_backspace, worker_letter, worker_acquire, worker_copy, worker_release,
      worker_wake, worker_empty, worker_drained, reader_check, reader_acquire, reader_take,
      reader_release, reader_return, backend_check, backend_acquire, backend_take,
      backend_release

-----------------------------------------------------------------------------
(* The text on its way to the reader                                       *)

\* A line that fits, with its newline, is added behind whole lines.
LEMMA WindowsExtend ==
  ASSUME NEW s \in Seq(Key), NEW t \in Seq(Key), Windows(s), Ended(s),
         t # <<>>, Len(t) <= EDIT_MAX + 1, t[Len(t)] = NL
  PROVE  Windows(s \o t)
<1> DEFINE n == Len(s)
           m == Len(t)
           u == s \o t
<1>1. n \in Nat /\ m \in Nat /\ m >= 1 /\ EDIT_MAX \in Nat
  BY SeqFacts, Sizes
<1>2. /\ Len(u) = n + m
      /\ \A i \in 1 .. n : u[i] = s[i]
      /\ \A i \in 1 .. m : u[n + i] = t[i]
  BY ConcatFacts
<1>3. n > 0 => s[n] = NL
  BY SeqFacts DEF Ended
<1>4. \A i \in 1 .. n - EDIT_MAX : \E j \in i .. i + EDIT_MAX : s[j] = NL
  BY DEF Windows
<1> HIDE DEF n, m, u
<1> SUFFICES ASSUME NEW i \in 1 .. n + m - EDIT_MAX
             PROVE  \E j \in i .. i + EDIT_MAX : u[j] = NL
  <2>1. Windows(u) <=> \A i \in 1 .. n + m - EDIT_MAX : \E j \in i .. i + EDIT_MAX : u[j] = NL
    <3>1. Len(u) - EDIT_MAX = n + m - EDIT_MAX
      BY <1>1, <1>2
    <3> QED BY <3>1, Zenon DEF Windows
  <2> QED BY <2>1 DEF u
<1>5. CASE i + EDIT_MAX <= n
  <2>1. i \in 1 .. n - EDIT_MAX
    BY <1>1, <1>5
  <2>2. PICK j \in i .. i + EDIT_MAX : s[j] = NL
    BY <1>4, <2>1
  <2>3. j \in 1 .. n
    BY <1>1, <1>5, <2>1
  <2> QED BY <1>2, <2>2, <2>3
<1>6. CASE i <= n /\ n < i + EDIT_MAX
  <2>1. n \in i .. i + EDIT_MAX /\ n \in 1 .. n /\ n > 0
    BY <1>1, <1>6
  <2> QED BY <1>2, <1>3, <2>1
<1>7. CASE n < i
  <2>1. m = EDIT_MAX + 1 /\ i = n + 1
    BY <1>1, <1>7 DEF m
  <2>2. n + m \in i .. i + EDIT_MAX /\ m \in 1 .. m
    BY <1>1, <2>1
  <2>3. u[n + m] = NL
    BY <1>2, <2>2 DEF m
  <2> QED BY <2>2, <2>3
<1> QED BY <1>1, <1>5, <1>6, <1>7

\* What is left when a prefix is gone.
LEMMA WindowsDrop ==
  ASSUME NEW s \in Seq(Key), NEW t \in Seq(Key), Windows(s \o t)
  PROVE  Windows(t)
<1> DEFINE n == Len(s)
           m == Len(t)
           u == s \o t
<1>1. n \in Nat /\ m \in Nat /\ EDIT_MAX \in Nat
  BY SeqFacts, Sizes
<1>2. Len(u) = n + m /\ \A i \in 1 .. m : u[n + i] = t[i]
  BY ConcatFacts
<1>3. \A i \in 1 .. n + m - EDIT_MAX : \E j \in i .. i + EDIT_MAX : u[j] = NL
  <2>1. Windows(u)
    OBVIOUS
  <2> HIDE DEF u, n, m
  <2>2. Len(u) - EDIT_MAX = n + m - EDIT_MAX
    BY <1>1, <1>2
  <2> QED BY <2>1, <2>2, Zenon DEF Windows
<1> HIDE DEF n, m, u
<1> SUFFICES ASSUME NEW i \in 1 .. m - EDIT_MAX
             PROVE  \E j \in i .. i + EDIT_MAX : t[j] = NL
  BY DEF Windows, m
<1>4. n + i \in 1 .. n + m - EDIT_MAX
  BY <1>1
<1>5. PICK k \in n + i .. n + i + EDIT_MAX : u[k] = NL
  BY <1>3, <1>4
<1>6. k - n \in i .. i + EDIT_MAX /\ k - n \in 1 .. m /\ n + (k - n) = k
  BY <1>1, <1>5
<1> QED BY <1>2, <1>5, <1>6

\* Every step keeps a newline in every window of the text on its way to the
\* reader, as long as none was dropped.
LEMMA StreamStep ==
  ASSUME TypeOK, LockInv, ProgramInv, RingInv, CompletedInv, LineInv, StreamInv, Next
  PROVE  StreamInv'
<1> USE DEF Worker, Console, Backend, Task, Writer, At, Goto, inputVars, outputVars
<1>1. /\ line \in Seq(Key) /\ input \in Seq(Key) /\ rest \in Seq(Key) /\ dropped \in BOOLEAN
      /\ Handed \in Seq(Key) /\ Stream \in Seq(Key)
  BY ConcatFacts DEF TypeOK, Handed, Stream
<1>2. StreamInv <=>
        (~dropped => /\ pc[Worker] # "copy" => Ended(Handed)
                     /\ line # <<>> /\ line[Len(line)] # NL => input # <<>>
                     /\ Windows(Stream))
  BY DEF StreamInv, Ended, Windows
<1>3. StreamInv' <=>
        (~dropped' => /\ pc'[Worker] # "copy" => Ended(Handed')
                      /\ line' # <<>> /\ line'[Len(line')] # NL => input' # <<>>
                      /\ Windows(Stream'))
  BY DEF StreamInv, Ended, Windows
<1>4. ASSUME UNCHANGED <<line, input, rest, dropped>>, pc'[Worker] = "copy" \/ pc[Worker] # "copy"
      PROVE  StreamInv'
  <2>1. Handed' = Handed /\ Stream' = Stream
    BY <1>4 DEF Handed, Stream
  <2> QED BY <1>2, <1>3, <1>4, <2>1
<1>5. CASE \/ \E key \in Key : kb_ring_handle_input(key)
           \/ worker_check \/ worker_register \/ worker_wake \/ worker_empty \/ worker_drained
           \/ worker_acquire \/ reader_check \/ reader_acquire \/ reader_release
           \/ backend_check \/ backend_acquire \/ backend_take \/ backend_release
  BY <1>4, <1>5
  DEF kb_ring_handle_input, worker_check, worker_register, worker_wake, worker_empty,
      worker_drained, worker_acquire, reader_check, reader_acquire, reader_release,
      backend_check, backend_acquire, backend_take, backend_release, input_acquire,
      output_acquire, TypeOK
<1>6. ASSUME NEW p \in Task, block_task(p) \/ resume(p) PROVE StreamInv'
  BY <1>4, <1>6 DEF block_task, resume, TypeOK
<1>7. ASSUME NEW p \in Writer, Write(p) PROVE StreamInv'
  BY <1>4, <1>7
  DEF Write, tty_write_acquire, tty_write_fill, tty_write_store, tty_write_release,
      output_acquire, TypeOK
<1>8. CASE worker_backspace \/ worker_letter \/ worker_release
  BY <1>4, <1>8, EchoGoes DEF worker_backspace, worker_letter, worker_release, Pop, TypeOK
<1>9. CASE worker_newline
  <2>1. /\ line' = line /\ input' = input /\ dropped' = dropped /\ rest' = Append(edit, NL)
        /\ pc[Worker] = "loop" /\ pc'[Worker] = "acquire" /\ rest = <<>>
    BY <1>9 DEF worker_newline, Pop, TypeOK, CompletedInv
  <2>2. edit \in Seq(Key) /\ NL \in Key /\ Len(edit) <= EDIT_MAX
    BY SeqMonotonic DEF Key, TypeOK
  <2>3. /\ rest' \in Seq(Key) /\ rest' # <<>> /\ Len(rest') <= EDIT_MAX + 1
        /\ rest'[Len(rest')] = NL
    <3>1. /\ Append(edit, NL) \in Seq(Key) /\ Append(edit, NL) # <<>>
          /\ Len(Append(edit, NL)) = Len(edit) + 1
          /\ Append(edit, NL)[Len(edit) + 1] = NL
      BY ONLY <2>2, AppendFacts
    <3>2. Len(edit) \in Nat /\ EDIT_MAX \in Nat
      BY <2>2, SeqFacts, Sizes
    <3> QED BY <2>1, <2>2, <3>1, <3>2
  <2>4. Handed' = Handed /\ Stream' = Handed \o rest' /\ Stream = Handed
    BY <1>1, <2>1, ConcatEmptySeq DEF Handed, Stream
  <2>5. CASE dropped
    BY <1>3, <2>1, <2>5
  <2>6. CASE ~dropped
    <3>1. Ended(Handed) /\ Windows(Handed)
      BY <1>2, <2>1, <2>4, <2>6
    <3>2. Windows(Stream')
      BY <1>1, <2>3, <2>4, <3>1, WindowsExtend
    <3> QED BY <1>2, <1>3, <2>1, <2>4, <2>6, <3>1, <3>2
  <2> QED BY <1>1, <2>5, <2>6
<1>10. CASE worker_copy
  <2> DEFINE ch == Head(rest)
  <2>1. /\ line' = line /\ rest' = Tail(rest) /\ rest # <<>> /\ rest[Len(rest)] = NL
        /\ pc'[Worker] = IF Len(rest) > 1 THEN "copy" ELSE "release"
        /\ (input' = Append(input, ch) /\ dropped' = dropped) \/ dropped' = TRUE
    BY <1>10 DEF worker_copy, CompletedInv, TypeOK
  <2>2. ch \in Key /\ ch = rest[1] /\ Len(rest) \in Nat /\ Len(rest) >= 1
    BY <1>1, <2>1, SeqFacts
  <2> HIDE DEF ch
  <2>3. CASE input' = Append(input, ch) /\ dropped' = dropped /\ ~dropped
    <3>1. Handed' = Append(Handed, ch)
      BY <1>1, <2>1, <2>2, <2>3, AppendConcat DEF Handed
    <3>2. Stream' = Stream
      BY <1>1, <2>1, <3>1, MoveElement DEF Stream, ch
    <3>3. pc'[Worker] # "copy" => Ended(Handed')
      <4>1. Len(rest) = 1 => ch = NL
        BY <2>1, <2>2
      <4>2. /\ Len(Append(Handed, ch)) = Len(Handed) + 1
            /\ Append(Handed, ch)[Len(Handed) + 1] = ch
        BY <1>1, <2>2, AppendFacts
      <4> QED BY <2>1, <2>2, <3>1, <4>1, <4>2 DEF Ended
    <3>4. input' # <<>>
      BY <1>1, <2>2, <2>3, AppendFacts
    <3> QED BY <1>2, <1>3, <2>3, <3>2, <3>3, <3>4
  <2>4. CASE dropped'
    BY <1>3, <2>4
  <2> QED BY <1>1, <2>1, <2>3, <2>4
<1>11. CASE reader_take
  <2> DEFINE ch == Head(input)
  <2>1. /\ line' = Append(line, ch) /\ input' = Tail(input) /\ rest' = rest
        /\ dropped' = dropped /\ pc'[Worker] = pc[Worker] /\ pc[Worker] # "copy"
        /\ input # <<>>
    BY <1>11 DEF reader_take, LockInv, RingInv, TypeOK
  <2>2. ch \in Key /\ ch = input[1] /\ Len(input) \in Nat /\ Len(input) >= 1
    BY <1>1, <2>1, SeqFacts
  <2>3. Handed' = Handed /\ Stream' = Stream
    BY <1>1, <2>1, MoveElement DEF Handed, Stream
  <2> HIDE DEF ch
  <2>4. CASE ~dropped
    <3>1. Ended(Handed)
      BY <1>2, <2>1, <2>4
    <3>2. input' = <<>> => line'[Len(line')] = NL
      <4>1. ASSUME input' = <<>> PROVE Len(input) = 1
        <5>1. Tail(input) # <<>> <=> Len(input) > 1
          BY <1>1, <2>1, TailFacts
        <5>2. ~(Len(input) > 1)
          BY <2>1, <4>1, <5>1, Zenon
        <5> DEFINE n == Len(input)
        <5>3. n \in Nat /\ n >= 1 /\ ~(n > 1)
          BY <2>2, <5>2
        <5> HIDE DEF n
        <5>4. n = 1
          BY <5>3
        <5> QED BY <5>4, Zenon DEF n
      <4>2. Len(input) = 1 => Handed[Len(line) + 1] = ch /\ Len(Handed) = Len(line) + 1
        <5>1. /\ Len(Handed) = Len(line) + Len(input)
              /\ \A i \in 1 .. Len(input) : Handed[Len(line) + i] = input[i]
          BY <1>1, ConcatFacts DEF Handed
        <5>2. Len(input) = 1 => 1 \in 1 .. Len(input)
          BY <2>2
        <5> QED BY <2>2, <5>1, <5>2
      <4>3. Len(line') = Len(line) + 1 /\ line'[Len(line) + 1] = ch
        BY <1>1, <2>1, <2>2, AppendFacts
      <4>4. Handed # <<>> <=> Len(Handed) # 0
        BY <1>1, SeqFacts
      <4>5. Len(line) \in Nat
        BY <1>1, SeqFacts
      <4> QED BY <3>1, <4>1, <4>2, <4>3, <4>4, <4>5 DEF Ended
    <3> QED BY <1>2, <1>3, <2>1, <2>3, <2>4, <3>1, <3>2
  <2> QED BY <1>3, <2>1, <2>4
<1>12. CASE reader_return
  <2>1. /\ line' = <<>> /\ input' = input /\ rest' = rest /\ dropped' = dropped
        /\ pc'[Worker] = pc[Worker]
    BY <1>12 DEF reader_return, TypeOK
  <2>2. Handed' = input /\ Stream' = input \o rest /\ Stream = line \o (input \o rest)
    BY <1>1, <2>1, ConcatEmptySeq, ConcatAssociative DEF Handed, Stream
  <2>3. CASE ~dropped
    <3>1. Windows(Stream')
      <4>1. input \o rest \in Seq(Key) /\ Windows(line \o (input \o rest))
        BY <1>1, <1>2, <2>2, <2>3, ConcatFacts
      <4> QED BY <1>1, <2>2, <4>1, WindowsDrop
    <3>2. Ended(Handed) => Ended(input)
      <4>1. ASSUME input # <<>>, Ended(Handed) PROVE input[Len(input)] = NL
        <5>1. Len(input) \in Nat /\ Len(input) >= 1 /\ Len(line) \in Nat
          BY <1>1, <4>1, SeqFacts
        <5>2. Len(Handed) = Len(line) + Len(input)
              /\ Handed[Len(line) + Len(input)] = input[Len(input)]
          BY <1>1, <5>1, ConcatFacts DEF Handed
        <5>3. Handed # <<>>
          BY <1>1, <5>1, <5>2, SeqFacts
        <5> QED BY <4>1, <5>2, <5>3 DEF Ended
      <4> QED BY <4>1 DEF Ended
    <3> QED BY <1>2, <1>3, <2>1, <2>2, <2>3, <3>1, <3>2
  <2> QED BY <1>3, <2>1, <2>3
<1> HIDE DEF Task, Writer
<1> QED BY <1>5, <1>6, <1>7, <1>8, <1>9, <1>10, <1>11, <1>12, Actions

-----------------------------------------------------------------------------
(* The output ring, and the reader inside a line                           *)

\* The slots of a ring from tail to head
Content(buff, head, tail) ==
  [i \in 1 .. (head - tail) % OUTPUT_SIZE |-> buff[(tail + i - 1) % OUTPUT_SIZE]]

\* The sequence of the slots from tail to head.
LEMMA RingContent ==
  ASSUME NEW buff \in [0 .. OUTPUT_SIZE - 1 -> Char],
         NEW head \in 0 .. OUTPUT_SIZE - 1, NEW tail \in 0 .. OUTPUT_SIZE - 1
  PROVE  /\ (head - tail) % OUTPUT_SIZE \in 0 .. OUTPUT_SIZE - 1
         /\ Len(Content(buff, head, tail)) = (head - tail) % OUTPUT_SIZE
         /\ Content(buff, head, tail) \in Seq(Char)
         /\ \A i \in 1 .. (head - tail) % OUTPUT_SIZE :
              Content(buff, head, tail)[i] = buff[(tail + i - 1) % OUTPUT_SIZE]
<1> DEFINE n == (head - tail) % OUTPUT_SIZE
           slot(i) == (tail + i - 1) % OUTPUT_SIZE
           content == Content(buff, head, tail)
<1>1. OUTPUT_SIZE \in Nat \ {0}
  BY Sizes
<1>2. n \in 0 .. OUTPUT_SIZE - 1
  BY <1>1, RingDistance
<1>3. \A i \in 1 .. n : slot(i) \in 0 .. OUTPUT_SIZE - 1
  <2> TAKE i \in 1 .. n
  <2>1. i - 1 \in 0 .. OUTPUT_SIZE /\ tail + i - 1 = tail + (i - 1)
    BY <1>1, <1>2
  <2> QED BY <1>1, <2>1, RingIndex
<1>4. content = [i \in 1 .. n |-> buff[slot(i)]]
  BY DEF Content
<1> HIDE DEF n, slot, content
<1>5. \A i \in 1 .. n : buff[slot(i)] \in Char
  BY <1>3
<1>6. content \in Seq(Char) /\ Len(content) = n
  BY <1>2, <1>4, <1>5
<1>7. \A i \in 1 .. n : content[i] = buff[slot(i)]
  BY <1>4
<1> QED BY <1>2, <1>6, <1>7 DEF n, slot, content

\* What the output ring holds, in this state and in the next one.
LEMMA OutputFacts ==
  ASSUME TypeOK, TypeOK'
  PROVE  /\ Output \in Seq(Char)
         /\ Len(Output) = (output_head - output_tail) % OUTPUT_SIZE
         /\ Len(Output) \in 0 .. OUTPUT_SIZE - 1
         /\ \A i \in 1 .. Len(Output) :
              Output[i] = output_buff[(output_tail + i - 1) % OUTPUT_SIZE]
         /\ Output' \in Seq(Char)
         /\ Len(Output') = (output_head' - output_tail') % OUTPUT_SIZE
         /\ \A i \in 1 .. Len(Output') :
              Output'[i] = output_buff'[(output_tail' + i - 1) % OUTPUT_SIZE]
<1>1. /\ Output = Content(output_buff, output_head, output_tail)
      /\ Output' = Content(output_buff', output_head', output_tail')
  BY DEF Output, Content
<1>2. /\ output_head \in 0 .. OUTPUT_SIZE - 1 /\ output_tail \in 0 .. OUTPUT_SIZE - 1
      /\ output_buff \in [0 .. OUTPUT_SIZE - 1 -> Char]
      /\ output_head' \in 0 .. OUTPUT_SIZE - 1 /\ output_tail' \in 0 .. OUTPUT_SIZE - 1
      /\ output_buff' \in [0 .. OUTPUT_SIZE - 1 -> Char]
  BY DEF TypeOK
<1>3. /\ Content(output_buff, output_head, output_tail) \in Seq(Char)
      /\ Len(Content(output_buff, output_head, output_tail)) =
           (output_head - output_tail) % OUTPUT_SIZE
      /\ (output_head - output_tail) % OUTPUT_SIZE \in 0 .. OUTPUT_SIZE - 1
      /\ \A i \in 1 .. (output_head - output_tail) % OUTPUT_SIZE :
           Content(output_buff, output_head, output_tail)[i] =
             output_buff[(output_tail + i - 1) % OUTPUT_SIZE]
  BY <1>2, RingContent, Zenon
<1>4. /\ Content(output_buff', output_head', output_tail') \in Seq(Char)
      /\ Len(Content(output_buff', output_head', output_tail')) =
           (output_head' - output_tail') % OUTPUT_SIZE
      /\ \A i \in 1 .. (output_head' - output_tail') % OUTPUT_SIZE :
           Content(output_buff', output_head', output_tail')[i] =
             output_buff'[(output_tail' + i - 1) % OUTPUT_SIZE]
  BY <1>2, RingContent, Zenon
<1> QED BY <1>1, <1>3, <1>4, Zenon

\* Every step keeps the output in order: tty_write puts a character behind the
\* last, and read_tty_output takes the first.
LEMMA OutputStep ==
  ASSUME TypeOK, TypeOK', ProgramInv, RingInv, OutputInOrder, Next PROVE OutputInOrder'
<1> USE DEF Worker, Console, Backend, Task, Writer, At, inputVars
<1>1. /\ output_head \in 0 .. OUTPUT_SIZE - 1 /\ output_tail \in 0 .. OUTPUT_SIZE - 1
      /\ OUTPUT_SIZE \in Nat \ {0} /\ output_buff \in [0 .. OUTPUT_SIZE - 1 -> Char]
      /\ stored \in Seq(Char) /\ shown \in Seq(Char)
  BY Sizes DEF TypeOK
<1>5. /\ Output \in Seq(Char)
      /\ Len(Output) = (output_head - output_tail) % OUTPUT_SIZE
      /\ Len(Output) \in 0 .. OUTPUT_SIZE - 1
      /\ \A i \in 1 .. Len(Output) :
           Output[i] = output_buff[(output_tail + i - 1) % OUTPUT_SIZE]
      /\ Output' \in Seq(Char)
      /\ Len(Output') = (output_head' - output_tail') % OUTPUT_SIZE
      /\ \A i \in 1 .. Len(Output') :
           Output'[i] = output_buff'[(output_tail' + i - 1) % OUTPUT_SIZE]
  BY OutputFacts
<1>2. ASSUME UNCHANGED <<output_buff, output_head, output_tail, stored, shown>>
      PROVE  OutputInOrder'
  BY <1>2 DEF OutputInOrder, Output
<1>3. ASSUME NEW p \in Writer, tty_write_store(p) PROVE OutputInOrder'
  <2> DEFINE ch == Head(writing[p])
  <2>1. /\ output_head' = (output_head + 1) % OUTPUT_SIZE /\ output_head' # output_tail
        /\ output_tail' = output_tail /\ shown' = shown /\ stored' = Append(stored, ch)
        /\ output_buff' = [output_buff EXCEPT ![output_head] = ch]
    BY <1>3 DEF tty_write_store, RingInv
  <2>2. writing[p] \in Seq(Char) /\ writing[p] # <<>>
    BY <1>3 DEF tty_write_store, TypeOK, ProgramInv, WriteLabel
  <2>3. ch \in Char
    BY <2>2, SeqFacts
  <2> HIDE DEF ch
  <2>4. output_head' = IF output_head + 1 = OUTPUT_SIZE THEN 0 ELSE output_head + 1
    BY <1>1, <2>1, RingSlot
  <2>5. Len(Output') = Len(Output) + 1
    <3>1. Len(Output) = (output_head - output_tail) % OUTPUT_SIZE
          /\ Len(Output') = (output_head' - output_tail) % OUTPUT_SIZE
      BY <1>5, <2>1
    <3>2. output_head' \in 0 .. OUTPUT_SIZE - 1
      BY <1>1, <2>4
    <3>3. /\ Len(Output) = IF output_head >= output_tail THEN output_head - output_tail
                           ELSE output_head - output_tail + OUTPUT_SIZE
          /\ Len(Output') = IF output_head' >= output_tail THEN output_head' - output_tail
                            ELSE output_head' - output_tail + OUTPUT_SIZE
      BY <1>1, <3>1, <3>2, RingDistance
    <3> QED BY <1>1, <2>1, <2>4, <3>3
  <2>6. (output_tail + Len(Output)) % OUTPUT_SIZE = output_head
    <3>1. Len(Output) = IF output_head >= output_tail THEN output_head - output_tail
                        ELSE output_head - output_tail + OUTPUT_SIZE
      BY <1>1, <1>5, RingDistance
    <3>2. Len(Output) \in 0 .. OUTPUT_SIZE
      BY <1>1, <1>5
    <3>3. (output_tail + Len(Output)) % OUTPUT_SIZE =
             IF output_tail + Len(Output) < OUTPUT_SIZE THEN output_tail + Len(Output)
             ELSE output_tail + Len(Output) - OUTPUT_SIZE
      BY <1>1, <3>2, RingIndex
    <3> QED BY <1>1, <3>1, <3>2, <3>3
  <2>7. ASSUME NEW i \in 1 .. Len(Output) PROVE Output'[i] = Output[i]
    <3>1. i \in 1 .. Len(Output') /\ Len(Output) \in 0 .. OUTPUT_SIZE - 1
      BY <2>5, <1>5
    <3>2. /\ Output[i] = output_buff[(output_tail + i - 1) % OUTPUT_SIZE]
          /\ Output'[i] = output_buff'[(output_tail + i - 1) % OUTPUT_SIZE]
      BY <2>1, <3>1, <1>5
    <3>3. i - 1 \in 0 .. OUTPUT_SIZE /\ output_tail + i - 1 = output_tail + (i - 1)
      BY <1>1, <3>1
    <3>4. (output_tail + i - 1) % OUTPUT_SIZE \in (0 .. OUTPUT_SIZE - 1) \ {output_head}
      <4>1. /\ (output_tail + (i - 1)) % OUTPUT_SIZE =
                 IF output_tail + (i - 1) < OUTPUT_SIZE THEN output_tail + (i - 1)
                 ELSE output_tail + (i - 1) - OUTPUT_SIZE
            /\ output_head = IF output_tail + Len(Output) < OUTPUT_SIZE
                             THEN output_tail + Len(Output)
                             ELSE output_tail + Len(Output) - OUTPUT_SIZE
        <5>1. Len(Output) \in 0 .. OUTPUT_SIZE
          BY <1>1, <3>1
        <5>2. (output_tail + Len(Output)) % OUTPUT_SIZE =
                 IF output_tail + Len(Output) < OUTPUT_SIZE THEN output_tail + Len(Output)
                 ELSE output_tail + Len(Output) - OUTPUT_SIZE
          BY <1>1, <5>1, RingIndex
        <5>3. (output_tail + (i - 1)) % OUTPUT_SIZE =
                 IF output_tail + (i - 1) < OUTPUT_SIZE THEN output_tail + (i - 1)
                 ELSE output_tail + (i - 1) - OUTPUT_SIZE
          BY <1>1, <3>3, RingIndex
        <5> QED BY <2>6, <5>2, <5>3
      <4>2. (output_tail + (i - 1)) % OUTPUT_SIZE \in (0 .. OUTPUT_SIZE - 1) \ {output_head}
        <5> DEFINE x == (output_tail + (i - 1)) % OUTPUT_SIZE
                  n == Len(Output)
        <5>1. /\ x = IF output_tail + (i - 1) < OUTPUT_SIZE THEN output_tail + (i - 1)
                     ELSE output_tail + (i - 1) - OUTPUT_SIZE
              /\ output_head = IF output_tail + n < OUTPUT_SIZE THEN output_tail + n
                               ELSE output_tail + n - OUTPUT_SIZE
          BY <4>1
        <5>4. n \in 0 .. OUTPUT_SIZE - 1 /\ i \in 1 .. n
          BY <3>1
        <5> HIDE DEF x, n
        <5>2. x \in 0 .. OUTPUT_SIZE - 1
          BY <1>1, <5>1, <5>4
        <5>3. x # output_head
          BY <1>1, <5>1, <5>4
        <5> QED BY <5>2, <5>3 DEF x
      <4> QED BY <3>3, <4>2
    <3> QED BY <1>1, <2>1, <3>2, <3>4
  <2>8. Output'[Len(Output) + 1] = ch
    <3>1. Len(Output) \in Nat /\ Len(Output) + 1 \in 1 .. Len(Output')
          /\ output_tail' + (Len(Output) + 1) - 1 = output_tail + Len(Output)
      BY <1>1, <2>1, <2>5, <1>5
    <3>2. Output'[Len(Output) + 1] = output_buff'[(output_tail + Len(Output)) % OUTPUT_SIZE]
      BY <3>1, <1>5
    <3> QED BY <1>1, <2>1, <2>6, <3>2
  <2>9. Output' = Append(Output, ch)
    <3>1. Output \in Seq(Char) /\ Output' \in Seq(Char) /\ Len(Output) \in Nat
      BY <1>5
    <3>2. /\ Append(Output, ch) \in Seq(Char) /\ Len(Append(Output, ch)) = Len(Output) + 1
          /\ \A i \in 1 .. Len(Output) : Append(Output, ch)[i] = Output[i]
          /\ Append(Output, ch)[Len(Output) + 1] = ch
      BY <2>3, <3>1, AppendFacts
    <3>3. \A i \in 1 .. Len(Output') : Output'[i] = Append(Output, ch)[i]
      BY <2>5, <2>7, <2>8, <3>1, <3>2
    <3> QED BY <2>5, <3>1, <3>2, <3>3, SeqEqual
  <2>10. Append(stored, ch) = shown \o Append(Output, ch)
    <3>1. Output \in Seq(Char)
      BY <1>5
    <3>2. <<ch>> \in Seq(Char)
      BY <2>3
    <3>3. Append(stored, ch) = stored \o <<ch>> /\ Append(Output, ch) = Output \o <<ch>>
      BY <1>1, <2>3, <3>1, AppendIsConcat
    <3> QED BY <1>1, <3>1, <3>2, <3>3, ConcatAssociative DEF OutputInOrder
  <2> QED BY <2>1, <2>9, <2>10 DEF OutputInOrder
<1>4. CASE backend_take
  <2> DEFINE ch == output_buff[output_tail]
  <2>1. /\ output_head' = output_head /\ output_head # output_tail
        /\ output_tail' = (output_tail + 1) % OUTPUT_SIZE
        /\ shown' = Append(shown, ch) /\ stored' = stored /\ output_buff' = output_buff
    BY <1>4 DEF backend_take, RingInv
  <2>2. ch \in Char
    BY <1>1
  <2>3. output_tail' = IF output_tail + 1 = OUTPUT_SIZE THEN 0 ELSE output_tail + 1
    BY <1>1, <2>1, RingSlot
  <2>4. Len(Output') = Len(Output) - 1 /\ Len(Output) \in 1 .. OUTPUT_SIZE - 1
    <3>1. Len(Output) = (output_head - output_tail) % OUTPUT_SIZE
          /\ Len(Output') = (output_head - output_tail') % OUTPUT_SIZE
      BY <1>5, <2>1
    <3>2. output_tail' \in 0 .. OUTPUT_SIZE - 1
      BY <1>1, <2>3
    <3>3. /\ Len(Output) = IF output_head >= output_tail THEN output_head - output_tail
                           ELSE output_head - output_tail + OUTPUT_SIZE
          /\ Len(Output') = IF output_head >= output_tail' THEN output_head - output_tail'
                            ELSE output_head - output_tail' + OUTPUT_SIZE
      BY <1>1, <3>1, <3>2, RingDistance
    <3> QED BY <1>1, <2>1, <2>3, <3>3
  <2>5. Output[1] = ch
    <3>1. 1 \in 1 .. Len(Output) /\ output_tail + 1 - 1 = output_tail
      BY <1>1, <2>4
    <3>2. output_tail % OUTPUT_SIZE = output_tail
      BY <1>1
    <3> QED BY <3>1, <3>2, <1>5
  <2> HIDE DEF ch
  <2>6. ASSUME NEW i \in 1 .. Len(Output) - 1 PROVE Output'[i] = Output[i + 1]
    <3>1. i \in 1 .. Len(Output') /\ i + 1 \in 1 .. Len(Output)
          /\ Len(Output) \in 0 .. OUTPUT_SIZE - 1
      BY <2>4
    <3>2. /\ Output[i + 1] = output_buff[(output_tail + (i + 1) - 1) % OUTPUT_SIZE]
          /\ Output'[i] = output_buff[(output_tail' + i - 1) % OUTPUT_SIZE]
      BY <2>1, <3>1, <1>5
    <3>3. /\ output_tail + (i + 1) - 1 = output_tail + i /\ i \in 0 .. OUTPUT_SIZE
          /\ output_tail' + i - 1 = output_tail' + (i - 1) /\ i - 1 \in 0 .. OUTPUT_SIZE
          /\ output_tail' \in 0 .. OUTPUT_SIZE - 1
      BY <1>1, <2>3, <3>1
    <3>4. (output_tail + i) % OUTPUT_SIZE = (output_tail' + (i - 1)) % OUTPUT_SIZE
      <4>1. (output_tail + i) % OUTPUT_SIZE =
              IF output_tail + i < OUTPUT_SIZE THEN output_tail + i
              ELSE output_tail + i - OUTPUT_SIZE
        BY <1>1, <3>3, RingIndex
      <4>2. (output_tail' + (i - 1)) % OUTPUT_SIZE =
              IF output_tail' + (i - 1) < OUTPUT_SIZE THEN output_tail' + (i - 1)
              ELSE output_tail' + (i - 1) - OUTPUT_SIZE
        BY <1>1, <3>3, RingIndex
      <4> QED BY <1>1, <2>3, <3>1, <4>1, <4>2
    <3> QED BY <3>2, <3>3, <3>4
  <2>7. Output = <<ch>> \o Output'
    <3>1. Output \in Seq(Char) /\ Output' \in Seq(Char) /\ <<ch>> \in Seq(Char)
          /\ Len(<<ch>>) = 1 /\ <<ch>>[1] = ch
      BY <2>2, <1>5
    <3>2. /\ <<ch>> \o Output' \in Seq(Char) /\ Len(<<ch>> \o Output') = 1 + Len(Output')
          /\ \A i \in 1 .. 1 + Len(Output') :
               (<<ch>> \o Output')[i] = IF i <= 1 THEN <<ch>>[i] ELSE Output'[i - 1]
      BY <3>1, ConcatProperties
    <3>3. ASSUME NEW i \in 1 .. Len(Output) PROVE Output[i] = (<<ch>> \o Output')[i]
      <4>1. CASE i = 1 BY <2>4, <2>5, <3>1, <3>2, <4>1
      <4>2. CASE i # 1
        <5>1. i - 1 \in 1 .. Len(Output) - 1 /\ (i - 1) + 1 = i /\ ~(i <= 1)
              /\ i \in 1 .. 1 + Len(Output')
          BY <2>4, <4>2
        <5>2. Output'[i - 1] = Output[(i - 1) + 1]
          BY <2>6, <5>1
        <5> QED BY <3>2, <5>1, <5>2
      <4> QED BY <4>1, <4>2
    <3>4. Len(Output) = Len(<<ch>> \o Output')
      BY <2>4, <3>2
    <3> QED BY <3>1, <3>2, <3>3, <3>4, SeqEqual
  <2>8. stored = Append(shown, ch) \o Output'
    <3>1. Output' \in Seq(Char) /\ <<ch>> \in Seq(Char)
      BY <2>2, <1>5
    <3>2. Append(shown, ch) = shown \o <<ch>>
      BY <1>1, <2>2, AppendIsConcat
    <3> QED BY <1>1, <2>7, <3>1, <3>2, ConcatAssociative DEF OutputInOrder
  <2> QED BY <2>1, <2>8 DEF OutputInOrder
<1> HIDE DEF Task, Writer
<1> QED
  BY <1>2, <1>3, <1>4, Actions
  DEF outputVars, kb_ring_handle_input, block_task, resume, Write, tty_write_acquire, tty_write_fill,
      tty_write_release, worker_check, worker_register, worker_newline,
      worker_backspace, worker_letter, worker_acquire, worker_copy, worker_release,
      worker_wake, worker_empty, worker_drained, reader_check, reader_acquire, reader_take,
      reader_release, reader_return, backend_check, backend_acquire, backend_release

\* Every step keeps the reader from sleeping inside a line: a line in the
\* making has its newline in the input ring.
LEMMA AtomicStep ==
  ASSUME TypeOK, ProgramInv, LineInv, StreamInv, LineAtomic, Next
  PROVE  LineAtomic'
<1> USE DEF Worker, Console, Backend, Task, Writer, At, Goto, inputVars, outputVars
<1>1. ASSUME line' = line, ~dropped' => ~dropped, pc'[Console] = pc[Console]
      PROVE  LineAtomic'
  BY <1>1 DEF LineAtomic
<1>2. ASSUME pc'[Console] \notin {"block", "woken"} PROVE LineAtomic'
  BY <1>2 DEF LineAtomic
<1>3. CASE reader_check
  <2>1. /\ line' = line /\ dropped' = dropped /\ pc[Console] = "check"
        /\ pc'[Console] = IF input = <<>> THEN "block" ELSE "acquire"
    BY <1>3 DEF reader_check, TypeOK
  <2>2. \A i \in 1 .. Len(line) : line[i] # NL
    BY <2>1 DEF LineInv
  <2>3. line # <<>> => line[Len(line)] # NL
    BY <2>2, SeqFacts DEF TypeOK
  <2> QED BY <2>1, <2>3 DEF StreamInv, LineAtomic
<1>4. ASSUME NEW p \in Task, block_task(p) PROVE LineAtomic'
  BY <1>4 DEF block_task, LineAtomic, TypeOK
<1>5. ASSUME NEW p \in Task, resume(p) PROVE LineAtomic'
  BY <1>5 DEF resume, LineAtomic, TypeOK
<1>6. ASSUME NEW p \in Writer, Write(p) PROVE LineAtomic'
  <2>1. CASE p = Console
    BY <1>2, <1>6, <2>1
    DEF Write, tty_write_acquire, tty_write_fill, tty_write_store, tty_write_release,
        output_acquire, TypeOK
  <2>2. CASE p = Worker
    BY <1>1, <1>6, <2>2
    DEF Write, tty_write_acquire, tty_write_fill, tty_write_store, tty_write_release,
        output_acquire, TypeOK
  <2> QED BY <2>1, <2>2
<1>7. CASE \/ \E key \in Key : kb_ring_handle_input(key)
           \/ worker_check \/ worker_register \/ worker_newline \/ worker_acquire
           \/ worker_copy \/ worker_wake \/ worker_empty \/ worker_drained
           \/ backend_check \/ backend_acquire \/ backend_take \/ backend_release
  BY <1>1, <1>7
  DEF kb_ring_handle_input, worker_check, worker_register, worker_newline, worker_acquire,
      worker_copy, worker_wake, worker_empty, worker_drained, backend_check, backend_acquire,
      backend_take, backend_release, input_acquire, output_acquire, Pop, TypeOK
<1>8. CASE worker_backspace \/ worker_letter \/ worker_release
  BY <1>1, <1>8, EchoGoes DEF worker_backspace, worker_letter, worker_release
<1>9. CASE reader_acquire \/ reader_take \/ reader_release \/ reader_return
  BY <1>2, <1>9
  DEF reader_acquire, reader_take, reader_release, reader_return, input_acquire, TypeOK
<1> HIDE DEF Task, Writer
<1> QED BY <1>3, <1>4, <1>5, <1>6, <1>7, <1>8, <1>9, Actions

-----------------------------------------------------------------------------
(* The theorems                                                            *)

\* The invariant holds initially,
LEMMA TtyInvInit ==
  Init => TtyInv /\ OutputInOrder /\ LineAtomic
<1> SUFFICES ASSUME Init PROVE TtyInv /\ OutputInOrder /\ LineAtomic
  OBVIOUS
<1> USE Sizes DEF Init, Worker, Console, Backend, Task, Writer
<1>1. /\ \A S : <<>> \in Seq(S)
      /\ Len(<<>>) = 0
      /\ <<>> \o <<>> = <<>>
  BY EmptySeq, ConcatEmptySeq
<1>2. TypeOK
  <2>1. /\ raw \in Seq(Key) /\ Len(raw) < RAW_SIZE
        /\ input \in Seq(Key) /\ Len(input) < INPUT_SIZE
        /\ edit \in Seq(Letters) /\ Len(edit) <= EDIT_MAX
        /\ line \in Seq(Key) /\ Len(line) <= MAXLEN
        /\ rest \in Seq(Key) /\ {accepted, delivered} \subseteq Seq(Key)
        /\ {stored, shown} \subseteq Seq(Char)
    BY <1>1
  <2>2. /\ state \in [Task -> {"READY", "BLOCKED"}] /\ pc \in [Task -> Label]
        /\ writing \in [Writer -> Seq(Char)]
    BY <1>1 DEF Label
  <2>3. /\ 0 \in 0 .. OUTPUT_SIZE - 1
        /\ output_buff \in [0 .. OUTPUT_SIZE - 1 -> Char]
        /\ next_head \in [Writer -> 0 .. OUTPUT_SIZE - 1]
    BY DEF Char
  <2> QED BY <2>1, <2>2, <2>3 DEF TypeOK
<1>3. ProgramInv /\ EchoInv
  BY DEF ProgramInv, EchoInv, Label, WriteLabel
<1>4. LockInv
  BY DEF LockInv
<1>5. RingInv /\ CompletedInv
  BY DEF RingInv, CompletedInv
<1>6. LineInv /\ KeysInv
  BY <1>1 DEF LineInv, KeysInv, WriteLabel
<1>7. StreamInv
  <2>1. Handed = <<>> /\ Stream = <<>>
    BY <1>1 DEF Handed, Stream
  <2>2. Windows(Stream)
    BY <1>1, <2>1 DEF Windows
  <2> QED BY <2>1, <2>2 DEF StreamInv, Ended
<1>8. OutputInOrder
  <2>1. Output = <<>>
    <3>1. TypeOK /\ output_head = 0 /\ output_tail = 0
      BY <1>2
    <3>2. (output_head - output_tail) % OUTPUT_SIZE = 0
      BY <3>1, RingDistance
    <3> QED BY <3>2 DEF Output
  <2> QED BY <1>1, <2>1 DEF OutputInOrder
<1>9. LineAtomic
  BY DEF LineAtomic
<1> QED BY <1>2, <1>3, <1>4, <1>5, <1>6, <1>7, <1>8, <1>9 DEF TtyInv

\* and every step keeps it.
LEMMA TtyInvStep ==
  ASSUME TtyInv, OutputInOrder, LineAtomic, [Next]_vars
  PROVE  (TtyInv /\ OutputInOrder /\ LineAtomic)'
<1>1. CASE Next
  BY <1>1, TypeStep, ProgramStep, LockStep, EchoStep, RingStep, CompletedStep, LineStep,
     StreamStep, KeysStep, OutputStep, AtomicStep DEF TtyInv
<1>2. CASE UNCHANGED vars
  <2> USE <1>2 DEF vars, inputVars, outputVars
  <2>1. TypeOK' BY DEF TtyInv, TypeOK
  <2>2. (ProgramInv /\ EchoInv /\ LockInv)' BY DEF TtyInv, ProgramInv, EchoInv, LockInv
  <2>3. (RingInv /\ CompletedInv /\ LineInv)' BY DEF TtyInv, RingInv, CompletedInv, LineInv
  <2>4. StreamInv'
    <3>1. Handed' = Handed /\ Stream' = Stream
      BY DEF Handed, Stream
    <3>2. Ended(Handed)' = Ended(Handed) /\ Windows(Stream)' = Windows(Stream)
      BY <3>1 DEF Ended, Windows
    <3> QED BY <3>2 DEF TtyInv, StreamInv
  <2>5. KeysInv' BY DEF TtyInv, KeysInv
  <2>6. (OutputInOrder /\ LineAtomic)' BY DEF OutputInOrder, Output, LineAtomic
  <2> QED BY <2>1, <2>2, <2>3, <2>4, <2>5, <2>6 DEF TtyInv
<1> QED BY <1>1, <1>2

\* The tty always satisfies its invariant, which has its types right.
THEOREM TtyInvariance ==
  Spec => [](TtyInv /\ OutputInOrder /\ LineAtomic)
<1>1. TtyInv /\ OutputInOrder /\ LineAtomic /\ [Next]_vars => (TtyInv /\ OutputInOrder /\ LineAtomic)'
  BY TtyInvStep
<1> QED BY <1>1, TtyInvInit, PTL DEF Spec

\* Every ring index, buffer and label stays in its range.
THEOREM TypeCorrect == Spec => []TypeOK
<1>1. TtyInv => TypeOK
  BY DEF TtyInv
<1> QED BY <1>1, TtyInvariance, PTL

\* Echo and printf interleave by whole characters; what was stored in the
\* output ring is shown once and in order, across every wrap of the ring.
THEOREM OutputCorrect == Spec => []OutputInOrder
BY TtyInvariance, PTL

\* tty_read_line never sleeps inside a line.
THEOREM LineCorrect == Spec => []LineAtomic
BY TtyInvariance, PTL

\* A lock is held by one task, which can be dispatched.
THEOREM LocksCorrect == Spec => []LockDiscipline
<1>1. TtyInv => LockDiscipline
  <2> SUFFICES ASSUME TtyInv PROVE LockDiscipline
    OBVIOUS
  <2> USE DEF Worker, Console, Backend, Task, Writer
  <2>1. TypeOK /\ ProgramInv /\ LockInv
    BY DEF TtyInv
  <2>2. /\ \A p \in Task : p \in InputSection <=>
             p # Backend /\ pc[p] \in {"copy", "take", "release"}
        /\ \A p \in Task : p \in OutputSection <=>
             \/ p # Backend /\ pc[p] \in {"fill", "store", "unlock"}
             \/ p = Backend /\ pc[p] \in {"take", "release"}
        /\ InputSection \subseteq Task /\ OutputSection \subseteq Task
    BY DEF InputSection, OutputSection
  <2>3. \A p, q \in InputSection : p = q
    BY <2>1, <2>2 DEF LockInv, ProgramInv
  <2>4. \A p, q \in OutputSection : p = q
    BY <2>1, <2>2 DEF LockInv
  <2>5. input_lock <=> InputSection # {}
    BY <2>1, <2>2 DEF LockInv, ProgramInv
  <2>6. output_lock <=> OutputSection # {}
    BY <2>1, <2>2 DEF LockInv
  <2>7. \A p \in InputSection \cup OutputSection : state[p] = "READY"
    BY <2>1, <2>2 DEF ProgramInv, TypeOK
  <2> QED BY <2>3, <2>4, <2>5, <2>6, <2>7 DEF LockDiscipline
<1> QED BY <1>1, TtyInvariance, PTL

\* A call of tty_read_line returns a line with its newline, unless a character
\* was dropped: a line of maxlen characters is a full edit buffer and its
\* newline, which is the last of them.
THEOREM ReadCorrect == Spec => []ReadReturnsLine
<1>1. TtyInv => ReadReturnsLine
  <2> SUFFICES ASSUME TtyInv, pc[Console] = "return", ~dropped PROVE Last(line) = NL
    BY DEF ReadReturnsLine
  <2>1. TypeOK /\ LineInv /\ StreamInv
    BY DEF TtyInv
  <2>2. /\ line # <<>>
        /\ \A i \in 1 .. Len(line) - 1 : line[i] # NL
        /\ line[Len(line)] = NL \/ Len(line) = MAXLEN
    BY <2>1 DEF LineInv
  <2>3. line \in Seq(Key) /\ input \in Seq(Key) /\ rest \in Seq(Key)
    BY <2>1 DEF TypeOK
  <2>4. CASE Len(line) = MAXLEN
    <3> DEFINE after == input \o rest
    <3>1. after \in Seq(Key) /\ Stream = line \o after
      <4>1. after \in Seq(Key)
        BY ONLY <2>3, ConcatFacts
      <4>2. (line \o input) \o rest = line \o (input \o rest)
        BY ONLY <2>3, ConcatAssociative, SMTT(20)
      <4> QED BY ONLY <4>1, <4>2 DEF Handed, Stream
    <3> DEFINE n == Len(line)
               m == Len(after)
               text == Stream
    <3>2. n \in Nat /\ m \in Nat /\ EDIT_MAX \in Nat /\ n = EDIT_MAX + 1
      BY <2>3, <2>4, <3>1, SeqFacts, Sizes
    <3>3. /\ Len(text) = n + m
          /\ \A i \in 1 .. n : text[i] = line[i]
      BY <2>3, <3>1, ConcatFacts
    <3>4. \A i \in 1 .. Len(text) - EDIT_MAX : \E j \in i .. i + EDIT_MAX : text[j] = NL
      BY <2>1 DEF StreamInv, Windows
    <3>5. \A i \in 1 .. n - 1 : line[i] # NL
      BY <2>2
    <3> HIDE DEF after, m, text, n
    <3>6. 1 \in 1 .. Len(text) - EDIT_MAX
      BY <3>2, <3>3
    <3>7. PICK j \in 1 .. 1 + EDIT_MAX : text[j] = NL
      BY <3>4, <3>6
    <3>8. j \in 1 .. n /\ line[j] = NL
      BY <3>2, <3>3, <3>7
    <3>9. j = n
      BY <3>2, <3>5, <3>8
    <3> QED BY <3>8, <3>9 DEF n, Last
  <2>5. CASE line[Len(line)] = NL
    BY <2>5 DEF Last
  <2> QED BY <2>2, <2>4, <2>5
<1> QED BY <1>1, TtyInvariance, PTL

-----------------------------------------------------------------------------
(* Tty implements LineDiscipline under the mapping of module Tty: every    *)
(* step of the terminal is one step of the line discipline or leaves what  *)
(* the line discipline sees as it is.                                      *)

\* The values of the variables of LineDiscipline: typed is Taken, delivered
\* is itself, and
Ready == input \o rest
Edited == IF Completing THEN <<>> ELSE edit

abstract == <<Taken, Edited, Ready, delivered>>

\* The first element of the second sequence is removed.
LEMMA DropElement ==
  ASSUME NEW S, NEW s \in Seq(S), NEW t \in Seq(S), t # <<>>
  PROVE  /\ RemoveAt(s \o t, Len(s) + 1) = s \o Tail(t)
         /\ Len(s \o t) > Len(s)
<1> DEFINE n == Len(s)
           m == Len(t)
           u == s \o t
<1>1. n \in Nat /\ m \in Nat /\ m >= 1
  BY SeqFacts
<1>2. u \in Seq(S) /\ Len(u) = n + m
  BY ConcatFacts
<1>3. SubSeq(u, 1, n) = s
  <2>1. CASE n = 0
    BY <2>1, SeqFacts, SubSeqEmpty
  <2>2. CASE n # 0
    <3>1. 1 \in 1 .. Len(s) /\ n \in 1 .. Len(s)
      BY <1>1, <2>2
    <3> QED BY <3>1, SubSeqOfConcat1, SubSeqFull
  <2> QED BY <2>1, <2>2
<1>4. SubSeq(u, n + 2, n + m) = Tail(t)
  <2>1. CASE m = 1
    <3>1. Tail(t) = <<>>
      <4>1. ~(m > 1)
        BY <2>1
      <4> QED BY <4>1, TailFacts, Zenon
    <3> QED BY <1>1, <2>1, <3>1, SubSeqEmpty
  <2>2. CASE m # 1
    <3>1. n + 2 \in Len(s) + 1 .. Len(s) + Len(t) /\ n + m \in Len(s) + 1 .. Len(s) + Len(t)
      <4> HIDE DEF n, m
      <4>1. n + 2 \in n + 1 .. n + m /\ n + m \in n + 1 .. n + m
        BY <1>1, <2>2
      <4> QED BY <4>1, Zenon DEF n, m
    <3>2. SubSeq(u, n + 2, n + m) = SubSeq(t, n + 2 - n, n + m - n)
      BY <3>1, SubSeqOfConcat2
    <3>3. n + 2 - n = 2 /\ n + m - n = m
      BY <1>1
    <3> QED BY <3>2, <3>3, TailIsSubSeq
  <2> QED BY <2>1, <2>2
<1>5. (n + 1) - 1 = n /\ n + 1 + 1 = n + 2 /\ n + m > n
  BY <1>1
<1> HIDE DEF n, m, u
<1>6. RemoveAt(u, n + 1) = SubSeq(u, 1, (n + 1) - 1) \o SubSeq(u, n + 1 + 1, Len(u))
  BY Zenon DEF RemoveAt
<1>7. RemoveAt(u, n + 1) = s \o Tail(t) /\ Len(u) > n
  BY <1>2, <1>3, <1>4, <1>5, <1>6
<1> QED BY <1>7 DEF u, n

\* The first element of two sequences is the first of the first.
LEMMA TakeElement ==
  ASSUME NEW S, NEW s \in Seq(S), NEW t \in Seq(S), s # <<>>
  PROVE  s \o t # <<>> /\ Head(s \o t) = Head(s) /\ Tail(s \o t) = Tail(s) \o t
<1>1. s \o t \in Seq(S) /\ s \o t # <<>>
  BY ConcatFacts, ConcatEqualIffEmpty
<1>2. Len(s) \in Nat /\ Len(s) >= 1 /\ Len(t) \in Nat
  BY SeqFacts
<1>3. Head(s \o t) = Head(s)
  <2>1. Head(s \o t) = (s \o t)[1] /\ Head(s) = s[1]
    BY <1>1, SeqFacts
  <2>2. 1 \in 1 .. Len(s)
    BY <1>2
  <2> QED BY <2>1, <2>2, ConcatFacts
<1>4. Tail(s \o t) = Tail(s) \o t
  <2>1. s = <<Head(s)>> \o Tail(s) /\ <<Head(s)>> \in Seq(S) /\ Tail(s) \in Seq(S)
    BY SeqFacts
  <2>2. s \o t = <<Head(s)>> \o (Tail(s) \o t)
    BY <2>1, ConcatAssociative
  <2>3. Head(s) \in S /\ Tail(s) \o t \in Seq(S)
    BY <2>1, SeqFacts, ConcatFacts
  <2>4. \A e : \A q \in Seq(S) : e \in S => Tail(<<e>> \o q) = q
    OBVIOUS
  <2> QED BY <2>2, <2>3, <2>4
<1> QED BY <1>1, <1>3, <1>4

\* What the actions of LineDiscipline are under the mapping.
LEMMA Mapping ==
  /\ Discipline!vars = abstract
  /\ \A c \in Letters :
       Discipline!Letter(c) <=>
         /\ Taken' = Append(Taken, c)
         /\ Edited' = IF Len(Edited) < EDIT_MAX THEN Append(Edited, c) ELSE Edited
         /\ Ready' = Ready /\ delivered' = delivered
  /\ Discipline!Backspace <=>
         /\ Taken' = Append(Taken, BS)
         /\ Edited' = IF Edited = <<>> THEN <<>> ELSE Front(Edited)
         /\ Ready' = Ready /\ delivered' = delivered
  /\ Discipline!Newline <=>
         /\ Taken' = Append(Taken, NL)
         /\ Ready' = Ready \o Append(Edited, NL)
         /\ Edited' = <<>>
         /\ delivered' = delivered
  /\ Discipline!Read <=>
         /\ Ready # <<>>
         /\ Ready' = Tail(Ready)
         /\ delivered' = Append(delivered, Head(Ready))
         /\ Taken' = Taken /\ Edited' = Edited
  /\ Discipline!Overflow <=>
         /\ Len(Ready) > INPUT_SIZE - 1
         /\ Ready' = RemoveAt(Ready, INPUT_SIZE - 1 + 1)
         /\ Taken' = Taken /\ Edited' = Edited /\ delivered' = delivered
<1> USE DEF abstract, Ready, Edited
<1>1. Discipline!vars = abstract
  BY DEF Discipline!vars
<1>2. \A c \in Letters :
       Discipline!Letter(c) <=>
         /\ Taken' = Append(Taken, c)
         /\ Edited' = IF Len(Edited) < EDIT_MAX THEN Append(Edited, c) ELSE Edited
         /\ Ready' = Ready /\ delivered' = delivered
  BY DEF Discipline!Letter
<1>3. Discipline!Backspace <=>
         /\ Taken' = Append(Taken, BS)
         /\ Edited' = IF Edited = <<>> THEN <<>> ELSE Front(Edited)
         /\ Ready' = Ready /\ delivered' = delivered
  BY DEF Discipline!Backspace, Discipline!Front, Front
<1>4. Discipline!Newline <=>
         /\ Taken' = Append(Taken, NL)
         /\ Ready' = Ready \o Append(Edited, NL)
         /\ Edited' = <<>>
         /\ delivered' = delivered
  BY DEF Discipline!Newline
<1>5. Discipline!Read <=>
         /\ Ready # <<>>
         /\ Ready' = Tail(Ready)
         /\ delivered' = Append(delivered, Head(Ready))
         /\ Taken' = Taken /\ Edited' = Edited
  BY DEF Discipline!Read
<1>6. Discipline!Overflow <=>
         /\ Len(Ready) > INPUT_SIZE - 1
         /\ Ready' = RemoveAt(Ready, INPUT_SIZE - 1 + 1)
         /\ Taken' = Taken /\ Edited' = Edited /\ delivered' = delivered
  BY DEF Discipline!Overflow, Discipline!RemoveAt, RemoveAt
<1> QED BY <1>1, <1>2, <1>3, <1>4, <1>5, <1>6

-----------------------------------------------------------------------------
(* How the steps change what is mapped                                     *)

\* A key stored in the raw ring has not been taken.
LEMMA TakenStays ==
  ASSUME TypeOK, KeysInv, NEW key \in Key, kb_ring_handle_input(key)
  PROVE  Taken' = Taken
<1> DEFINE n == Len(accepted)
           r == Len(raw)
<1>1. /\ accepted \in Seq(Key) /\ raw \in Seq(Key) /\ n \in Nat /\ r \in Nat /\ r <= n
      /\ accepted' = Append(accepted, key) /\ raw' = Append(raw, key)
  BY SeqFacts DEF TypeOK, KeysInv, kb_ring_handle_input
<1>2. /\ Len(accepted') = n + 1 /\ Len(raw') = r + 1
      /\ accepted' = accepted \o <<key>> /\ <<key>> \in Seq(Key)
  BY <1>1, AppendFacts, AppendIsConcat
<1>3. Len(accepted') - Len(raw') = n - r
  <2> HIDE DEF n, r
  <2> QED BY <1>1, <1>2
<1>4. SubSeq(accepted', 1, n - r) = SubSeq(accepted, 1, n - r)
  <2>1. CASE n - r = 0
    <3>1. \A s : SubSeq(s, 1, 0) = <<>>
      BY SubSeqEmpty
    <3> QED BY <2>1, <3>1
  <2>2. CASE n - r # 0
    <3> HIDE DEF n, r
    <3>1. 1 \in 1 .. n /\ n - r \in 1 .. n
      BY <1>1, <2>2
    <3> QED BY <1>1, <1>2, <3>1, SubSeqOfConcat1 DEF n
  <2> QED BY <2>1, <2>2
<1> QED BY <1>3, <1>4, Zenon DEF Taken, n, r

\* The key that the worker takes is the next one.
LEMMA TakenGrows ==
  ASSUME TypeOK, KeysInv, NEW key \in Key, Pop(key), UNCHANGED accepted
  PROVE  Taken' = Append(Taken, key)
<1> DEFINE n == Len(accepted)
           r == Len(raw)
           d == n - r
<1>1. /\ accepted \in Seq(Key) /\ raw \in Seq(Key) /\ n \in Nat /\ r \in Nat /\ r <= n
      /\ raw # <<>> /\ raw' = Tail(raw) /\ key = Head(raw)
  BY SeqFacts DEF TypeOK, KeysInv, Pop
<1>2. Len(raw') = r - 1 /\ key = raw[1] /\ r # 0
  BY <1>1, SeqFacts
<1>3. raw[1] = accepted[n - r + 1]
  <2>1. 1 \in 1 .. r
    BY <1>1, <1>2
  <2> QED BY <2>1 DEF KeysInv
<1> HIDE DEF n, r
<1>4. d \in Nat /\ d + 1 \in 1 .. n /\ n - Len(raw') = d + 1 /\ n - r + 1 = d + 1
  BY <1>1, <1>2
<1>5. accepted[d + 1] = key
  BY <1>2, <1>3, <1>4
<1>6. Taken = SubSeq(accepted, 1, d) /\ Taken' = SubSeq(accepted, 1, d + 1)
  BY <1>4 DEF Taken, n, r
<1> HIDE DEF d
<1>7. SubSeq(accepted, 1, d) \in Seq(Key)
  <2>1. \A i \in 1 .. d : accepted[i] \in Key
    BY <1>1, <1>4, ElementOfSeq DEF n
  <2> QED BY <1>4, <2>1, SubSeqProperties
<1>8. SubSeq(accepted, 1, d + 1) = SubSeq(accepted, 1, (d + 1) - 1) \o <<accepted[d + 1]>>
  <2>1. 1 \in 1 .. Len(accepted) /\ d + 1 \in 1 .. Len(accepted)
    BY <1>1, <1>4 DEF n
  <2> QED BY <1>1, <1>4, <2>1, SubSeqRecursiveSecond
<1>9. (d + 1) - 1 = d
  BY <1>4
<1> QED BY <1>5, <1>6, <1>7, <1>8, <1>9, AppendIsConcat

\* A step that leaves the rings of the input, the edit buffer and the progress
\* of a completed line as they are is a stutter.
LEMMA Stutters ==
  ASSUME UNCHANGED <<raw, accepted, input, rest, edit, delivered>>,
         Completing' <=> Completing
  PROVE  UNCHANGED Discipline!vars
<1>1. Taken' = Taken /\ Ready' = Ready /\ Edited' = Edited /\ delivered' = delivered
  BY DEF Taken, Ready, Edited
<1>2. Discipline!vars = <<Taken, Edited, Ready, delivered>>
      /\ Discipline!vars' = <<Taken', Edited', Ready', delivered'>>
  BY DEF Discipline!vars, Ready, Edited
<1> QED BY <1>1, <1>2

\* The worker is done with a newline before it takes the next key,
LEMMA NotCompleting ==
  ASSUME ProgramInv, pc[Worker] = "loop"
  PROVE  ~Completing
BY DEF ProgramInv, Completing, WriteLabel, Worker, Writer

\* and the echo of another key does not look like one.
LEMMA NoNewlineEchoed ==
  ASSUME TypeOK, NEW text, text # <<NL>>, Echo(text, "loop")
  PROVE  ~Completing'
<1>1. <<NL>> # <<>>
  OBVIOUS
<1>2. CASE ECHO
  BY <1>2, EchoGoes DEF Completing
<1>3. CASE ~ECHO
  BY <1>1, <1>3, EchoGoes DEF Completing
<1> QED BY <1>2, <1>3

\* tty_write does not begin or end the work on a newline: after the echo of a
\* newline the worker still has to clear its buffer.
LEMMA WriteKeepsCompleting ==
  ASSUME TypeOK, ProgramInv, EchoInv, NEW p \in Writer, Write(p)
  PROVE  Completing' <=> Completing
<1> USE DEF Worker, Console, Backend, Task, Writer, At, Goto
<1>1. CASE p = Console
  BY <1>1 DEF Write, tty_write_acquire, tty_write_fill, tty_write_store, tty_write_release,
              output_acquire, Completing, TypeOK
<1>2. CASE p = Worker /\ (tty_write_acquire(p) \/ tty_write_fill(p) \/ tty_write_store(p))
  BY <1>2 DEF tty_write_acquire, tty_write_fill, tty_write_store,
              output_acquire, Completing, TypeOK
<1>3. CASE p = Worker /\ tty_write_release(p)
  <2>1. /\ pc[Worker] = "unlock" /\ writing[Worker] # <<>>
        /\ writing'[Worker] = Tail(writing[Worker])
        /\ pc'[Worker] = IF Len(writing[Worker]) > 1 THEN "write"
                         ELSE IF writing[Worker] = <<NL>> THEN "wake" ELSE "loop"
    BY <1>3 DEF tty_write_release, ProgramInv, WriteLabel, TypeOK
  <2>2. CASE writing[Worker] = <<NL>>
    <3>1. ~(Len(<<NL>>) > 1)
      BY Tuples
    <3>2. pc'[Worker] = "wake"
      BY <2>1, <2>2, <3>1, Zenon
    <3> QED BY <2>2, <3>2 DEF Completing
  <2>3. CASE writing[Worker] # <<NL>>
    <3>1. Tail(writing[Worker]) # <<NL>>
      <4>1. PICK text \in {<<BS>>, <<SPACE, BS>>, <<BS, SPACE, BS>>} \cup {<<c>> : c \in Letters} :
              text = writing[Worker]
        BY <2>1, <2>3 DEF EchoInv
      <4>2. /\ Tail(<<BS>>) = <<>> /\ \A c : Tail(<<c>>) = <<>>
            /\ Tail(<<SPACE, BS>>) = <<BS>> /\ Tail(<<BS, SPACE, BS>>) = <<SPACE, BS>>
        BY Tuples
      <4>3. text \in {<<BS>>, <<SPACE, BS>>, <<BS, SPACE, BS>>} \/ \E c \in Letters : text = <<c>>
        BY <4>1
      <4>4. Tail(text) \in {<<>>, <<BS>>, <<SPACE, BS>>}
        BY ONLY <4>2, <4>3
      <4>5. \A q \in {<<>>, <<BS>>, <<SPACE, BS>>} : q # <<NL>>
        BY DEF NL, BS, SPACE
      <4> QED BY <4>1, <4>4, <4>5
    <3> QED BY <2>1, <2>3, <3>1 DEF Completing
  <2> QED BY <2>2, <2>3
<1> HIDE DEF Task
<1> QED BY <1>1, <1>2, <1>3 DEF Write

-----------------------------------------------------------------------------
(* The steps                                                               *)

\* Every step of the terminal is a step of the line discipline or a stutter.
LEMMA DisciplineStep ==
  ASSUME TtyInv, Next
  PROVE  [Discipline!Next]_(Discipline!vars)
<1> USE DEF Worker, Console, Backend, Task, Writer, At, Goto, inputVars, outputVars
<1>1. /\ TypeOK /\ ProgramInv /\ EchoInv /\ LockInv /\ RingInv /\ CompletedInv /\ KeysInv
      /\ edit \in Seq(Letters) /\ input \in Seq(Key) /\ rest \in Seq(Key) /\ Ready \in Seq(Key)
  BY ConcatFacts DEF TtyInv, TypeOK, Ready
<1>2. ASSUME UNCHANGED <<raw, accepted, input, rest, edit, delivered>>, UNCHANGED writing,
             \/ pc'[Worker] = pc[Worker]
             \/ {pc[Worker], pc'[Worker]} \cap {"acquire", "copy", "release", "wake"} = {}
             \/ /\ pc[Worker] \in {"acquire", "copy", "release", "wake"}
                /\ pc'[Worker] \in {"acquire", "copy", "release", "wake"}
      PROVE  UNCHANGED Discipline!vars
  <2>1. Completing' <=> Completing
    BY <1>2 DEF Completing
  <2> QED BY <1>2, <2>1, Stutters
<1>3. ASSUME NEW key \in Key, kb_ring_handle_input(key) PROVE UNCHANGED Discipline!vars
  <2>1. /\ UNCHANGED <<input, rest, edit, delivered, pc, writing>>
        /\ Taken' = Taken
    BY <1>1, <1>3, TakenStays DEF kb_ring_handle_input
  <2>2. Ready' = Ready /\ Edited' = Edited
    BY <2>1 DEF Ready, Edited, Completing
  <2> QED BY <2>1, <2>2 DEF Discipline!vars, Ready, Edited
<1>4. CASE \/ worker_check \/ worker_register \/ worker_acquire \/ worker_empty \/ worker_drained
           \/ reader_check \/ reader_acquire \/ reader_release
           \/ backend_check \/ backend_acquire \/ backend_take \/ backend_release
  BY <1>1, <1>2, <1>4
  DEF worker_check, worker_register, worker_acquire, worker_empty, worker_drained, reader_check,
      reader_acquire, reader_release, backend_check, backend_acquire, backend_take,
      backend_release, input_acquire, output_acquire, TypeOK
<1>5. ASSUME NEW p \in Task, block_task(p) \/ resume(p) PROVE UNCHANGED Discipline!vars
  BY <1>1, <1>2, <1>5 DEF block_task, resume, TypeOK
<1>6. ASSUME NEW p \in Writer, Write(p) PROVE UNCHANGED Discipline!vars
  <2>1. UNCHANGED <<raw, accepted, input, rest, edit, delivered>>
    BY <1>6 DEF Write, tty_write_acquire, tty_write_fill, tty_write_store, tty_write_release
  <2> QED BY <1>1, <1>6, <2>1, WriteKeepsCompleting, Stutters
<1>7. CASE reader_return
  <2>1. /\ UNCHANGED <<raw, accepted, input, rest, edit, delivered>>
        /\ pc'[Worker] = pc[Worker] /\ writing'[Worker] = writing[Worker]
    BY <1>1, <1>7 DEF reader_return, TypeOK
  <2>2. Completing' <=> Completing
    BY <2>1 DEF Completing
  <2> QED BY <2>1, <2>2, Stutters
<1>8. ASSUME NEW key \in Key, Pop(key), UNCHANGED <<input, rest, accepted, delivered>>
      PROVE  /\ Taken' = Append(Taken, key) /\ Ready' = Ready /\ delivered' = delivered
             /\ Edited = edit /\ ~Completing
  <2>1. pc[Worker] = "loop"
    BY <1>8 DEF Pop
  <2> QED BY <1>1, <1>8, <2>1, TakenGrows, NotCompleting DEF Ready, Edited
<1>9. CASE worker_backspace
  <2>1. /\ Pop(BS) /\ UNCHANGED <<input, rest, accepted, delivered>> /\ BS \in Key
    BY <1>9 DEF worker_backspace, Key
  <2>2. Edited' = IF Edited = <<>> THEN <<>> ELSE Front(Edited)
    <3>1. CASE edit = <<>>
      <4>1. UNCHANGED <<pc, edit, writing>>
        BY <1>9, <3>1 DEF worker_backspace
      <4>2. Completing' <=> Completing
        BY <4>1 DEF Completing
      <4> QED BY <1>8, <2>1, <3>1, <4>1, <4>2 DEF Edited
    <3>2. CASE edit # <<>>
      <4>1. edit' = Front(edit) /\ Echo(<<BS, SPACE, BS>>, "loop")
        BY <1>9, <3>2 DEF worker_backspace
      <4>2. <<BS, SPACE, BS>> # <<NL>>
        BY DEF BS, NL
      <4>3. ~Completing'
        BY <1>1, <4>1, <4>2, NoNewlineEchoed
      <4> QED BY <1>8, <2>1, <3>2, <4>1, <4>3 DEF Edited
    <3> QED BY <3>1, <3>2
  <2> QED BY <1>8, <2>1, <2>2, Mapping DEF Discipline!Next
<1>10. CASE worker_newline
  <2>1. /\ Pop(NL) /\ UNCHANGED <<input, accepted, delivered, edit>> /\ NL \in Key
        /\ rest' = Append(edit, NL) /\ pc'[Worker] = "acquire" /\ pc[Worker] = "loop"
    BY <1>1, <1>10 DEF worker_newline, Key, Pop, TypeOK
  <2>2. rest = <<>> /\ ~Completing
    BY <1>1, <2>1, NotCompleting DEF CompletedInv
  <2>3. Ready = input /\ Ready' = input \o Append(edit, NL)
    BY <1>1, <2>1, <2>2, ConcatEmptySeq DEF Ready
  <2>4. Edited = edit /\ Edited' = <<>>
    BY <2>1, <2>2 DEF Edited, Completing
  <2>5. Taken' = Append(Taken, NL)
    BY <1>1, <2>1, TakenGrows
  <2> QED BY <2>1, <2>3, <2>4, <2>5, Mapping DEF Discipline!Next
<1>11. CASE worker_letter
  <2> PICK c \in Letters : worker_letter!(c)
    BY <1>11 DEF worker_letter
  <2>1. /\ Pop(c) /\ UNCHANGED <<input, rest, accepted, delivered>> /\ c \in Key
    BY DEF Key
  <2>2. Edited' = IF Len(Edited) < EDIT_MAX THEN Append(Edited, c) ELSE Edited
    <3>1. CASE ~EditHasRoom
      <4>1. UNCHANGED <<pc, edit, writing>>
        BY <3>1
      <4>2. Completing' <=> Completing
        BY <4>1 DEF Completing
      <4> QED BY <1>8, <2>1, <3>1, <4>1, <4>2 DEF Edited, EditHasRoom
    <3>2. CASE EditHasRoom
      <4>1. edit' = Append(edit, c) /\ Echo(<<c>>, "loop")
        BY <3>2
      <4>2. <<c>> # <<NL>>
        BY Sizes, Tuples
      <4>3. ~Completing'
        BY <1>1, <4>1, <4>2, NoNewlineEchoed
      <4> QED BY <1>8, <2>1, <3>2, <4>1, <4>3 DEF Edited, EditHasRoom
    <3> QED BY <3>1, <3>2
  <2> QED BY <1>8, <2>1, <2>2, Mapping DEF Discipline!Next
<1>12. CASE worker_copy
  <2>1. /\ UNCHANGED <<raw, accepted, edit, delivered, writing>> /\ rest # <<>>
        /\ rest' = Tail(rest)
        /\ pc[Worker] = "copy" /\ pc'[Worker] \in {"copy", "release"}
    BY <1>1, <1>12 DEF worker_copy, CompletedInv, TypeOK
  <2>2. Taken' = Taken /\ Edited' = Edited
    BY <2>1 DEF Taken, Edited, Completing
  <2>3. CASE InputHasRoom
    <3>1. Ready' = Ready
      <4>1. input' = Append(input, Head(rest))
        BY <1>12, <2>3 DEF worker_copy
      <4> QED BY <1>1, <2>1, <4>1, MoveElement DEF Ready
    <3> QED BY <2>1, <2>2, <3>1 DEF Discipline!vars, Ready, Edited
  <2>4. CASE ~InputHasRoom
    <3> DEFINE n == Len(input)
    <3>1. n \in Nat /\ n < INPUT_SIZE /\ ~(n < INPUT_SIZE - 1) /\ INPUT_SIZE \in Nat
      BY <1>1, <2>4, SeqFacts, Sizes DEF InputHasRoom, TypeOK
    <3>2. input' = input
      BY <1>12, <2>4 DEF worker_copy
    <3>3. RemoveAt(Ready, n + 1) = input \o Tail(rest) /\ Len(Ready) > n
      BY <1>1, <2>1, DropElement DEF Ready
    <3> HIDE DEF n
    <3>4. n = INPUT_SIZE - 1
      BY <3>1
    <3>5. Len(Ready) > INPUT_SIZE - 1 /\ Ready' = RemoveAt(Ready, INPUT_SIZE - 1 + 1)
      BY <2>1, <3>2, <3>3, <3>4 DEF Ready
    <3> QED BY <2>1, <2>2, <3>5, Mapping DEF Discipline!Next
  <2> QED BY <2>3, <2>4
<1>13. CASE worker_release
  <2>1. /\ UNCHANGED <<raw, accepted, input, rest, edit, delivered>>
        /\ Echo(<<NL>>, "wake") /\ pc[Worker] = "release"
    BY <1>13 DEF worker_release
  <2>2. Completing'
    <3>1. CASE ECHO BY <1>1, <2>1, <3>1, EchoGoes DEF Completing
    <3>2. CASE ~ECHO BY <1>1, <2>1, <3>2, EchoGoes DEF Completing
    <3> QED BY <3>1, <3>2
  <2>3. Completing
    BY <2>1 DEF Completing
  <2> QED BY <2>1, <2>2, <2>3, Stutters
<1>14. CASE worker_wake
  <2>1. /\ UNCHANGED <<raw, accepted, input, rest, delivered, writing>>
        /\ edit' = <<>> /\ pc[Worker] = "wake" /\ pc'[Worker] = "loop"
    BY <1>1, <1>14 DEF worker_wake, TypeOK
  <2>2. Edited = <<>> /\ Edited' = <<>>
    BY <2>1 DEF Edited, Completing
  <2>3. Taken' = Taken /\ Ready' = Ready
    BY <2>1 DEF Taken, Ready
  <2> QED BY <2>1, <2>2, <2>3 DEF Discipline!vars, Ready, Edited
<1>15. CASE reader_take
  <2>1. /\ UNCHANGED <<raw, accepted, rest, edit, writing>> /\ input # <<>>
        /\ input' = Tail(input) /\ delivered' = Append(delivered, Head(input))
        /\ pc'[Worker] = pc[Worker]
    BY <1>1, <1>15 DEF reader_take, RingInv, TypeOK
  <2>2. Ready # <<>> /\ Head(Ready) = Head(input) /\ Ready' = Tail(Ready)
    BY <1>1, <2>1, TakeElement DEF Ready
  <2>3. Taken' = Taken /\ Edited' = Edited
    BY <2>1 DEF Taken, Edited, Completing
  <2> QED BY <2>1, <2>2, <2>3, Mapping DEF Discipline!Next
<1> HIDE DEF Task, Writer
<1> QED
  BY <1>3, <1>4, <1>5, <1>6, <1>7, <1>9, <1>10, <1>11, <1>12, <1>13, <1>14, <1>15, Actions

\* tty_worker, tty_read_line and the keyboard interrupt together keep the
\* promise of LineDiscipline: keys are edited in the order in which they were
\* accepted, lines become ready as a whole, are read in order, and lose a
\* character only when more is ready than the ring can hold.
THEOREM DisciplineImplemented == Spec => ImplementsLineDiscipline
<1>1. Init => Discipline!Init
  <2> SUFFICES ASSUME Init PROVE Discipline!Init
    OBVIOUS
  <2>1. Taken = <<>>
    <3>1. Len(accepted) - Len(raw) = 0
      BY EmptySeq DEF Init
    <3> QED BY <3>1, SubSeqEmpty DEF Taken
  <2>2. input \o rest = <<>>
    BY DEF Init
  <2> QED BY <2>1, <2>2 DEF Init, Discipline!Init
<1>2. TtyInv /\ [Next]_vars => [Discipline!Next]_(Discipline!vars)
  <2>1. CASE Next
    BY <2>1, DisciplineStep
  <2>2. CASE UNCHANGED vars
    <3>1. UNCHANGED <<raw, accepted, input, rest, edit, delivered, pc, writing>>
      BY <2>2 DEF vars, inputVars
    <3>2. Completing' <=> Completing
      BY <3>1 DEF Completing
    <3> QED BY <3>1, <3>2, Stutters
  <2> QED BY <2>1, <2>2
<1> QED BY <1>1, <1>2, TtyInvariance, PTL DEF Spec, ImplementsLineDiscipline, Discipline!Spec
=============================================================================
