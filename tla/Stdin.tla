------------------------------- MODULE Stdin -------------------------------
(***************************************************************************)
(* Keyboard input (kern/fs/devs/dev_stdin.c, the console buffer of         *)
(* kern/driver/console.c and the interrupt in kern/trap/trap.c): the       *)
(* handler moves what the controller holds into the console buffer and one *)
(* character from there into stdin_buffer, where readers wait for it.      *)
(*                                                                         *)
(* Interrupts are off in the handler and in the parts of dev_stdin_read    *)
(* that are one step here; schedule() lies between them, and a key or a    *)
(* kill may come before the reader is switched away.  wakeup_queue wakes   *)
(* all waiters, so the wait queue is a set.  Positions are off_t in the    *)
(* code and natural numbers here: they would overflow after 2^31 keys.     *)
(***************************************************************************)
EXTENDS Integers, Sequences

CONSTANTS Reader, Char,
          STDIN_BUFSIZE, CONSBUFSIZE,
          MaxKeys,      \* bound on the keys pressed
          MaxLen        \* bound on the length of a read

VARIABLES hw,           \* characters at the keyboard controller and the serial port
          pressed,      \* keys pressed so far
          irq,          \* the handler runs, up to its read of the console buffer
          cons,         \* the console buffer: buf, rpos, wpos
          stdin_buffer, p_rpos, p_wpos,
          wait_queue,
          place,        \* "user", "wait" (in schedule() of dev_stdin_read) or "dead"
          asleep,       \* readers that are PROC_SLEEPING
          wakeup_flags, \* of the reader's wait_t: "WT_INTERRUPTED" or "WT_KBD"
          len, ret,     \* characters asked for and read
          got,          \* the characters read
          killed        \* readers with PF_EXITING

input == <<hw, pressed, irq, cons>>
buffer == <<stdin_buffer, p_rpos, p_wpos>>
reader == <<wait_queue, place, asleep, wakeup_flags, len, ret, got, killed>>
svars == <<hw, pressed, irq, cons, stdin_buffer, p_rpos, p_wpos,
           wait_queue, place, asleep, wakeup_flags, len, ret, got, killed>>

NoChar == 0

\* The console buffer is zero at boot.
stdin_device_init ==
  /\ hw = <<>> /\ pressed = 0 /\ irq = FALSE
  /\ cons = [buf |-> [i \in 0 .. CONSBUFSIZE - 1 |-> NoChar], rpos |-> 0, wpos |-> 0]
  /\ stdin_buffer = [i \in 0 .. STDIN_BUFSIZE - 1 |-> NoChar]
  /\ p_rpos = 0 /\ p_wpos = 0
  /\ wait_queue = {}
  /\ place = [r \in Reader |-> "user"]
  /\ asleep = {} /\ killed = {}
  /\ wakeup_flags = [r \in Reader |-> "WT_INTERRUPTED"]
  /\ len = [r \in Reader |-> 0] /\ ret = [r \in Reader |-> 0]
  /\ got = [r \in Reader |-> <<>>]

-----------------------------------------------------------------------------
(* The interrupt. *)

\* The hardware has a character, or a code that kbd_proc_data maps to 0.
press(c) ==
  /\ pressed < MaxKeys
  /\ pressed' = pressed + 1
  /\ hw' = Append(hw, c)
  /\ UNCHANGED <<irq, cons, buffer, reader>>

trap_kbd ==
  /\ ~irq /\ hw # <<>>
  /\ irq' = TRUE
  /\ UNCHANGED <<hw, pressed, cons, buffer, reader>>

Advance(pos) == IF pos + 1 = CONSBUFSIZE THEN 0 ELSE pos + 1

\* One round of cons_intr's loop.
cons_intr ==
  /\ irq /\ hw # <<>>
  /\ hw' = Tail(hw)
  /\ cons' = IF Head(hw) = NoChar THEN cons
             ELSE [cons EXCEPT !.buf[cons.wpos] = Head(hw), !.wpos = Advance(@)]
  /\ UNCHANGED <<pressed, irq, buffer, reader>>

\* Mutated forms of dev_stdin_write: only one waiter is
\* woken; the end moves on when the buffer is full.
MutWakeOne(c) ==
  IF c = NoChar THEN UNCHANGED <<buffer, reader>>
  ELSE /\ stdin_buffer' = [stdin_buffer EXCEPT ![p_wpos % STDIN_BUFSIZE] = c]
       /\ p_wpos' = IF p_wpos - p_rpos < STDIN_BUFSIZE THEN p_wpos + 1 ELSE p_wpos
       /\ \E woken \in {w \in SUBSET wait_queue : wait_queue = {} \/ \E r \in w : w = {r}} :
             /\ wakeup_flags' = [r \in Reader |-> IF r \in woken THEN "WT_KBD" ELSE wakeup_flags[r]]
             /\ asleep' = asleep \ woken
             /\ wait_queue' = wait_queue \ woken
       /\ UNCHANGED <<p_rpos, place, len, ret, got, killed>>

MutOverrun(c) ==
  IF c = NoChar THEN UNCHANGED <<buffer, reader>>
  ELSE /\ stdin_buffer' = [stdin_buffer EXCEPT ![p_wpos % STDIN_BUFSIZE] = c]
       /\ p_wpos' = p_wpos + 1
       /\ wakeup_flags' = [r \in Reader |-> IF r \in wait_queue THEN "WT_KBD" ELSE wakeup_flags[r]]
       /\ asleep' = asleep \ wait_queue
       /\ wait_queue' = {}
       /\ UNCHANGED <<p_rpos, place, len, ret, got, killed>>

\* Where a new character goes: past the newest, which is the place of the oldest
\* when the buffer is full, and then the end does not move.
dev_stdin_write(c) ==
  IF c = NoChar THEN UNCHANGED <<buffer, reader>>
  ELSE /\ stdin_buffer' = [stdin_buffer EXCEPT ![p_wpos % STDIN_BUFSIZE] = c]
       /\ p_wpos' = IF p_wpos - p_rpos < STDIN_BUFSIZE THEN p_wpos + 1 ELSE p_wpos
       /\ wakeup_flags' = [r \in Reader |-> IF r \in wait_queue THEN "WT_KBD" ELSE wakeup_flags[r]]
       /\ asleep' = asleep \ wait_queue
       /\ wait_queue' = {}
       /\ UNCHANGED <<p_rpos, place, len, ret, got, killed>>

\* The end of the handler: one character of the console buffer, if it has one.
cons_getc ==
  /\ irq /\ hw = <<>>
  /\ irq' = FALSE
  /\ IF cons.rpos = cons.wpos
     THEN /\ dev_stdin_write(NoChar)
          /\ UNCHANGED cons
     ELSE /\ dev_stdin_write(cons.buf[cons.rpos])
          /\ cons' = [cons EXCEPT !.rpos = Advance(@)]
  /\ UNCHANGED <<hw, pressed>>

-----------------------------------------------------------------------------
(* The readers. *)

\* trap() ends a process that was killed when the system call is done.
Return(r) == place' = [place EXCEPT ![r] = IF r \in killed THEN "dead" ELSE "user"]

\* The loop of dev_stdin_read from n characters on, g so far, l wanted: read what
\* is there; if that is not enough, wait_current_set and sleep.
ReadLoop(r, n, g, l, queue) ==
  LET there == p_wpos - p_rpos
      more == IF l - n <= there THEN l - n ELSE there
  IN  /\ p_rpos' = p_rpos + more
      /\ got' = [got EXCEPT ![r] = g \o [i \in 1 .. more |->
                                            stdin_buffer[(p_rpos + i - 1) % STDIN_BUFSIZE]]]
      /\ ret' = [ret EXCEPT ![r] = n + more]
      /\ len' = [len EXCEPT ![r] = l]
      /\ IF n + more = l
         THEN /\ Return(r)
              /\ wait_queue' = queue
              /\ UNCHANGED <<asleep, wakeup_flags>>
         ELSE /\ place' = [place EXCEPT ![r] = "wait"]
              /\ wait_queue' = queue \cup {r}
              /\ asleep' = asleep \cup {r}
              /\ wakeup_flags' = [wakeup_flags EXCEPT ![r] = "WT_INTERRUPTED"]
      /\ UNCHANGED <<hw, pressed, irq, cons, stdin_buffer, p_wpos, killed>>

dev_stdin_read(r, l) ==
  /\ ~irq /\ place[r] = "user"
  /\ ReadLoop(r, 0, <<>>, l, wait_queue)

\* schedule() returns: wait_current_del, then try again or give up.
try_again(r) ==
  /\ ~irq /\ place[r] = "wait" /\ r \notin asleep
  /\ wakeup_flags[r] = "WT_KBD"
  /\ ReadLoop(r, ret[r], got[r], len[r], wait_queue \ {r})

give_up(r) ==
  /\ ~irq /\ place[r] = "wait" /\ r \notin asleep
  /\ wakeup_flags[r] # "WT_KBD"
  /\ wait_queue' = wait_queue \ {r}
  /\ Return(r)
  /\ UNCHANGED <<input, buffer, asleep, wakeup_flags, len, ret, got, killed>>

\* do_kill by another process: the reader is woken but stays in the wait queue.
do_kill(r) ==
  /\ ~irq /\ place[r] # "dead" /\ r \notin killed
  /\ killed' = killed \cup {r}
  /\ asleep' = asleep \ {r}
  /\ UNCHANGED <<input, buffer, wait_queue, place, wakeup_flags, len, ret, got>>

\* A process killed outside a read ends when it next leaves the kernel.
do_exit(r) ==
  /\ ~irq /\ place[r] = "user" /\ r \in killed
  /\ place' = [place EXCEPT ![r] = "dead"]
  /\ UNCHANGED <<input, buffer, wait_queue, asleep, wakeup_flags, len, ret, got, killed>>

StdinNext == \/ \E c \in Char \cup {NoChar} : press(c)
        \/ trap_kbd \/ cons_intr \/ cons_getc
        \/ \E r \in Reader : \/ \E l \in 1 .. MaxLen : dev_stdin_read(r, l)
                             \/ try_again(r) \/ give_up(r) \/ do_kill(r) \/ do_exit(r)

StdinSpec == stdin_device_init /\ [][StdinNext]_svars

-----------------------------------------------------------------------------
\* No key is missed between the test of the buffer and the sleep, or because a kill
\* and a key cross: a reader that sleeps is in the wait queue, where the next
\* character wakes it, and the buffer is empty.
NoLostKey ==
  \A r \in asleep : r \in wait_queue /\ place[r] = "wait" /\ p_rpos = p_wpos

KS == INSTANCE KeySpec WITH
        Size <- STDIN_BUFSIZE, count <- p_wpos - p_rpos,
        keys <- [i \in 1 .. (p_wpos - p_rpos) |-> stdin_buffer[(p_rpos + i - 1) % STDIN_BUFSIZE]]

\* The ring of positions modulo STDIN_BUFSIZE is a queue: readers get the characters
\* in the order of their arrival, each once, and a full buffer loses the oldest one.
ImplementsKeySpec == KS!Spec
=============================================================================
