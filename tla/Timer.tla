--------------------------------- MODULE Timer ---------------------------------
(***************************************************************************)
(* The 8253 timer (core/src/timer.c): three channels of 16 bits, programmed *)
(* and read a byte at a time.  BCD counting is stored by the code and never *)
(* used; it is left out.                                                    *)
(***************************************************************************)
EXTENDS Integers

Channels == 0..2
Count16 == 0..65535

Channel == [count : Count16, reload : Count16, latch : Count16, latched : BOOLEAN,
            mode : 0..5, rw : 0..3, writeLow : BOOLEAN, readLow : BOOLEAN,
            gate : BOOLEAN, out : BOOLEAN, counting : BOOLEAN, loaded : BOOLEAN]

ChannelInit ==
  [count |-> 0, reload |-> 0, latch |-> 0, latched |-> FALSE, mode |-> 0, rw |-> 0,
   writeLow |-> TRUE, readLow |-> TRUE, gate |-> TRUE, out |-> TRUE,
   counting |-> FALSE, loaded |-> FALSE]
TimerInit == [i \in Channels |-> ChannelInit]

Less(count, n) == (count - n) % 65536
LowByte(x) == x % 256
HighByte(x) == x \div 256

(* channel_tick by mode: terminal count, one-shot, rate generator, square   *)
(* wave, and the two strobes.                                               *)
Ticked(ch) ==
  LET next == Less(ch.count, IF ch.mode = 3 THEN 2 ELSE 1)
      stepped == [ch EXCEPT !.count = next]
      halfway == [stepped EXCEPT !.out = ~@,
                                 !.count = IF ~ch.out THEN ch.reload ELSE ch.reload - (ch.reload % 2)]
  IN IF ~ch.counting \/ ~ch.loaded \/ (~ch.gate /\ ch.mode \notin {1, 5}) THEN ch
     ELSE CASE ch.mode = 0 -> [stepped EXCEPT !.out = @ \/ next = 0]
            [] ch.mode = 1 -> [stepped EXCEPT !.out = @ \/ next = 0, !.counting = next # 0]
            [] ch.mode = 2 -> IF next = 1 THEN [stepped EXCEPT !.out = FALSE]
                              ELSE IF next = 0 THEN [stepped EXCEPT !.out = TRUE, !.count = ch.reload]
                              ELSE stepped
            [] ch.mode = 3 -> IF next \in {0, 1} THEN halfway ELSE stepped
            [] ch.mode \in {4, 5} -> [stepped EXCEPT !.out = next # 0, !.counting = next # 0]

TimerTick(timer) == [i \in Channels |-> Ticked(timer[i])]

-----------------------------------------------------------------------------
(* timer_write: the control word, 4 a counter latch command; then the bytes *)
(* of a count, of which the last loads the counter.                         *)
Latched_KeepsHalf(ch) == [ch EXCEPT !.latch = ch.count, !.latched = TRUE]                 \* mutant
Latched(ch) == [ch EXCEPT !.latch = ch.count, !.latched = TRUE, !.readLow = TRUE]

Programmed(ch, value) ==
  LET rw == (value \div 16) % 4
      m == (value \div 2) % 8
      mode == IF m > 5 THEN m - 4 ELSE m
  IN [ch EXCEPT !.mode = mode, !.rw = rw, !.writeLow = rw \in {1, 3}, !.readLow = rw \in {1, 3},
                !.counting = FALSE, !.loaded = FALSE, !.out = mode # 0]

Started(ch, reload) ==
  [ch EXCEPT !.reload = reload, !.count = reload, !.loaded = TRUE, !.counting = TRUE]

Loaded(ch, value) ==
  CASE ch.rw = 0 -> ch
    [] ch.rw = 1 -> Started(ch, value)
    [] ch.rw = 2 -> Started(ch, 256 * value)
    [] ch.rw = 3 /\ ch.writeLow ->
         [ch EXCEPT !.reload = 256 * HighByte(@) + value, !.writeLow = FALSE]
    [] ch.rw = 3 /\ ~ch.writeLow ->
         [Started(ch, 256 * value + LowByte(ch.reload)) EXCEPT !.writeLow = TRUE]

TimerWrite(timer, reg, value) ==
  LET chosen == value \div 64
  IN IF reg # 3 THEN [timer EXCEPT ![reg] = Loaded(@, value)]
     ELSE IF chosen = 3 THEN timer
     ELSE [timer EXCEPT ![chosen] = IF (value \div 16) % 4 = 0 THEN Latched(@) ELSE Programmed(@, value)]

(* timer_read: the latch until it has been read out, else the count as it   *)
(* runs.  The value and the channel after.                                  *)
ReadOut(ch) ==
  LET val == IF ch.latched THEN ch.latch ELSE ch.count
  IN CASE ch.rw = 0 -> [val |-> 0, ch |-> ch]
       [] ch.rw = 1 -> [val |-> LowByte(val), ch |-> [ch EXCEPT !.latched = FALSE]]
       [] ch.rw = 2 -> [val |-> HighByte(val), ch |-> [ch EXCEPT !.latched = FALSE]]
       [] ch.rw = 3 /\ ch.readLow -> [val |-> LowByte(val), ch |-> [ch EXCEPT !.readLow = FALSE]]
       [] ch.rw = 3 /\ ~ch.readLow ->
            [val |-> HighByte(val), ch |-> [ch EXCEPT !.readLow = TRUE, !.latched = FALSE]]

TimerReads(timer, reg) ==
  IF reg = 3 THEN [val |-> 255, tmr |-> timer]
  ELSE [val |-> ReadOut(timer[reg]).val, tmr |-> [timer EXCEPT ![reg] = ReadOut(@).ch]]

(* timer_set_gate.                                                          *)
Gated(ch, on) ==
  LET set == [ch EXCEPT !.gate = on]
      risen == ~ch.gate /\ on
  IN IF risen /\ ch.mode \in {1, 5}
     THEN [set EXCEPT !.count = ch.reload, !.out = FALSE, !.counting = TRUE]
     ELSE IF risen /\ ch.mode \in {2, 3}
     THEN [set EXCEPT !.count = ch.reload, !.counting = TRUE]
     ELSE [set EXCEPT !.out = IF ~on /\ ch.mode \in {2, 3} THEN TRUE ELSE @]

=============================================================================
