-------------------------- MODULE MemWindow_proofs --------------------------
(***************************************************************************)
(* Proofs about the memory windows, for every word size, every choice of   *)
(* BARs and buffers, and whoever may be restarted.                         *)
(***************************************************************************)
EXTENDS MemWindow, TLAPS

USE DEF VM, Peer

-----------------------------------------------------------------------------
(* Words, translations and calls.                                          *)

\* An address is its two words.
LEMMA Halves ==
  ASSUME NEW a \in 0 .. W * W - 1
  PROVE  /\ Low(a) \in Word
         /\ High(a) \in Word
         /\ High(a) * W + Low(a) = a
<1> DEFINE d == a \div W
           r == a % W
<1>1. W \in Nat /\ W > 0 /\ a \in Nat
  BY WordAssumption
<1>2. d \in Nat /\ r \in 0 .. W - 1 /\ a = d * W + r
  BY <1>1
<1> HIDE DEF d, r
<1>3. a < W * W
  BY <1>1
<1>4. d < W
  BY <1>1, <1>2, <1>3
<1> QED
  BY <1>1, <1>2, <1>4 DEF Low, High, Word, d, r

\* What is known of a BAR is one of four different things.
LEMMA KnownDistinct ==
  /\ Closed \notin Translations /\ Moving \notin Translations /\ Unknown \notin Translations
  /\ Closed # Moving /\ Closed # Unknown /\ Moving # Unknown
<1>1. \A t \in Translations : DOMAIN t = {"base", "size"}
  BY DEF Translations
<1>2. DOMAIN Closed = {"is"} /\ DOMAIN Moving = {"is"} /\ DOMAIN Unknown = {"is"}
  BY DEF Closed, Moving, Unknown
<1>3. "base" \notin {"is"}
  OBVIOUS
<1>4. Closed.is = "closed" /\ Moving.is = "moving" /\ Unknown.is = "unknown"
  BY DEF Closed, Moving, Unknown
<1> QED
  BY <1>1, <1>2, <1>3, <1>4

\* The limit of a window is behind its BAR's address, at most a word.
LEMMA LimitBehind ==
  ASSUME NEW v \in VM, NEW b \in Bars, NEW t \in Translations
  PROVE  /\ LimitOf(v, b, t) = BarAddr[v][b] + t.size
         /\ LimitOf(v, b, t) \in Word
         /\ LimitOf(v, b, t) # 0
<1>1. BarAddr[v][b] \in Nat /\ BarAddr[v][b] + Aperture < W
  BY BarsAssumption
<1>2. t.size \in Nat /\ 1 <= t.size /\ t.size <= Aperture /\ Aperture \in Nat /\ W \in Nat
  BY WordAssumption DEF Translations
<1> DEFINE s == BarAddr[v][b] + t.size
<1>3. s \in 1 .. W - 1
  BY <1>1, <1>2
<1> HIDE DEF s
<1>4. s % W = s
  BY <1>2, <1>3
<1> QED
  BY <1>2, <1>3, <1>4 DEF LimitOf, Word, s

LEMMA ConfigWords ==
  ASSUME NEW v \in VM, NEW b \in Bars, NEW t \in Translations
  PROVE  /\ Config(v, b, t) \in [Fields -> Word]
         /\ Config(v, b, t)["limit"] = LimitOf(v, b, t)
         /\ Config(v, b, t)["lo"] = Low(t.base)
         /\ Config(v, b, t)["hi"] = High(t.base)
<1>1. t.base \in 0 .. W * W - 1
  BY DEF Translations
<1>2. Low(t.base) \in Word /\ High(t.base) \in Word
  BY <1>1, Halves
<1>3. LimitOf(v, b, t) \in Word
  BY LimitBehind
<1>4. Config(v, b, t)["limit"] = LimitOf(v, b, t)
  BY DEF Config, Fields
<1>5. Config(v, b, t)["lo"] = Low(t.base)
  BY DEF Config, Fields
<1>6. Config(v, b, t)["hi"] = High(t.base)
  BY DEF Config, Fields
<1> DEFINE word(f) == CASE f = "limit" -> LimitOf(v, b, t)
                        [] f = "lo"    -> Low(t.base)
                        [] f = "hi"    -> High(t.base)
<1>8. \A f \in Fields : word(f) \in Word
  BY <1>2, <1>3 DEF Fields
<1>9. Config(v, b, t) = [f \in Fields |-> word(f)]
  BY DEF Config
<1> HIDE DEF word
<1>10. Config(v, b, t) \in [Fields -> Word]
  BY <1>8, <1>9
<1> QED
  BY <1>4, <1>5, <1>6, <1>10

\* The register writes of a call.
LEMMA ProgramWrites ==
  ASSUME NEW v \in VM
  PROVE  /\ call[v].goal = Closed =>
              /\ Len(Program(v)) = 2
              /\ Program(v)[1] = Select(call[v].bar)
              /\ Program(v)[2] = Put("limit", 0)
         /\ call[v].goal # Closed =>
              /\ Len(Program(v)) = 4
              /\ Program(v)[1] = Select(call[v].bar)
              /\ Program(v)[2] = Put("lo", Low(call[v].goal.base))
              /\ Program(v)[3] = Put("hi", High(call[v].goal.base))
              /\ Program(v)[4] = Put("limit", LimitOf(v, call[v].bar, call[v].goal))
  BY DEF Program, SetTrans, ClearTrans

\* A request is for a window, and closes or opens it.
LEMMA RequestType ==
  ASSUME NEW v \in VM, NEW b, NEW g, <<b, g>> \in Requests[v]
  PROVE  b \in Bars /\ b # 0 /\ b \in BarIdx /\ g \in Translations \cup {Closed}
<1>1. Requests[v] \subseteq Bars \X (Translations \cup {Closed})
  BY RequestsAssumption
<1>2. b \in Bars /\ g \in Translations \cup {Closed}
  BY <1>1
<1> QED
  BY <1>2, WindowsAssumption

\* There are two ends; nothing that is in progress is on BAR 0.
LEMMA Basics ==
  /\ \A v \in VM : Peer(v) \in VM /\ Peer(v) # v /\ Peer(Peer(v)) = v
  /\ \A c \in Calls : c # NoCall /\ c.bar \in Bars
  /\ \A a \in Accesses : a # NoAccess /\ a.bar \in Bars
  /\ \A b \in Bars : b \in BarIdx /\ b # 0
  /\ 0 \in Word /\ NoAccess.bar = 0 /\ NoCall.bar = 0
<1>1. \A b \in Bars : b \in BarIdx /\ b # 0
  BY WindowsAssumption
<1>2. \A c \in Calls : c.bar \in Bars
  BY DEF Calls
<1>3. \A a \in Accesses : a.bar \in Bars
  BY DEF Accesses
<1>4. NoAccess.bar = 0 /\ NoCall.bar = 0
  BY DEF NoAccess, NoCall
<1>5. 0 \in Word
  BY WordAssumption DEF Word
<1> QED
  BY <1>1, <1>2, <1>3, <1>4, <1>5

-----------------------------------------------------------------------------
(* The invariant holds initially and is kept by every step.                *)

LEMMA InvInit == Init => WindowInv
<1> SUFFICES ASSUME Init PROVE WindowInv
  OBVIOUS
<1> USE DEF Init
<1>1. TypeOK
  BY Basics, WindowsAssumption DEF TypeOK, Zero, Known, BarIdx
<1>2. CallOK
  BY DEF CallOK
<1>3. WindowsOK
  BY Basics, KnownDistinct DEF WindowsOK, BarFits, Zero, Fields
<1>4. AccessOK
  BY DEF AccessOK
<1> QED
  BY <1>1, <1>2, <1>3, <1>4 DEF WindowInv

LEMMA InvBegin ==
  ASSUME WindowInv, NEW v \in VM, Begin(v)
  PROVE  WindowInv'
<1> USE DEF WindowInv
<1> DEFINE u == Peer(v)
<1>1. PICK r \in Requests[v] :
        /\ call' = [call EXCEPT ![v] = [bar |-> r[1], goal |-> r[2], done |-> 0]]
        /\ tr' = [tr EXCEPT ![u][r[1]] = Moving]
        /\ Disturb(u, r[1])
  BY DEF Begin
<1> DEFINE b == r[1]
           g == r[2]
<1>2. r = <<b, g>> /\ b \in Bars /\ b # 0 /\ g \in Translations \cup {Closed}
  <2>1. r \in Bars \X (Translations \cup {Closed})
    BY RequestsAssumption
  <2> QED
    BY <2>1, WindowsAssumption
<1>3. call[v] = NoCall /\ UNCHANGED <<cfg, sel, mapped>>
  BY DEF Begin
<1>4. /\ u \in VM /\ u # v /\ Peer(u) = v
  BY Basics
<1> DEFINE newcall == [bar |-> b, goal |-> g, done |-> 0]
<1>5. newcall \in Calls
  BY <1>2 DEF Calls
<1>6. call'[v] = newcall /\ call'[u] = call[u]
  BY <1>1, <1>4 DEF TypeOK
<1>7. acc' \in [VM -> Accesses \cup {NoAccess}] /\ acc'[v] = acc[v]
  <2>1. CASE acc[u].bar = b
    <3>1. acc[u] \in Accesses
      BY <2>1, <1>2, <1>4, Basics DEF TypeOK
    <3>2. [acc[u] EXCEPT !.under = Unknown] \in Accesses
      BY <3>1 DEF Accesses, Known
    <3>3. acc' = [acc EXCEPT ![u] = [acc[u] EXCEPT !.under = Unknown]]
      BY <1>1, <2>1 DEF Disturb, TypeOK
    <3> QED
      BY <3>2, <3>3, <1>4 DEF TypeOK
  <2>2. CASE acc[u].bar # b
    BY <2>2, <1>1 DEF Disturb, TypeOK
  <2> QED
    BY <2>1, <2>2
<1>8. tr' \in [VM -> [Bars -> Known]] /\ tr'[v] = tr[v] /\ tr'[u][b] = Moving
        /\ \A c \in Bars : c # b => tr'[u][c] = tr[u][c]
  BY <1>1, <1>2, <1>4 DEF TypeOK, Known
<1>9. TypeOK'
  BY <1>1, <1>3, <1>5, <1>7, <1>8 DEF TypeOK
<1>10. CallOK'
  <2>1. (call[v] # NoCall => CallFits(v))'
    <3>1. call'[v].done = 0 /\ call'[v].bar = b /\ call'[v].goal = g
      BY <1>6
    <3>2. 0 < Len(Program(v)')
      BY <1>6, <3>1 DEF Program, SetTrans, ClearTrans
    <3>3. WordsDone(0) = {}
      BY DEF WordsDone
    <3> QED
      BY <1>2, <1>3, <1>4, <1>8, <3>1, <3>2, <3>3 DEF CallFits
  <2>2. (call[u] # NoCall => CallFits(u))'
    <3>1. Program(u)' = Program(u)
      BY <1>6 DEF Program, SetTrans, ClearTrans
    <3> QED
      BY <1>3, <1>4, <1>6, <1>8, <3>1 DEF CallOK, CallFits
  <2> QED
    BY <2>1, <2>2 DEF CallOK
<1>11. WindowsOK'
  <2> SUFFICES ASSUME NEW w \in VM, NEW c \in Bars
               PROVE  BarFits(w, c)'
    BY DEF WindowsOK
  <2>1. CASE w = v
    BY <2>1, <1>3, <1>4, <1>6, <1>8 DEF WindowsOK, BarFits
  <2>2. CASE w = u /\ c = b
    BY <2>2, <1>2, <1>4, <1>5, <1>6, <1>8, Basics, KnownDistinct DEF BarFits
  <2>3. CASE w = u /\ c # b
    BY <2>3, <1>3, <1>4, <1>8 DEF WindowsOK, BarFits
  <2> QED
    BY <2>1, <2>2, <2>3
<1>12. AccessOK'
  <2>1. (acc[v] # NoAccess => AccessFits(v))'
    BY <1>3, <1>4, <1>7, <1>8 DEF AccessOK, AccessFits
  <2>2. (acc[u] # NoAccess => AccessFits(u))'
    <3>1. CASE acc[u].bar = b
      <4>1. acc[u] # NoAccess
        BY <3>1, <1>2, Basics
      <4>2. acc'[u].under = Unknown
        BY <3>1, <4>1, <1>1, <1>4 DEF Disturb, TypeOK, Accesses
      <4> QED
        BY <4>2, KnownDistinct DEF AccessFits
    <3>2. CASE acc[u].bar # b
      <4>1. acc' = acc
        BY <3>2, <1>1 DEF Disturb
      <4>2. acc[u] # NoAccess => acc[u].bar \in Bars
        BY <1>4, Basics DEF TypeOK
      <4> QED
        BY <3>2, <4>1, <4>2, <1>4, <1>8 DEF AccessOK, AccessFits
    <3> QED
      BY <3>1, <3>2
  <2> QED
    BY <2>1, <2>2 DEF AccessOK
<1> QED
  BY <1>9, <1>10, <1>11, <1>12

\* What Proceed does: the call goes on, or it has returned and its BAR is
\* known again, unless the guest it belongs to wrote its words itself.
LEMMA Proceeds ==
  ASSUME WindowInv, NEW v \in VM, call[v] # NoCall, Proceed(v),
         NEW n, n = call[v].done + 1, NEW b, b = call[v].bar
  PROVE  /\ call[v] \in Calls /\ b \in Bars
         /\ call' \in [VM -> Calls \cup {NoCall}] /\ tr' \in [VM -> [Bars -> Known]]
         /\ call'[Peer(v)] = call[Peer(v)] /\ tr'[v] = tr[v]
         /\ \A c \in Bars : c # b => tr'[Peer(v)][c] = tr[Peer(v)][c]
         /\ n < Len(Program(v)) =>
              /\ call'[v] = [call[v] EXCEPT !.done = n]
              /\ call'[v] \in Calls
              /\ tr' = tr
         /\ ~(n < Len(Program(v))) =>
              /\ call'[v] = NoCall
              /\ tr[Peer(v)][b] = Moving => tr'[Peer(v)][b] = call[v].goal
              /\ tr[Peer(v)][b] # Moving => tr'[Peer(v)][b] = tr[Peer(v)][b]
<1> USE DEF WindowInv
<1> DEFINE u == Peer(v)
<1>1. call[v] \in Calls /\ b \in Bars /\ CallFits(v)
  BY Basics DEF TypeOK, CallOK
<1>2. u \in VM /\ u # v
  BY Basics
<1>3. call[v].goal \in Known
  BY <1>1 DEF Calls, Known
<1>4. n \in 1 .. 4 \/ ~(n < Len(Program(v)))
  <2>1. Len(Program(v)) = 2 \/ Len(Program(v)) = 4
    BY ProgramWrites
  <2>2. call[v].done \in 0 .. 4
    BY <1>1 DEF Calls
  <2>3. n \in 1 .. 5
    BY <2>2
  <2> DEFINE L == Len(Program(v))
  <2>4. L = 2 \/ L = 4
    BY <2>1
  <2> HIDE DEF L
  <2>5. n \in 1 .. 4 \/ ~(n < L)
    BY <2>3, <2>4
  <2> QED
    BY <2>5 DEF L
<1>5. CASE n < Len(Program(v))
  <2>1. call' = [call EXCEPT ![v].done = n] /\ tr' = tr
    BY <1>5 DEF Proceed
  <2>2. [call[v] EXCEPT !.done = n] \in Calls
    BY <1>1, <1>4, <1>5 DEF Calls
  <2> QED
    BY <2>1, <2>2, <1>1, <1>2, <1>5 DEF TypeOK
<1>6. CASE ~(n < Len(Program(v)))
  <2>1. /\ call' = [call EXCEPT ![v] = NoCall]
        /\ tr' = IF tr[u][b] = Moving THEN [tr EXCEPT ![u][b] = call[v].goal] ELSE tr
    BY <1>6 DEF Proceed
  <2> QED
    BY <2>1, <1>1, <1>2, <1>3, <1>6 DEF TypeOK
<1> QED
  BY <1>5, <1>6

LEMMA InvWriteLutoff ==
  ASSUME WindowInv, NEW v \in VM, WriteLutoff(v)
  PROVE  WindowInv'
<1> USE DEF WindowInv
<1> DEFINE u == Peer(v)
           n == call[v].done + 1
           b == call[v].bar
<1>1. call[v] # NoCall /\ NextWrite(v).reg = "LUTOFF" /\ Proceed(v)
        /\ sel' = [sel EXCEPT ![v] = NextWrite(v).val] /\ UNCHANGED <<cfg, acc, mapped>>
  BY DEF WriteLutoff, Writing
<1>2. u \in VM /\ u # v /\ Peer(u) = v
  BY Basics
<1>3. CallFits(v) /\ call[v] \in Calls /\ b \in Bars /\ b \in BarIdx
  BY <1>1, Basics DEF TypeOK, CallOK
<1>4. call[v].done \in 0 .. 4
  BY <1>3 DEF Calls
<1>5. NextWrite(v) = Program(v)[n]
  BY DEF NextWrite
<1>6. n = 1 /\ NextWrite(v) = Select(b) /\ 1 < Len(Program(v))
  <2>1. \A f \in Fields, val \in Int : Put(f, val).reg # "LUTOFF"
    BY DEF Put
  <2>2. CASE call[v].goal = Closed
    <3>1. n \in {1, 2}
      <4>1. call[v].done < 2
        BY <2>2, <1>3, ProgramWrites DEF CallFits
      <4> QED
        BY <4>1, <1>4
    <3>2. n # 2
      BY <2>2, <1>1, <1>5, ProgramWrites DEF Put
    <3> QED
      BY <2>2, <3>1, <3>2, <1>5, ProgramWrites
  <2>3. CASE call[v].goal # Closed
    <3>1. n \in {1, 2, 3, 4}
      <4>1. call[v].done < 4
        BY <2>3, <1>3, ProgramWrites DEF CallFits
      <4> QED
        BY <4>1, <1>4
    <3>2. n # 2 /\ n # 3 /\ n # 4
      BY <2>3, <1>1, <1>5, ProgramWrites DEF Put
    <3> QED
      BY <2>3, <3>1, <3>2, <1>5, ProgramWrites
  <2> QED
    BY <2>2, <2>3
<1>7. call'[v] = [call[v] EXCEPT !.done = 1] /\ call'[v] \in Calls /\ tr' = tr
        /\ call'[u] = call[u] /\ call' \in [VM -> Calls \cup {NoCall}]
  BY <1>1, <1>6, Proceeds
<1>8. sel'[v] = b /\ sel'[u] = sel[u] /\ sel' \in [VM -> BarIdx]
  BY <1>1, <1>2, <1>3, <1>6 DEF Select, TypeOK
<1>9. TypeOK'
  BY <1>1, <1>7, <1>8 DEF TypeOK
<1>10. CallOK'
  <2>1. CallFits(v)'
    <3>1. call'[v].bar = b /\ call'[v].goal = call[v].goal /\ call'[v].done = 1
      BY <1>3, <1>7 DEF Calls
    <3>2. Program(v)' = Program(v)
      BY <3>1 DEF Program, SetTrans, ClearTrans
    <3>3. WordsDone(1) = {}
      BY DEF WordsDone
    <3> QED
      BY <1>1, <1>3, <1>6, <1>7, <1>8, <3>1, <3>2, <3>3 DEF CallFits
  <2>2. (call[u] # NoCall => CallFits(u))'
    <3>1. Program(u)' = Program(u)
      BY <1>7 DEF Program, SetTrans, ClearTrans
    <3> QED
      BY <1>1, <1>2, <1>7, <1>8, <3>1 DEF CallOK, CallFits
  <2> QED
    BY <2>1, <2>2 DEF CallOK
<1>11. WindowsOK'
  <2>1. \A w \in VM : call[w] # NoCall => call'[w] # NoCall /\ call'[w].bar = call[w].bar
    BY <1>2, <1>3, <1>7, Basics DEF Calls
  <2> SUFFICES ASSUME NEW w \in VM, NEW c \in Bars
               PROVE  BarFits(w, c)'
    BY DEF WindowsOK
  <2>2. BarFits(w, c)
    BY DEF WindowsOK
  <2> QED
    BY <2>1, <2>2, <1>1, <1>7, Basics DEF BarFits
<1>12. AccessOK'
  BY <1>1, <1>7 DEF AccessOK, AccessFits
<1> QED
  BY <1>9, <1>10, <1>11, <1>12

\* A word of the translation is stored: the call has selected its BAR, and
\* the word is the one of what it was asked to set.
LEMMA DataWritten ==
  ASSUME WindowInv, NEW v \in VM, WriteData(v),
         NEW n, n = call[v].done + 1, NEW b, b = call[v].bar,
         NEW g, g = call[v].goal, NEW k, k = NextWrite(v)
  PROVE  /\ sel[v] = b /\ n \in 2 .. 4
         /\ k.field \in Fields /\ k.val \in Word
         /\ g = Closed => /\ ~(n < Len(Program(v)))
                          /\ k.field = "limit" /\ k.val = 0
         /\ g # Closed =>
              /\ g \in Translations
              /\ k.val = Config(v, b, g)[k.field]
              /\ n = 2 => k.field = "lo"
              /\ n = 3 => k.field = "hi"
              /\ n = 4 => k.field = "limit"
              /\ n < Len(Program(v)) <=> n # 4
<1> USE DEF WindowInv
<1>1. call[v] # NoCall /\ NextWrite(v).reg = "data"
  BY DEF WriteData, Writing
<1>2. CallFits(v) /\ call[v] \in Calls /\ b \in Bars
  BY <1>1, Basics DEF TypeOK, CallOK
<1>3. call[v].done \in 0 .. 4 /\ g \in Translations \cup {Closed}
  BY <1>2 DEF Calls
<1>4. k = Program(v)[n]
  BY DEF NextWrite
<1>5. n # 1
  BY <1>1, <1>4, ProgramWrites DEF Select
<1>6. n \in 2 .. 4 /\ sel[v] = b
  <2>1. call[v].done < 4
    <3> DEFINE L == Len(Program(v))
    <3>1. L = 2 \/ L = 4
      BY ProgramWrites
    <3>2. call[v].done < L
      BY <1>2 DEF CallFits
    <3> HIDE DEF L
    <3> QED
      BY <1>3, <3>1, <3>2
  <2>2. n \in 2 .. 4
    BY <2>1, <1>3, <1>5
  <2> QED
    BY <2>2, <1>2, <1>3 DEF CallFits
<1>7. CASE g = Closed
  <2>1. n = 2
    <3>1. call[v].done < 2
      BY <1>2, <1>7, ProgramWrites DEF CallFits
    <3> QED
      BY <3>1, <1>3, <1>6
  <2>2. k = Put("limit", 0)
    BY <2>1, <1>4, <1>7, ProgramWrites
  <2>3. k.field = "limit" /\ k.val = 0
    BY <2>2 DEF Put
  <2>4. Len(Program(v)) = 2
    BY <1>7, ProgramWrites
  <2>5. ~(n < Len(Program(v)))
    BY <2>1, <2>4
  <2> QED
    BY <2>3, <2>5, <1>6, <1>7, Basics DEF Fields
<1>8. CASE g # Closed
  <2>1. g \in Translations
    BY <1>3, <1>8
  <2>2. /\ n = 2 => k.field = "lo" /\ k.val = Low(g.base)
        /\ n = 3 => k.field = "hi" /\ k.val = High(g.base)
        /\ n = 4 => k.field = "limit" /\ k.val = LimitOf(v, b, g)
    BY <1>4, <1>8, ProgramWrites DEF Put
  <2>3. Len(Program(v)) = 4
    BY <1>8, ProgramWrites
  <2>4. k.field \in Fields /\ k.val = Config(v, b, g)[k.field]
    BY <2>1, <2>2, <1>2, <1>6, ConfigWords DEF Fields
  <2>5. k.val \in Word
    BY <2>1, <2>4, <1>2, ConfigWords
  <2>6. n < Len(Program(v)) <=> n # 4
    BY <2>3, <1>6
  <2> QED
    BY <2>1, <2>2, <2>4, <2>5, <2>6, <1>6, <1>8
<1> QED
  BY <1>7, <1>8

LEMMA InvWriteData ==
  ASSUME WindowInv, NEW v \in VM, WriteData(v)
  PROVE  WindowInv'
<1> USE DEF WindowInv
<1> DEFINE u == Peer(v)
           n == call[v].done + 1
           b == call[v].bar
           g == call[v].goal
           k == NextWrite(v)
<1>1. call[v] # NoCall /\ Proceed(v) /\ UNCHANGED <<sel, acc, mapped>>
  BY DEF WriteData, Writing
<1>2. u \in VM /\ u # v /\ Peer(u) = v
  BY Basics
<1>3. CallFits(v) /\ call[v] \in Calls /\ b \in Bars /\ b \in BarIdx
  BY <1>1, Basics DEF TypeOK, CallOK
<1>4. /\ sel[v] = b /\ n \in 2 .. 4
      /\ k.field \in Fields /\ k.val \in Word
      /\ g = Closed => /\ ~(n < Len(Program(v)))
                       /\ k.field = "limit" /\ k.val = 0
      /\ g # Closed =>
           /\ g \in Translations
           /\ k.val = Config(v, b, g)[k.field]
           /\ n = 2 => k.field = "lo"
           /\ n = 3 => k.field = "hi"
           /\ n = 4 => k.field = "limit"
           /\ n < Len(Program(v)) <=> n # 4
  BY DataWritten
<1>5. /\ call' \in [VM -> Calls \cup {NoCall}] /\ tr' \in [VM -> [Bars -> Known]]
      /\ call'[u] = call[u] /\ tr'[v] = tr[v]
      /\ \A c \in Bars : c # b => tr'[u][c] = tr[u][c]
      /\ n < Len(Program(v)) =>
           /\ call'[v] = [call[v] EXCEPT !.done = n]
           /\ call'[v] \in Calls
           /\ tr' = tr
      /\ ~(n < Len(Program(v))) =>
           /\ call'[v] = NoCall
           /\ tr[u][b] = Moving => tr'[u][b] = g
           /\ tr[u][b] # Moving => tr'[u][b] = tr[u][b]
  BY <1>1, Proceeds
<1>6. tr[u][b] \in {Moving, Unknown}
  BY <1>3 DEF CallFits
<1>7. cfg' = [cfg EXCEPT ![u][b][k.field] = k.val]
  BY <1>4 DEF WriteData
<1>8. /\ cfg' \in [VM -> [BarIdx -> [Fields -> Word]]]
      /\ cfg'[v] = cfg[v]
      /\ \A c \in Bars : c # b => cfg'[u][c] = cfg[u][c]
      /\ cfg'[u][b][k.field] = k.val
      /\ \A f \in Fields : f # k.field => cfg'[u][b][f] = cfg[u][b][f]
  BY <1>2, <1>3, <1>4, <1>7, Basics DEF TypeOK
<1> HIDE DEF n, b, g, k
<1>9. TypeOK'
  BY <1>1, <1>5, <1>8 DEF TypeOK
<1>10. CallOK'
  <2>1. (call[v] # NoCall => CallFits(v))'
    <3> SUFFICES ASSUME call'[v] # NoCall PROVE CallFits(v)'
      OBVIOUS
    <3>1. n < Len(Program(v)) /\ g # Closed /\ g \in Translations /\ n \in {2, 3}
      BY <1>4, <1>5
    <3>2. call'[v].bar = b /\ call'[v].goal = g /\ call'[v].done = n /\ tr' = tr
      BY <1>3, <1>5, <3>1 DEF Calls, b, g
    <3>3. Program(v)' = Program(v)
      BY <3>2 DEF Program, SetTrans, ClearTrans, b, g
    <3>4. ASSUME tr[u][b] = Moving, NEW f \in WordsDone(n)
          PROVE  cfg'[u][b][f] = Config(v, b, g)[f]
      <4>1. \A x \in WordsDone(call[v].done) : cfg[u][b][x] = Config(v, b, g)[x]
        BY <1>3, <3>1, <3>4 DEF CallFits, b, g
      <4>2. CASE n = 2
        <5>1. f = "lo"
          BY <4>2 DEF WordsDone
        <5> QED
          BY <5>1, <4>2, <1>4, <1>8, <3>1
      <4>3. CASE n = 3
        <5>1. call[v].done = 2
          BY <4>3, <1>3 DEF n, Calls
        <5>2. f \in {"lo", "hi"} /\ WordsDone(call[v].done) = {"lo"}
          BY <4>3, <5>1 DEF WordsDone
        <5>3. k.field = "hi"
          BY <4>3, <1>4, <3>1
        <5> QED
          BY <4>1, <5>2, <5>3, <1>4, <1>8, <3>1 DEF Fields
      <4> QED
        BY <4>2, <4>3, <3>1
    <3> QED
      BY <1>1, <1>3, <1>4, <1>6, <3>1, <3>2, <3>3, <3>4 DEF CallFits, b, g
  <2>2. (call[u] # NoCall => CallFits(u))'
    <3>1. Program(u)' = Program(u)
      BY <1>5 DEF Program, SetTrans, ClearTrans
    <3>2. call'[u] = call[u] /\ tr'[v] = tr[v] /\ cfg'[v] = cfg[v] /\ sel' = sel
      BY <1>1, <1>5, <1>8
    <3>3. call[u] # NoCall => CallFits(u)
      BY <1>2 DEF CallOK
    <3> QED
      BY <1>2, <3>1, <3>2, <3>3 DEF CallFits
  <2> QED
    BY <2>1, <2>2 DEF CallOK
<1>11. WindowsOK'
  <2> SUFFICES ASSUME NEW w \in VM, NEW c \in Bars
               PROVE  BarFits(w, c)'
    BY DEF WindowsOK
  <2>1. BarFits(w, c)
    BY DEF WindowsOK
  <2>2. CASE w = v
    BY <2>1, <2>2, <1>2, <1>5, <1>8 DEF BarFits
  <2>3. CASE w = u /\ c # b
    <3>1. tr[u][c] # Moving
      BY <2>1, <2>3, <1>2 DEF BarFits, b
    <3> QED
      BY <2>1, <2>3, <3>1, <1>5, <1>8 DEF BarFits
  <2>4. CASE w = u /\ c = b /\ n < Len(Program(v))
    <3>1. tr'[u][b] \in {Moving, Unknown}
      BY <2>4, <1>5, <1>6
    <3>2. call'[v] # NoCall /\ call'[v].bar = b
      BY <2>4, <1>3, <1>5, Basics DEF Calls, b
    <3> QED
      BY <2>4, <3>1, <3>2, <1>2, KnownDistinct DEF BarFits
  <2>5. CASE w = u /\ c = b /\ ~(n < Len(Program(v)))
    <3>1. CASE tr[u][b] # Moving
      BY <2>5, <3>1, <1>5, <1>6, KnownDistinct DEF BarFits
    <3>2. CASE tr[u][b] = Moving /\ g = Closed
      BY <2>5, <3>2, <1>4, <1>5, <1>8, KnownDistinct DEF BarFits
    <3>3. CASE tr[u][b] = Moving /\ g # Closed
      <4>1. n = 4 /\ g \in Translations /\ k.field = "limit"
        BY <2>5, <3>3, <1>4
      <4>2. WordsDone(call[v].done) = {"lo", "hi"}
        <5>1. call[v].done = 3
          BY <4>1, <1>3 DEF n, Calls
        <5> QED
          BY <5>1 DEF WordsDone
      <4>3. \A f \in {"lo", "hi"} : cfg[u][b][f] = Config(v, b, g)[f]
        BY <4>2, <3>3, <1>3 DEF CallFits, b, g
      <4>4. \A f \in Fields : cfg'[u][b][f] = Config(v, b, g)[f]
        BY <4>1, <4>3, <3>3, <1>4, <1>8 DEF Fields
      <4>5. cfg'[u][b] \in [Fields -> Word] /\ Config(v, b, g) \in [Fields -> Word]
        BY <4>1, <1>2, <1>3, <1>8, ConfigWords
      <4>6. cfg'[u][b] = Config(v, b, g)
        BY <4>4, <4>5
      <4>7. tr'[u][b] = g
        BY <2>5, <3>3, <1>5
      <4> QED
        BY <2>5, <4>1, <4>6, <4>7, <1>2, KnownDistinct DEF BarFits
    <3> QED
      BY <3>1, <3>2, <3>3
  <2> QED
    BY <2>2, <2>3, <2>4, <2>5
<1>12. AccessOK'
  <2> SUFFICES ASSUME NEW w \in VM, acc[w] # NoAccess PROVE AccessFits(w)'
    BY <1>1 DEF AccessOK
  <2>1. AccessFits(w) /\ acc'[w] = acc[w]
    BY <1>1 DEF AccessOK
  <2>2. CASE w = v
    BY <2>1, <2>2, <1>5 DEF AccessFits
  <2>3. CASE w = u /\ acc[w].bar # b
    <3>1. acc[w].bar \in Bars
      BY Basics DEF TypeOK
    <3> QED
      BY <2>1, <2>3, <3>1, <1>5 DEF AccessFits
  <2>4. CASE w = u /\ acc[w].bar = b
    BY <2>1, <2>4, <1>6, KnownDistinct DEF AccessFits
  <2> QED
    BY <2>2, <2>3, <2>4
<1> QED
  BY <1>9, <1>10, <1>11, <1>12

LEMMA InvWriteOwn ==
  ASSUME WindowInv, NEW v \in VM, WriteOwn(v)
  PROVE  WindowInv'
<1> USE DEF WindowInv
<1> DEFINE u == Peer(v)
<1>1. PICK r \in OwnWrites[v] :
        /\ cfg' = [cfg EXCEPT ![v][r.bar][r.field] = r.val]
        /\ tr' = [tr EXCEPT ![v][r.bar] = Unknown]
  BY DEF WriteOwn
<1>2. acc[v] = NoAccess /\ UNCHANGED <<sel, call, acc, mapped>>
  BY DEF WriteOwn
<1>3. u \in VM /\ u # v /\ Peer(u) = v
  BY Basics
<1>4. r.bar \in Bars /\ r.bar \in BarIdx /\ r.field \in Fields /\ r.val \in Word
  BY RegistersAssumption, WindowsAssumption
<1>5. /\ tr' \in [VM -> [Bars -> Known]] /\ tr'[u] = tr[u] /\ tr'[v][r.bar] = Unknown
      /\ \A c \in Bars : c # r.bar => tr'[v][c] = tr[v][c]
  BY <1>1, <1>3, <1>4 DEF TypeOK, Known
<1>6. /\ cfg' \in [VM -> [BarIdx -> [Fields -> Word]]] /\ cfg'[u] = cfg[u]
      /\ \A c \in Bars : c # r.bar => cfg'[v][c] = cfg[v][c]
  BY <1>1, <1>3, <1>4, WindowsAssumption DEF TypeOK
<1>7. TypeOK'
  BY <1>2, <1>5, <1>6 DEF TypeOK
<1>8. CallOK'
  <2> SUFFICES ASSUME NEW w \in VM, call[w] # NoCall PROVE CallFits(w)'
    BY <1>2 DEF CallOK
  <2>1. CallFits(w) /\ call[w].bar \in Bars
    BY Basics DEF CallOK, TypeOK
  <2>2. Program(w)' = Program(w)
    BY <1>2 DEF Program, SetTrans, ClearTrans
  <2>3. CASE w = v
    BY <2>1, <2>2, <2>3, <1>2, <1>5, <1>6 DEF CallFits
  <2>4. CASE w = u /\ call[w].bar # r.bar
    <3>1. /\ tr'[v][call[w].bar] = tr[v][call[w].bar]
          /\ cfg'[v][call[w].bar] = cfg[v][call[w].bar]
      BY <2>1, <2>4, <1>5, <1>6
    <3> QED
      BY <2>1, <2>2, <2>4, <3>1, <1>2, <1>3 DEF CallFits
  <2>5. CASE w = u /\ call[w].bar = r.bar
    BY <2>1, <2>2, <2>5, <1>2, <1>3, <1>5, KnownDistinct DEF CallFits
  <2> QED
    BY <2>3, <2>4, <2>5
<1>9. WindowsOK'
  <2> SUFFICES ASSUME NEW w \in VM, NEW c \in Bars PROVE BarFits(w, c)'
    BY DEF WindowsOK
  <2>1. BarFits(w, c)
    BY DEF WindowsOK
  <2>2. CASE w = v /\ c = r.bar
    BY <2>2, <1>5, KnownDistinct DEF BarFits
  <2>3. CASE w = u \/ c # r.bar
    <3>1. tr'[w][c] = tr[w][c] /\ cfg'[w][c] = cfg[w][c]
      BY <2>3, <1>5, <1>6
    <3> QED
      BY <2>1, <3>1, <1>2 DEF BarFits
  <2> QED
    BY <2>2, <2>3
<1>10. AccessOK'
  <2> SUFFICES ASSUME NEW w \in VM, acc[w] # NoAccess PROVE AccessFits(w)'
    BY <1>2 DEF AccessOK
  <2> QED
    BY <1>2, <1>5 DEF AccessOK, AccessFits
<1> QED
  BY <1>7, <1>8, <1>9, <1>10

\* Steps that change neither translations nor calls disturb only AccessOK.
LEMMA CallsStand ==
  ASSUME WindowInv, UNCHANGED <<cfg, sel, call, tr>>
  PROVE  CallOK' /\ WindowsOK'
<1>1. \A v \in VM : Program(v)' = Program(v)
  BY DEF Program, SetTrans, ClearTrans
<1>2. CallOK'
  BY <1>1 DEF WindowInv, CallOK, CallFits
<1>3. WindowsOK'
  BY DEF WindowInv, WindowsOK, BarFits
<1> QED
  BY <1>2, <1>3

LEMMA InvAccess ==
  ASSUME WindowInv, NEW v \in VM, Access(v)
  PROVE  WindowInv'
<1> USE DEF WindowInv
<1>1. PICK a \in Touches[v] :
        acc' = [acc EXCEPT ![v] = [bar |-> a[1], off |-> a[2], copy |-> Zero,
                                   have |-> {}, under |-> tr[v][a[1]]]]
  BY DEF Access
<1>2. UNCHANGED <<cfg, sel, call, mapped, tr>>
  BY DEF Access
<1> DEFINE new == [bar |-> a[1], off |-> a[2], copy |-> Zero,
                   have |-> {}, under |-> tr[v][a[1]]]
<1>3. a[1] \in Bars /\ a[2] \in Offsets
  BY TouchesAssumption
<1>4. Zero \in [Fields -> Word]
  BY Basics DEF Zero
<1>5. new \in Accesses
  BY <1>3, <1>4 DEF Accesses, TypeOK
<1>6. acc' \in [VM -> Accesses \cup {NoAccess}] /\ acc'[v] = new
        /\ \A w \in VM : w # v => acc'[w] = acc[w]
  BY <1>1, <1>5 DEF TypeOK
<1>7. TypeOK'
  BY <1>2, <1>6 DEF TypeOK
<1>8. AccessFits(v)'
  BY <1>2, <1>6 DEF AccessFits
<1>9. AccessOK'
  BY <1>2, <1>6, <1>8 DEF AccessOK, AccessFits
<1> QED
  BY <1>2, <1>7, <1>9, CallsStand

LEMMA InvCopy ==
  ASSUME WindowInv, NEW v \in VM, Copy(v)
  PROVE  WindowInv'
<1> USE DEF WindowInv
<1>1. PICK f \in Fields \ acc[v].have :
        acc' = [acc EXCEPT ![v].have    = @ \cup {f},
                           ![v].copy[f] = cfg[v][acc[v].bar][f]]
  BY DEF Copy
<1>2. acc[v] # NoAccess /\ UNCHANGED <<cfg, sel, call, mapped, tr>>
  BY DEF Copy
<1>3. acc[v] \in Accesses /\ acc[v].bar \in Bars /\ acc[v].bar \in BarIdx
  BY <1>2, Basics DEF TypeOK
<1> DEFINE word == cfg[v][acc[v].bar][f]
           new == [acc[v] EXCEPT !.have = @ \cup {f}, !.copy[f] = word]
<1>4. word \in Word
  BY <1>3 DEF TypeOK
<1>5. new \in Accesses
  BY <1>3, <1>4 DEF Accesses
<1>6. acc' \in [VM -> Accesses \cup {NoAccess}] /\ acc'[v] = new
        /\ \A w \in VM : w # v => acc'[w] = acc[w]
  BY <1>1, <1>5 DEF TypeOK
<1>7. TypeOK'
  BY <1>2, <1>6 DEF TypeOK
<1>8. AccessFits(v)'
  <2>1. AccessFits(v) /\ BarFits(v, acc[v].bar)
    BY <1>2, <1>3 DEF AccessOK, WindowsOK
  <2>2. /\ acc'[v].bar = acc[v].bar /\ acc'[v].under = acc[v].under
        /\ acc'[v].have = acc[v].have \cup {f} /\ acc'[v].copy[f] = word
        /\ \A h \in Fields : h # f => acc'[v].copy[h] = acc[v].copy[h]
    BY <1>3, <1>6 DEF Accesses
  <2>3. acc[v].have \subseteq Fields /\ "limit" \in Fields
    BY <1>3 DEF Accesses, Fields
  <2>4. CASE acc[v].under = Closed
    <3>1. tr[v][acc[v].bar] = Closed /\ cfg[v][acc[v].bar]["limit"] = 0
      BY <2>1, <2>4 DEF AccessFits, BarFits
    <3>2. "limit" \in acc'[v].have => acc'[v].copy["limit"] = 0
      BY <2>1, <2>2, <2>3, <2>4, <3>1 DEF AccessFits
    <3> QED
      BY <2>2, <2>4, <3>1, <3>2, <1>2, KnownDistinct DEF AccessFits
  <2>5. CASE acc[v].under \in Translations
    <3> DEFINE conf == Config(Peer(v), acc[v].bar, acc[v].under)
    <3>1. tr[v][acc[v].bar] = acc[v].under /\ cfg[v][acc[v].bar] = conf
      BY <2>1, <2>5 DEF AccessFits, BarFits
    <3>2. \A h \in acc[v].have : acc[v].copy[h] = conf[h]
      BY <2>1, <2>5 DEF AccessFits
    <3>3. word = conf[f]
      BY <3>1
    <3> HIDE DEF conf
    <3>4. \A h \in acc'[v].have : acc'[v].copy[h] = conf[h]
      BY <2>2, <2>3, <3>2, <3>3
    <3> QED
      BY <2>2, <2>5, <3>1, <3>4, <1>2, KnownDistinct DEF AccessFits, conf
  <2>6. CASE acc[v].under \notin Translations /\ acc[v].under # Closed
    BY <2>2, <2>6 DEF AccessFits
  <2> QED
    BY <2>4, <2>5, <2>6
<1>9. AccessOK'
  <2> SUFFICES ASSUME NEW w \in VM, w # v, acc'[w] # NoAccess PROVE AccessFits(w)'
    BY <1>8 DEF AccessOK
  <2>1. acc'[w] = acc[w] /\ AccessFits(w)
    BY <1>6 DEF AccessOK
  <2> QED
    BY <2>1, <1>2 DEF AccessFits
<1> QED
  BY <1>2, <1>7, <1>9, CallsStand

LEMMA InvFinish ==
  ASSUME WindowInv, NEW v \in VM, Refuse(v) \/ Land(v)
  PROVE  WindowInv'
<1> USE DEF WindowInv
<1>1. acc' = [acc EXCEPT ![v] = NoAccess] /\ UNCHANGED <<cfg, sel, call, tr>>
  BY DEF Refuse, Land, Finish
<1>2. mapped' \in [VM -> BOOLEAN]
  BY DEF Refuse, Land, MapPeerShm, TypeOK
<1>3. acc' \in [VM -> Accesses \cup {NoAccess}] /\ acc'[v] = NoAccess
        /\ \A w \in VM : w # v => acc'[w] = acc[w]
  BY <1>1 DEF TypeOK
<1>4. TypeOK'
  BY <1>1, <1>2, <1>3 DEF TypeOK
<1>5. AccessOK'
  BY <1>1, <1>3 DEF AccessOK, AccessFits
<1> QED
  BY <1>1, <1>4, <1>5, CallsStand

LEMMA InvRestart ==
  ASSUME WindowInv, NEW v \in VM, Restart(v)
  PROVE  WindowInv'
<1> USE DEF WindowInv
<1> DEFINE u == Peer(v)
<1>1. /\ sel' = [sel EXCEPT ![v] = 0] /\ call' = [call EXCEPT ![v] = NoCall]
      /\ mapped' = [mapped EXCEPT ![v] = FALSE] /\ UNCHANGED cfg
      /\ tr' = [tr EXCEPT ![u] = [b \in Bars |-> IF @[b] = Closed THEN Closed ELSE Unknown]]
  BY DEF Restart
<1>2. u \in VM /\ u # v /\ Peer(u) = v
  BY Basics
<1>3. /\ acc' \in [VM -> Accesses \cup {NoAccess}] /\ acc'[v] = NoAccess
      /\ acc'[u] = acc[u] \/ (acc'[u] # NoAccess /\ acc'[u].under = Unknown)
      /\ acc[u] # NoAccess /\ acc[u].under # Closed => acc'[u] # NoAccess /\ acc'[u].under = Unknown
  <2> DEFINE void == acc[u] # NoAccess /\ acc[u].under # Closed
             new  == [acc[u] EXCEPT !.under = Unknown]
  <2>1. acc' = [w \in VM |-> IF w = v THEN NoAccess
                             ELSE IF void THEN new ELSE acc[u]]
    BY DEF Restart
  <2>2. CASE void
    <3>1. acc[u] \in Accesses
      BY <2>2, <1>2 DEF TypeOK
    <3>2. new \in Accesses /\ new.under = Unknown
      BY <3>1 DEF Accesses, Known
    <3> QED
      BY <2>1, <2>2, <3>2, <1>2, Basics DEF TypeOK
  <2>3. CASE ~void
    <3>1. acc[u] \in Accesses \cup {NoAccess}
      BY <1>2 DEF TypeOK
    <3>2. acc' = [w \in VM |-> IF w = v THEN NoAccess ELSE acc[u]]
      BY <2>1, <2>3
    <3>3. acc'[v] = NoAccess /\ acc'[u] = acc[u]
      BY <3>2, <1>2
    <3>4. acc' \in [VM -> Accesses \cup {NoAccess}]
      BY <3>1, <3>2
    <3> QED
      BY <2>3, <3>3, <3>4
  <2> QED
    BY <2>2, <2>3
<1>4. /\ tr' \in [VM -> [Bars -> Known]] /\ tr'[v] = tr[v]
      /\ \A b \in Bars : tr'[u][b] = IF tr[u][b] = Closed THEN Closed ELSE Unknown
  BY <1>1, <1>2 DEF TypeOK, Known
<1>5. call' \in [VM -> Calls \cup {NoCall}] /\ call'[v] = NoCall /\ call'[u] = call[u]
        /\ sel' \in [VM -> BarIdx] /\ sel'[u] = sel[u]
  BY <1>1, <1>2 DEF TypeOK, BarIdx
<1>6. TypeOK'
  BY <1>1, <1>3, <1>4, <1>5 DEF TypeOK
<1>7. CallOK'
  <2>1. Program(u)' = Program(u)
    BY <1>5 DEF Program, SetTrans, ClearTrans
  <2>2. call[u] # NoCall => CallFits(u)
    BY <1>2 DEF CallOK
  <2>3. (call[u] # NoCall => CallFits(u))'
    BY <2>1, <2>2, <1>1, <1>2, <1>4, <1>5 DEF CallFits
  <2> QED
    BY <2>3, <1>5 DEF CallOK
<1>8. WindowsOK'
  <2> SUFFICES ASSUME NEW w \in VM, NEW c \in Bars PROVE BarFits(w, c)'
    BY DEF WindowsOK
  <2>1. BarFits(w, c)
    BY DEF WindowsOK
  <2>2. CASE w = v
    BY <2>1, <2>2, <1>1, <1>2, <1>4, <1>5 DEF BarFits
  <2>3. CASE w = u
    BY <2>1, <2>3, <1>1, <1>4, KnownDistinct DEF BarFits
  <2> QED
    BY <2>2, <2>3
<1>9. AccessOK'
  <2>1. (acc[u] # NoAccess => AccessFits(u))'
    <3>1. CASE acc'[u] # NoAccess /\ acc'[u].under = Unknown
      BY <3>1, KnownDistinct DEF AccessFits
    <3>2. CASE acc'[u] = acc[u] /\ acc[u] # NoAccess /\ acc[u].under = Closed
      <4>1. AccessFits(u) /\ acc[u].bar \in Bars
        BY <3>2, <1>2, Basics DEF AccessOK, TypeOK
      <4> QED
        BY <3>2, <4>1, <1>4, KnownDistinct DEF AccessFits
    <3>3. CASE acc'[u] = acc[u] /\ acc[u] = NoAccess
      BY <3>3
    <3> QED
      BY <3>1, <3>2, <3>3, <1>3
  <2> QED
    BY <2>1, <1>3 DEF AccessOK
<1> QED
  BY <1>6, <1>7, <1>8, <1>9

LEMMA InvNext == WindowInv /\ [Next]_vars => WindowInv'
<1> SUFFICES ASSUME WindowInv, [Next]_vars PROVE WindowInv'
  OBVIOUS
<1>1. CASE Next
  <2> SUFFICES ASSUME NEW v \in VM,
                      \/ Begin(v) \/ WriteLutoff(v) \/ WriteData(v) \/ WriteOwn(v)
                      \/ Access(v) \/ Copy(v) \/ Refuse(v) \/ Land(v)
                      \/ Restart(v)
               PROVE  WindowInv'
    BY <1>1 DEF Next
  <2> QED
    BY InvBegin, InvWriteLutoff, InvWriteData, InvWriteOwn, InvAccess, InvCopy,
       InvFinish, InvRestart
<1>2. CASE UNCHANGED vars
  <2>1. CallOK' /\ WindowsOK'
    BY <1>2, CallsStand DEF vars
  <2>2. TypeOK' /\ AccessOK'
    BY <1>2 DEF vars, WindowInv, TypeOK, AccessOK, AccessFits
  <2> QED
    BY <2>1, <2>2 DEF WindowInv
<1> QED
  BY <1>1, <1>2

-----------------------------------------------------------------------------
(* The results.                                                            *)

\* Calls, translations and accesses keep together: a call in progress has
\* selected its BAR and stored the words before (idt_ntb_mw_set_trans), a BAR
\* no call is on holds the words of the call that returned last, and an access
\* nobody disturbed copied those (idt_bar_read, idt_bar_write).
THEOREM WindowInvariant == Spec => []WindowInv
<1>1. Init => WindowInv
  BY InvInit
<1>2. WindowInv /\ [Next]_vars => WindowInv'
  BY InvNext
<1> QED
  BY <1>1, <1>2, PTL DEF Spec

\* What the invariant says of an access that has copied all three words.
LEMMA InvSettled == WindowInv => SettledAccess
<1> SUFFICES ASSUME WindowInv, NEW v \in VM, Copied(v)
             PROVE  /\ acc[v].under = Closed => ~Passes(v)
                    /\ acc[v].under \in Translations =>
                         /\ Passes(v) => Target(v) = acc[v].under.base + acc[v].off
                         /\ SameAddress(acc[v].bar) =>
                              /\ acc[v].off < acc[v].under.size => Passes(v)
                              /\ acc[v].off > acc[v].under.size => ~Passes(v)
  BY DEF SettledAccess
<1> DEFINE b == acc[v].bar
           t == acc[v].under
           c == acc[v].copy
<1>1. AccessFits(v) /\ acc[v] \in Accesses /\ b \in Bars /\ acc[v].have = Fields
  BY Basics DEF WindowInv, TypeOK, AccessOK, Copied
<1>2. acc[v].off \in Nat /\ Peer(v) \in VM
  BY <1>1, WordAssumption, Basics DEF Accesses, Offsets
<1>3. ASSUME t = Closed PROVE ~Passes(v)
  BY <1>1, <1>3 DEF AccessFits, Passes, Fields
<1>4. ASSUME t \in Translations
      PROVE  /\ Passes(v) => Target(v) = t.base + acc[v].off
             /\ SameAddress(b) =>
                  /\ acc[v].off < t.size => Passes(v)
                  /\ acc[v].off > t.size => ~Passes(v)
  <2>1. \A f \in Fields : c[f] = Config(Peer(v), b, t)[f]
    BY <1>1, <1>4 DEF AccessFits
  <2>2. /\ c["limit"] = LimitOf(Peer(v), b, t)
        /\ c["lo"] = Low(t.base) /\ c["hi"] = High(t.base)
    BY <2>1, <1>1, <1>2, <1>4, ConfigWords DEF Fields
  <2>3. c["limit"] = BarAddr[Peer(v)][b] + t.size /\ c["limit"] # 0
    BY <2>2, <1>1, <1>2, <1>4, LimitBehind
  <2>4. t.size \in Nat /\ t.base \in 0 .. W * W - 1
    BY <1>4, WordAssumption DEF Translations
  <2>5. c["hi"] * W + c["lo"] = t.base
    BY <2>2, <2>4, Halves
  <2>6. Target(v) = t.base + acc[v].off
    BY <2>5 DEF Target
  <2>7. ASSUME SameAddress(b)
        PROVE  /\ acc[v].off < t.size => Passes(v)
               /\ acc[v].off > t.size => ~Passes(v)
    <3>1. BarAddr[v][b] = BarAddr[Peer(v)][b] /\ BarAddr[v][b] \in Nat
      BY <1>1, <2>7, BarsAssumption DEF SameAddress
    <3>. QED BY <2>3, <2>4, <3>1, <1>2 DEF Passes
  <2> QED
    BY <2>6, <2>7
<1> QED
  BY <1>3, <1>4

\* An access to a BAR left alone meanwhile goes by the call that returned
\* last: closed, it is refused (idt_bar_read reads 0, idt_bar_write drops the
\* data); open, where it passes it goes to its offset of the buffer the peer's
\* driver gave to idt_ntb_mw_set_trans, and where both guests gave the BAR one
\* address it passes inside the size and is refused beyond it.
THEOREM AccessesSettled == Spec => []SettledAccess
<1>1. WindowInv => SettledAccess
  BY InvSettled
<1> QED
  BY <1>1, WindowInvariant, PTL

=============================================================================
