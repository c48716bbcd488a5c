------------------------ MODULE ServerChannel_proofs ------------------------
(***************************************************************************)
(* The channel implements a stream of messages, whatever the servers, the  *)
(* size of a message and the way the bytes arrive.                         *)
(*                                                                         *)
(* Messages begin at the multiples of Size.  By StreamInv the device is    *)
(* got bytes into the message after those it has handled.  A part that     *)
(* does not complete it meets the beginning of at most this message, and   *)
(* only if nothing of it was read; so does the part that completes it.     *)
(***************************************************************************)
EXTENDS ServerChannel, TLAPS

-----------------------------------------------------------------------------
(* Arithmetic of beginnings.                                               *)

LEMMA Cancel ==
  ASSUME NEW a \in Int, NEW b \in Int, a * Size < b * Size
  PROVE  a < b
<1>1. Size \in Int /\ Size > 0
  BY SizeAssumption
<1>2. SUFFICES ASSUME a >= b PROVE FALSE
  OBVIOUS
<1>3. PICK d \in Nat : a = b + d
  <2>1. a - b \in Nat /\ a = b + (a - b)
    BY <1>2
  <2> QED BY <2>1
<1>4. a * Size = b * Size + d * Size
  BY <1>1, <1>3
<1>5. d * Size >= 0
  BY <1>1
<1>6. b * Size \in Int /\ d * Size \in Int
  BY <1>1
<1> QED BY <1>4, <1>5, <1>6

\* A beginning among the bytes after got of message L + 1, up to its end, is
\* that of this message, and got is 0.
LEMMA BeginningIn ==
  ASSUME NEW L \in Nat, NEW g \in 0 .. Size - 1, NEW k \in Nat, g + k <= Size,
         NEW n \in Int, (n - 1) * Size \in L * Size + g .. L * Size + g + k - 1
  PROVE  n = L + 1 /\ g = 0 /\ k > 0
<1>1. Size \in Int /\ Size > 0
  BY SizeAssumption
<1> DEFINE N == (n - 1) * Size
           B == L * Size
<1>2. N \in Int /\ B \in Int /\ g \in Int /\ k \in Int
  BY <1>1
<1>3. B + g <= N /\ N <= B + g + k - 1
  BY <1>1, <1>2
<1>4. (L + 1) * Size = B + Size /\ (L - 1) * Size = B - Size
  BY <1>1
<1>5. n - 1 < L + 1
  <2>1. (n - 1) * Size < (L + 1) * Size
    <3> HIDE DEF B
    <3> QED BY <1>1, <1>2, <1>3, <1>4
  <2> QED BY <2>1, Cancel
<1>6. L - 1 < n - 1
  <2>1. (L - 1) * Size < (n - 1) * Size
    <3> HIDE DEF B
    <3> QED BY <1>1, <1>2, <1>3, <1>4
  <2> QED BY <2>1, Cancel
<1>7. n = L + 1
  BY <1>5, <1>6
<1>8. N = B
  BY <1>7
<1>9. g = 0 /\ k > 0
  <2> HIDE DEF N, B
  <2> QED BY <1>1, <1>2, <1>3, <1>8
<1> QED BY <1>7, <1>9

-----------------------------------------------------------------------------
(* What a read brings.                                                     *)

\* Sessions are sequences of records.
LEMMA SessionType ==
  ASSUME session \in Sessions
  PROVE  /\ Len(session) \in Nat /\ DOMAIN session = 1 .. Len(session)
         /\ \A n \in DOMAIN session : session[n].val \in Int
         /\ Fds \subseteq 1 .. Len(session)
<1>1. session \in Seq([val : Int, fd : BOOLEAN])
  BY SessionAssumption
<1>2. Len(session) \in Nat /\ DOMAIN session = 1 .. Len(session)
  BY <1>1
<1>3. \A n \in DOMAIN session : session[n].val \in Int
  <2> DEFINE S == [val : Int, fd : BOOLEAN]
  <2>1. session \in Seq(S)
    BY <1>1
  <2> HIDE DEF S
  <2>2. \A n \in DOMAIN session : session[n] \in S
    BY <2>1
  <2> QED BY <2>2 DEF S
<1>4. Fds \subseteq DOMAIN session
  BY DEF Fds
<1> QED BY <1>2, <1>3, <1>4

\* The next k bytes, within the message, bring its descriptor if they begin it.
LEMMA ArrivingIs ==
  ASSUME StreamInv, NEW k \in Nat, got + k <= Size
  PROVE  Arriving(k) = IF got = 0 /\ k > 0 /\ Len(handled) + 1 \in Fds
                       THEN {Len(handled) + 1} ELSE {}
<1> DEFINE L == Len(handled)
<1>1. L \in Nat /\ got \in 0 .. Size - 1 /\ taken = L * Size + got
  BY DEF StreamInv
<1> HIDE DEF L
<1>2. ASSUME NEW n \in Arriving(k)
      PROVE  n = L + 1 /\ got = 0 /\ k > 0 /\ n \in Fds
  <2>1. n \in Fds /\ (n - 1) * Size \in L * Size + got .. L * Size + got + k - 1
    BY <1>1, <1>2 DEF Arriving
  <2>2. n \in Int
    BY <2>1, SessionType DEF StreamInv
  <2> QED BY <1>1, <2>1, <2>2, BeginningIn
<1>3. ASSUME got = 0, k > 0, L + 1 \in Fds
      PROVE  L + 1 \in Arriving(k)
  <2>1. Size \in Int
    BY SizeAssumption
  <2>2. ((L + 1) - 1) * Size = L * Size /\ L * Size \in Int
    BY <1>1, <2>1
  <2>3. L * Size \in taken .. taken + k - 1
    <3> DEFINE B == L * Size
    <3>1. B \in Int /\ taken = B
      BY <1>1, <1>3, <2>2
    <3> HIDE DEF B
    <3>2. B \in taken .. taken + k - 1
      BY <1>3, <3>1
    <3> QED BY <3>2 DEF B
  <2>4. ((L + 1) - 1) * Size \in taken .. taken + k - 1
    BY <2>2, <2>3
  <2> QED BY <1>3, <2>4 DEF Arriving
<1> QED BY <1>2, <1>3 DEF L

\* A read of at least one byte leaves the character device with the descriptor
\* of the message it is in.
LEMMA NewestIs ==
  ASSUME StreamInv, NEW k \in Nat \ {0}, got + k <= Size
  PROVE  Newest(k) = IF Len(handled) + 1 \in Fds THEN Len(handled) + 1 ELSE NoFd
<1> DEFINE L == Len(handled)
<1>1. L + 1 \in Int
  BY DEF StreamInv
<1>2. Arriving(k) = IF got = 0 /\ L + 1 \in Fds THEN {L + 1} ELSE {}
  BY ArrivingIs
<1>3. chrFd = IF got > 0 /\ L + 1 \in Fds THEN L + 1 ELSE NoFd
  BY DEF StreamInv
<1>4. got \in Nat
  BY SizeAssumption DEF StreamInv
<1> HIDE DEF L
<1>5. Max({L + 1}) = L + 1
  BY <1>1 DEF Max
<1> QED BY <1>2, <1>3, <1>4, <1>5 DEF Newest, L

\* A whole message is the one after those handled, with its descriptor, and the
\* server has sent it.
LEMMA WholeIs ==
  ASSUME StreamInv, Read(Rest)
  PROVE  /\ Len(handled) + 1 \in 1 .. sent
         /\ [val |-> Word, fd |-> Fd] = Msg(Len(handled) + 1)
         /\ taken' = (Len(handled) + 1) * Size /\ taken' <= sent * Size
<1> DEFINE L == Len(handled)
<1>1. /\ L \in Nat /\ got \in 0 .. Size - 1 /\ taken = L * Size + got
      /\ sent \in 0 .. Len(session) /\ Size \in Nat \ {0}
  BY SizeAssumption DEF StreamInv
<1>2. Len(session) \in Nat /\ DOMAIN session = 1 .. Len(session)
  BY SessionType DEF StreamInv
<1> HIDE DEF L
<1>3. L * Size \in Int /\ (L + 1) * Size = L * Size + Size /\ sent * Size \in Int
  BY <1>1, <1>2
<1>4. taken + Rest = L * Size + Size
  <2> DEFINE B == L * Size
  <2>1. B \in Int /\ taken = B + got
    BY <1>1, <1>3
  <2> HIDE DEF B
  <2>2. taken + Rest = B + Size
    BY <1>1, <2>1 DEF Rest
  <2> QED BY <2>2 DEF B
<1>5. taken' = (L + 1) * Size /\ taken' <= sent * Size
  BY <1>3, <1>4 DEF Read
<1>6. L + 1 \in 1 .. sent
  <2> DEFINE B == L * Size
             C == sent * Size
  <2>1. B \in Int /\ C \in Int /\ B + Size <= C
    BY <1>3, <1>5
  <2> HIDE DEF B, C
  <2>2. B < C
    BY <1>1, <2>1
  <2>3. L * Size < sent * Size
    BY <2>2 DEF B, C
  <2>4. L < sent
    BY <1>1, <1>2, <2>3, Cancel
  <2> QED BY <1>1, <1>2, <2>4
<1>7. (taken + Rest) - Size = L * Size
  <2> DEFINE B == L * Size
             T == taken + Rest
  <2>1. B \in Int /\ T = B + Size
    BY <1>3, <1>4
  <2> HIDE DEF B, T
  <2>2. T - Size = B
    BY <1>1, <2>1
  <2> QED BY <2>2 DEF B, T
<1>8. \A n \in DOMAIN session : Buffered(n) <=> n = L + 1
  <2>1. ASSUME NEW n \in DOMAIN session, Buffered(n)
        PROVE  n = L + 1
    <3>1. n \in Int /\ (n - 1) * Size = L * Size
      BY <1>2, <1>7, <2>1 DEF Buffered
    <3> DEFINE B == L * Size
    <3>2. B \in Int /\ (n - 1) * Size = B
      BY <1>3, <3>1
    <3> HIDE DEF B
    <3>3. (n - 1) * Size \in B + 0 .. B + 0 + 1 - 1
      BY <3>2
    <3>4. (n - 1) * Size \in L * Size + 0 .. L * Size + 0 + 1 - 1
      BY <3>3 DEF B
    <3>5. 0 \in 0 .. Size - 1 /\ 1 \in Nat /\ 0 + 1 <= Size
      BY <1>1
    <3> QED BY <1>1, <3>1, <3>4, <3>5, BeginningIn
  <2>2. Buffered(L + 1)
    <3>1. ((L + 1) - 1) * Size = L * Size
      <4>1. (L + 1) - 1 = L
        BY <1>1
      <4> QED BY <4>1
    <3> QED BY <1>7, <3>1 DEF Buffered
  <2> QED BY <2>1, <2>2
<1>9. L + 1 \in DOMAIN session
  BY <1>1, <1>2, <1>6
<1>10. Word = session[L + 1].val
  BY <1>8, <1>9 DEF Word
<1>11. Rest \in Nat \ {0} /\ got + Rest <= Size
  BY <1>1 DEF Rest
<1>12. Fd = IF L + 1 \in Fds THEN L + 1 ELSE NoFd
  BY <1>11, NewestIs DEF Fd, L
<1> QED BY <1>5, <1>6, <1>10, <1>12 DEF Msg, L

-----------------------------------------------------------------------------
(* The steps.                                                              *)

Msgs == [val : Int, fd : Nat]

LEMMA MsgType ==
  ASSUME session \in Sessions, NEW n \in DOMAIN session
  PROVE  Msg(n) \in Msgs
<1>1. session[n].val \in Int /\ n \in Nat
  BY SessionType
<1> QED BY <1>1 DEF Msg, Msgs, NoFd

LEMMA InitStream == Init => StreamInv
<1> SUFFICES ASSUME Init PROVE StreamInv
  OBVIOUS
<1>1. /\ session \in Sessions /\ sent = 0 /\ taken = 0 /\ got = 0
      /\ chrFd = NoFd /\ handled = <<>>
  BY DEF Init
<1>2. Len(session) \in Nat /\ Size \in Nat \ {0}
  BY <1>1, SessionType, SizeAssumption
<1>3. handled \in Seq([val : Int, fd : Nat]) /\ Len(handled) = 0
  BY <1>1
<1>4. taken = Len(handled) * Size + got /\ taken <= sent * Size
  BY <1>1, <1>2, <1>3
<1> QED BY <1>1, <1>2, <1>3, <1>4 DEF StreamInv

\* What the server does not send and the device does not read stays.
LEMMA StreamStays ==
  ASSUME StreamInv, UNCHANGED <<session, sent, stream, handled>>
  PROVE  StreamInv'
BY DEF StreamInv, stream, Fds, Msg

LEMMA PartKeeps ==
  ASSUME StreamInv, NEW k \in 1 .. Size, ReadPart(k)
  PROVE  StreamInv' /\ UNCHANGED <<session, sent, handled>>
<1> DEFINE L == Len(handled)
<1>1. /\ L \in Nat /\ got \in 0 .. Size - 1 /\ taken = L * Size + got
      /\ Size \in Nat \ {0} /\ k \in Nat \ {0}
  BY SizeAssumption DEF StreamInv
<1>2. /\ k <= Size - got /\ got + k # Size
      /\ taken' = taken + k /\ taken' <= sent * Size
      /\ got' = got + k /\ chrFd' = Newest(k)
      /\ UNCHANGED <<session, sent, handled>>
  BY DEF ReadPart, Read, Wanted, server
<1>3. L' = L /\ Fds' = Fds /\ \A n \in 1 .. L : Msg(n)' = Msg(n)
  BY <1>2 DEF Fds, Msg
<1> HIDE DEF L
<1>4. got' \in 0 .. Size - 1 /\ got' > 0 /\ got + k <= Size
  BY <1>1, <1>2
<1>5. taken' = L * Size + got'
  <2> DEFINE B == L * Size
  <2>1. B \in Int /\ taken = B + got
    BY <1>1
  <2> HIDE DEF B
  <2>2. taken' = B + got'
    BY <1>1, <1>2, <2>1
  <2> QED BY <2>2 DEF B
<1>6. chrFd' = IF L + 1 \in Fds THEN L + 1 ELSE NoFd
  BY <1>1, <1>2, <1>4, NewestIs DEF L
<1> QED BY <1>2, <1>3, <1>4, <1>5, <1>6 DEF StreamInv, L

\* The sequence of the messages sent.
LEMMA SentSeq ==
  ASSUME session \in Sessions, NEW m \in 0 .. Len(session)
  PROVE  /\ [n \in 1 .. m |-> Msg(n)] \in Seq(Msgs)
         /\ Len([n \in 1 .. m |-> Msg(n)]) = m
<1>1. m \in Nat /\ 1 .. m \subseteq DOMAIN session
  BY SessionType
<1>2. \A n \in 1 .. m : Msg(n) \in Msgs
  BY <1>1, MsgType
<1> QED BY <1>1, <1>2

LEMMA RestHandles ==
  ASSUME StreamInv, NEW fs, ReadRest(fs)
  PROVE  StreamInv' /\ Stream!Handle
<1> DEFINE L == Len(handled)
           S == [n \in 1 .. sent |-> Msg(n)]
<1>1. /\ session \in Sessions /\ sent \in 0 .. Len(session)
      /\ handled \in Seq(Msgs) /\ L \in Nat /\ Size \in Nat \ {0}
      /\ \A n \in 1 .. L : handled[n] = Msg(n)
  BY SizeAssumption DEF StreamInv, Msgs
<1>2. /\ Read(Rest) /\ got' = 0 /\ chrFd' = NoFd
      /\ handled' = Append(handled, [val |-> Word, fd |-> Fd])
      /\ UNCHANGED <<session, sent>>
  BY DEF ReadRest, server
<1>3. /\ L + 1 \in 1 .. sent /\ [val |-> Word, fd |-> Fd] = Msg(L + 1)
      /\ taken' = (L + 1) * Size /\ taken' <= sent * Size
  BY <1>2, WholeIs
<1>4. Msg(L + 1) \in Msgs
  BY <1>1, <1>3, SessionType, MsgType
<1>5. /\ handled' = Append(handled, Msg(L + 1))
      /\ handled' \in Seq(Msgs) /\ Len(handled') = L + 1
      /\ \A n \in 1 .. L + 1 : handled'[n] = Msg(n)
  <2> DEFINE m == Msg(L + 1)
  <2>1. handled' = Append(handled, m) /\ m \in Msgs
    BY <1>2, <1>3, <1>4
  <2> HIDE DEF m
  <2>2. /\ handled' \in Seq(Msgs) /\ Len(handled') = L + 1
        /\ \A n \in 1 .. L : handled'[n] = handled[n]
        /\ handled'[L + 1] = m
    BY <1>1, <2>1
  <2>3. \A n \in 1 .. L + 1 : n \in 1 .. L \/ n = L + 1
    BY <1>1
  <2> QED BY <1>1, <2>1, <2>2, <2>3 DEF m
<1>6. Fds' = Fds /\ (\A n : Msg(n)' = Msg(n))
  BY <1>2 DEF Fds, Msg
<1>7. StreamInv'
  <2> DEFINE K == Len(handled')
  <2>1. K = L + 1
    BY <1>5
  <2>2. got' \in 0 .. Size - 1 /\ ~ (got' > 0)
    BY <1>1, <1>2
  <2>3. taken' = K * Size + got'
    <3> DEFINE B == K * Size
    <3>1. B \in Int /\ taken' = B
      BY <1>1, <1>3, <2>1
    <3> HIDE DEF B
    <3>2. taken' = B + got'
      BY <1>2, <3>1
    <3> QED BY <3>2 DEF B
  <2>4. handled' \in Seq([val : Int, fd : Nat])
    BY <1>5 DEF Msgs
  <2>5. \A n \in 1 .. K : handled'[n] = Msg(n)'
    BY <1>5, <1>6, <2>1
  <2> QED BY <1>1, <1>2, <1>3, <1>6, <2>2, <2>3, <2>4, <2>5 DEF StreamInv
<1>8. Len(S) = sent /\ S[L + 1] = Msg(L + 1)
  BY <1>1, <1>3, SentSeq
<1>9. S' = S
  BY <1>2, <1>6
<1> HIDE DEF S
<1>10. L < Len(S) /\ handled' = Append(handled, S[L + 1]) /\ S' = S
  BY <1>1, <1>3, <1>5, <1>8, <1>9
<1> QED BY <1>7, <1>10 DEF Stream!Handle, S

LEMMA SendSends ==
  ASSUME StreamInv, ServerSend
  PROVE  StreamInv' /\ Stream!Send
<1>1. /\ session \in Sessions /\ sent \in 0 .. Len(session) /\ Len(session) \in Nat
      /\ Size \in Nat \ {0} /\ taken <= sent * Size /\ taken \in Int
  <2>1. session \in Sessions
    BY DEF StreamInv
  <2>2. Size \in Nat \ {0} /\ Len(handled) \in Nat /\ got \in Nat
    BY SizeAssumption DEF StreamInv
  <2>3. Len(handled) * Size \in Int
    BY <2>2
  <2>4. taken \in Int
    BY <2>2, <2>3 DEF StreamInv
  <2> QED BY <2>1, <2>2, <2>4, SessionType DEF StreamInv
<1>2. /\ sent < Len(session) /\ sent' = sent + 1
      /\ UNCHANGED <<session, taken, got, chrFd, handled>>
  BY DEF ServerSend, stream
<1>3. Fds' = Fds /\ (\A n : Msg(n)' = Msg(n))
  BY <1>2 DEF Fds, Msg
<1>4. taken' <= sent' * Size
  <2>1. (sent + 1) * Size = sent * Size + Size /\ sent * Size \in Int
    BY <1>1
  <2> DEFINE B == sent * Size
  <2>2. B \in Int /\ taken <= B /\ sent' * Size = B + Size
    BY <1>1, <1>2, <2>1
  <2> HIDE DEF B
  <2> QED BY <1>1, <1>2, <2>2
<1>5. sent' \in 0 .. Len(session)
  BY <1>1, <1>2
<1>6. StreamInv'
  BY <1>2, <1>3, <1>4, <1>5 DEF StreamInv
<1> DEFINE S(m) == [n \in 1 .. m |-> Msg(n)]
<1>7. /\ S(sent) \in Seq(Msgs) /\ Len(S(sent)) = sent
      /\ S(sent + 1) \in Seq(Msgs) /\ Len(S(sent + 1)) = sent + 1
  BY <1>1, <1>2, SentSeq
<1>8. S(sent)' = S(sent + 1)
  BY <1>2, <1>3
<1>9. SubSeq(S(sent + 1), 1, sent) = S(sent)
  <2>1. SubSeq(S(sent + 1), 1, sent) = [n \in 1 .. sent |-> S(sent + 1)[n]]
    <3>1. sent \in Nat /\ sent <= sent + 1
      BY <1>1
    <3> DEFINE T == S(sent + 1)
    <3>2. T \in Seq(Msgs) /\ Len(T) = sent + 1
      BY <1>7
    <3> HIDE DEF T
    <3>3. /\ Len(SubSeq(T, 1, sent)) = sent
          /\ SubSeq(T, 1, sent) \in Seq(Msgs)
          /\ \A n \in 1 .. sent : SubSeq(T, 1, sent)[n] = T[n]
      BY <3>1, <3>2
    <3>4. SubSeq(T, 1, sent) = [n \in 1 .. sent |-> SubSeq(T, 1, sent)[n]]
      BY <3>3
    <3>5. SubSeq(T, 1, sent) = [n \in 1 .. sent |-> T[n]]
      BY <3>3, <3>4
    <3> QED BY <3>5 DEF T
  <2>2. \A n \in 1 .. sent : S(sent + 1)[n] = Msg(n)
    BY <1>1
  <2> QED BY <2>1, <2>2
<1>10. Stream!Send
  <2> DEFINE T == S(sent)
  <2>1. Len(T') = Len(T) + 1 /\ SubSeq(T', 1, Len(T)) = T /\ UNCHANGED handled
    BY <1>2, <1>7, <1>8, <1>9
  <2> QED BY <2>1 DEF Stream!Send
<1> QED BY <1>6, <1>10

\* Each step of the channel is one of the stream, or none.
LEMMA StreamStep ==
  ASSUME StreamInv, [Next]_vars
  PROVE  /\ StreamInv'
         /\ [Stream!Send \/ Stream!Handle]_<<[n \in 1 .. sent |-> Msg(n)], handled>>
<1>1. ASSUME UNCHANGED <<session, sent, handled>>
      PROVE  UNCHANGED <<[n \in 1 .. sent |-> Msg(n)], handled>>
  BY <1>1 DEF Msg, Fds
<1>2. CASE ServerSend
  BY <1>2, SendSends
<1>3. CASE UNCHANGED vars \/ ServerClose \/ ReadNothing \/ ReadFails \/ Exit
  <2>1. UNCHANGED <<session, sent, stream, handled>>
    BY <1>3 DEF vars, server, ServerClose, ReadNothing, ReadFails, Exit
  <2> QED BY <1>1, <2>1, StreamStays
<1>4. ASSUME NEW k \in 1 .. Size, ReadPart(k)
      PROVE  StreamInv' /\ UNCHANGED <<session, sent, handled>>
  BY <1>4, PartKeeps
<1>5. ASSUME ReadWhole
      PROVE  \E fs : ReadRest(fs)
  BY <1>5 DEF ReadWhole, SetupVersion, SetupId, RejectMsg, RefuseShm, MapShm,
     RefuseFd, Connect, Disconnect, RefuseGone
<1>6. CASE ReadWhole
  BY <1>5, <1>6, RestHandles
<1> QED BY <1>1, <1>2, <1>3, <1>4, <1>6 DEF Next, Receive

-----------------------------------------------------------------------------
(* The theorems.                                                           *)

\* The bytes read make up the messages handled and the buffer, and the character
\* device holds the descriptor of a begun message only, wherever the stream is
\* cut and whatever the server sends.
THEOREM StreamInvariant == Spec => []StreamInv
<1>1. StreamInv /\ [Next]_vars => StreamInv'
  BY StreamStep
<1> QED BY <1>1, InitStream, PTL DEF Spec

\* The device handles the messages the server sent, in order, each with its own
\* descriptor.
THEOREM ChannelIsStream == Spec => MessageStreamSpec
<1>1. Init => Stream!Init
  <2> SUFFICES ASSUME Init PROVE Stream!Init
    OBVIOUS
  <2>1. sent = 0 /\ handled = <<>>
    BY DEF Init
  <2>2. [n \in 1 .. sent |-> Msg(n)] = <<>>
    BY <2>1
  <2> QED BY <2>1, <2>2 DEF Stream!Init
<1>2. StreamInv /\ [Next]_vars
        => [Stream!Send \/ Stream!Handle]_<<[n \in 1 .. sent |-> Msg(n)], handled>>
  BY StreamStep
<1> QED BY <1>1, <1>2, StreamInvariant, PTL DEF Spec, MessageStreamSpec, Stream!Spec

=============================================================================
