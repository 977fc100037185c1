--------------------------- MODULE ForwarderProofs ---------------------------
(***************************************************************************)
(* Proofs about the socket forwarder, for any sizes of the buffers and the *)
(* chunks, any mixture of plain and SSL sockets and any faults: the        *)
(* buffers are bounded, and what comes from socket 2 is written to socket  *)
(* 1 before its peer is told that there is no more.                        *)
(***************************************************************************)
EXTENDS Forwarder, TLAPS

\* The counters of a direction follow each other.
Counted ==
    \A s \in Sides :
       /\ put[s] <= got[s] /\ got[s] <= deciphered[s] /\ deciphered[s] <= sent[s]
       /\ taken[s] <= put[Other(s)]
       /\ s \notin SSL => deciphered[s] = got[s]

\* A socket is read only when its buffer is below its limit.
TodoCause ==
    /\ \A s \in Sides : <<"r", s>> \in todo => Length(s) < BufferSize
    /\ pc # "ops" => todo = {}

\* The peer of socket 1 still takes part in the session.
GoesOn == fin[1] = "open" \/ (fin[1] = "closed" /\ SSL = {})

\* Everything from socket 2 is in the buffer, or has left it, or is lost.
Ended == fin[2] = "reset" \/ (fin[2] = "closed" /\ got[2] = sent[2])
Drained == fin[2] = "reset" \/ (fin[2] = "closed" /\ put[2] = sent[2])

\* What the operations of a pass put into %close.
CloseCause ==
    \A s \in Sides :
       /\ <<"in", s>> \in close => fin[s] # "open" /\ got[s] = sent[s]
       /\ <<"out", s>> \in close => fin[s] = "reset"

InCause == GoesOn /\ 2 \in inClosed => Ended
OutCause == GoesOn /\ (1 \in outClosed \/ 1 \in told) => Drained

IInv == TypeOK /\ Counted /\ TodoCause /\ BufferBounded /\ CloseCause /\ InCause /\ OutCause

\* The two sockets are each the other of the other.
LEMMA SidesFacts == Sides = {1, 2} /\ \A s \in Sides : Other(s) \in Sides /\ Other(s) # s
  BY DEF Sides, Other

\* The initial states satisfy the invariant.
LEMMA InvInit == Init => IInv
<1> SUFFICES ASSUME Init PROVE IInv
  OBVIOUS
<1> USE SizeAssumption
<1>1. TypeOK
  BY DEF Init, TypeOK, Sides
<1>2. Counted
  BY SidesFacts DEF Init, Counted
<1>3. BufferBounded
  BY DEF Init, BufferBounded, Length
<1>4. TodoCause /\ CloseCause /\ InCause /\ OutCause
  BY DEF Init, TodoCause, CloseCause, InCause, OutCause
<1> QED BY <1>1, <1>2, <1>3, <1>4 DEF IInv

\* A round of the propagation adds nothing to what is known of the causes.
Sound(c) ==
    /\ c \subseteq Ends
    /\ <<"in", 2>> \in c => Ended
    /\ <<"out", 2>> \in c /\ 2 \in SSL => Ended
    /\ <<"out", 1>> \in c => Drained
    /\ <<"in", 1>> \in c /\ SSL # {} => Drained

\* The propagation of %close marks nothing as closed without a reason.
LEMMA DependantsSound ==
    ASSUME IInv, NEW c, Sound(c)
    PROVE  Sound(Dependants(c))
<1> DEFINE whole == c \cup {e \in Ends : e[2] \in SSL /\ \E f \in c : f[2] = e[2]}
<1>0. /\ Drained => Ended
      /\ Ended /\ Length(2) = 0 => Drained
  BY DEF IInv, TypeOK, Counted, Drained, Ended, Length, Sides
<1>1. \A f \in c : f = <<"in", 1>> \/ f = <<"out", 1>> \/ f = <<"in", 2>> \/ f = <<"out", 2>>
  BY DEF Sound, Ends, Sides
<1>2. Sound(whole)
  <2>1. whole \subseteq Ends
    BY DEF Sound
  <2>2. ASSUME NEW s \in Sides, 
               <<"in", s>> \in whole \/ <<"out", s>> \in whole, s \in SSL
        PROVE  <<"in", s>> \in c \/ <<"out", s>> \in c
    BY <1>1, <2>2 DEF Sides
  <2>3. ASSUME NEW s \in Sides, NEW d \in {"in", "out"}, <<d, s>> \in whole, s \notin SSL
        PROVE  <<d, s>> \in c
    BY <2>3
  <2> HIDE DEF whole
  <2> QED BY <1>0, <2>1, <2>2, <2>3, SizeAssumption DEF Sound, Sides
<1> HIDE DEF whole
<1>3. Dependants(c) = whole \cup {e \in Ends : /\ e[1] = "out"
                                              /\ <<"in", Other(e[2])>> \in whole
                                              /\ Length(Other(e[2])) = 0}
  BY DEF Dependants, whole
<1>4. Dependants(c) \subseteq Ends
  BY <1>2, <1>3, SidesFacts DEF Sound, Ends
<1>5. <<"in", 2>> \in Dependants(c) => <<"in", 2>> \in whole
  BY <1>3
<1>6. <<"in", 1>> \in Dependants(c) => <<"in", 1>> \in whole
  BY <1>3
<1>7. <<"out", 2>> \in Dependants(c) => <<"out", 2>> \in whole \/ <<"in", 1>> \in whole
  BY <1>3 DEF Sides, Other
<1>8. <<"out", 1>> \in Dependants(c) => <<"out", 1>> \in whole \/ (<<"in", 2>> \in whole /\ Length(2) = 0)
  BY <1>3 DEF Sides, Other
<1> QED BY <1>0, <1>2, <1>4, <1>5, <1>6, <1>7, <1>8, SizeAssumption DEF Sound

\* Reading changes one counter of one direction.
LEMMA ReadStep ==
    ASSUME IInv, NEW s \in Sides, NEW n \in Nat, NEW d \in Nat,
           got[s] + n <= d, d <= sent[s], deciphered[s] <= d,
           got' = [got EXCEPT ![s] = @ + n], deciphered' = [deciphered EXCEPT ![s] = d],
           \/ Length(s) < BufferSize /\ n <= ChunkSize
           \/ Length(s) < BufferSize /\ n <= BufferSize /\ s \in SSL,
           s \in SSL \/ d = got[s] + n, todo' = todo \ {<<"r", s>>}, pc' = pc,
           UNCHANGED <<peerVars, put, closeVars>>
    PROVE  TodoCause' /\ Counted' /\ BufferBounded' /\ CloseCause' /\ InCause' /\ OutCause'
                    /\ got' \in [Sides -> 0..MaxBytes] /\ deciphered' \in [Sides -> 0..MaxBytes]
<1> USE SizeAssumption DEF IInv, TypeOK, peerVars, closeVars
<1>1. Counted'
  BY SidesFacts DEF Counted
<1>2. BufferBounded'
  BY DEF BufferBounded, Length, Counted
<1>5. TodoCause'
  <2>2. pc' # "ops" => todo' = {}
    BY DEF TodoCause
  <2> SUFFICES ASSUME NEW t \in Sides, <<"r", t>> \in todo' PROVE (Length(t) < BufferSize)'
    BY <2>2 DEF TodoCause
  <2>1. t # s /\ <<"r", t>> \in todo
    OBVIOUS
  <2> QED BY <2>1 DEF TodoCause, Length
<1>3. CloseCause' /\ InCause' /\ OutCause'
  BY SidesFacts DEF CloseCause, InCause, OutCause, Counted, GoesOn, Ended, Drained
<1>4. got' \in [Sides -> 0..MaxBytes] /\ deciphered' \in [Sides -> 0..MaxBytes]
  BY DEF Counted
<1> QED BY <1>1, <1>2, <1>3, <1>4, <1>5

\* Every step keeps the invariant.
LEMMA InvStep == IInv /\ [Next]_vars => IInv'
<1> SUFFICES ASSUME IInv, [Next]_vars PROVE IInv'
  OBVIOUS
<1> USE SizeAssumption
<1>0. /\ TypeOK /\ Counted /\ TodoCause /\ BufferBounded /\ CloseCause /\ InCause /\ OutCause
      /\ \A s \in Sides : sent[s] \in Nat /\ got[s] \in Nat /\ put[s] \in Nat /\ deciphered[s] \in Nat
                          /\ taken[s] \in Nat
  BY DEF IInv, TypeOK
<1>1. ASSUME NEW s \in Sides, read_pending(s) PROVE IInv'
  <2> DEFINE n == Lesser(Pending(s), BufferSize)
  <2>1. n \in Nat /\ n <= BufferSize /\ got[s] + n <= deciphered[s] /\ Length(s) < BufferSize /\ s \in SSL
    BY <1>0, <1>1 DEF read_pending, HasPending, WantRead, Pending, Lesser, Counted
  <2>2. deciphered' = [deciphered EXCEPT ![s] = deciphered[s]] /\ got' = [got EXCEPT ![s] = @ + n]
    BY <1>0, <1>1 DEF read_pending, TypeOK
  <2>3. UNCHANGED <<peerVars, put, closeVars>> /\ todo' = todo /\ pc' = pc
    BY <1>1 DEF read_pending
  <2>6. deciphered[s] \in Nat /\ deciphered[s] <= sent[s] /\ deciphered[s] <= deciphered[s]
    BY <1>0 DEF Counted
  <2>7. todo = {}
    BY <1>0, <1>1 DEF read_pending, TodoCause
  <2> HIDE DEF n
  <2>4. /\ TodoCause' /\ Counted' /\ BufferBounded' /\ CloseCause' /\ InCause' /\ OutCause'
        /\ got' \in [Sides -> 0..MaxBytes] /\ deciphered' \in [Sides -> 0..MaxBytes]
    BY <2>1, <2>2, <2>3, <2>6, <2>7, ReadStep
  <2>5. TypeOK'
    BY <1>0, <1>1, <2>4 DEF TypeOK, read_pending, peerVars, closeVars, sslVars
  <2> QED BY <2>4, <2>5 DEF IInv
<1>2. ASSUME NEW s \in Sides, read_data(s) PROVE IInv'
  <2>1. PICK d \in (IF deciphered[s] > got[s] THEN {deciphered[s]} ELSE got[s] + 1 .. sent[s]) :
          LET n == Lesser(d - got[s], ChunkSize)
          IN  /\ got' = [got EXCEPT ![s] = @ + n]
              /\ deciphered' = [deciphered EXCEPT ![s] = IF s \in SSL THEN d ELSE got[s] + n]
    BY <1>2 DEF read_data
  <2> DEFINE n == Lesser(d - got[s], ChunkSize)
             e == IF s \in SSL THEN d ELSE got[s] + n
  <2>2. d \in Nat /\ n \in Nat /\ n <= ChunkSize /\ got[s] + n <= d /\ d <= sent[s] /\ deciphered[s] <= d
    BY <1>0, <2>1 DEF Counted, Lesser
  <2>3. e \in Nat /\ got[s] + n <= e /\ e <= sent[s] /\ deciphered[s] <= e /\ (s \in SSL \/ e = got[s] + n)
    BY <1>0, <2>2 DEF Counted
  <2>4. /\ got' = [got EXCEPT ![s] = @ + n] /\ deciphered' = [deciphered EXCEPT ![s] = e]
        /\ Length(s) < BufferSize
        /\ todo' = todo \ {<<"r", s>>} /\ pc' = pc /\ UNCHANGED <<peerVars, put, closeVars>>
    BY <1>0, <1>2, <2>1 DEF read_data, Turn, TodoCause
  <2> HIDE DEF n, e
  <2>5. /\ TodoCause' /\ Counted' /\ BufferBounded' /\ CloseCause' /\ InCause' /\ OutCause'
        /\ got' \in [Sides -> 0..MaxBytes] /\ deciphered' \in [Sides -> 0..MaxBytes]
    BY <2>2, <2>3, <2>4, ReadStep
  <2>6. TypeOK'
    BY <1>0, <1>2, <2>4, <2>5 DEF TypeOK, read_data, peerVars, closeVars
  <2> QED BY <2>5, <2>6 DEF IInv
<1>3. ASSUME NEW s \in Sides, read_wants_write(s) \/ read_wants_read(s) PROVE IInv'
  BY <1>0, <1>3 DEF IInv, TypeOK, Counted, TodoCause, BufferBounded, CloseCause, InCause, OutCause, Length,
     GoesOn, Ended, Drained, read_wants_write, read_wants_read, Turn, peerVars, dataVars, closeVars
<1>4. ASSUME NEW s \in Sides, read_eof(s) \/ read_error(s) \/ write_error(s) PROVE IInv'
  <2>1. /\ UNCHANGED <<peerVars, dataVars, inClosed, outClosed, told, wtr, hello, pc>>
        /\ todo' \subseteq todo /\ wtw' \subseteq wtw
    BY <1>4 DEF read_eof, read_error, write_error, Turn, sslVars
  <2>2. \/ close' = close
        \/ close' = close \cup {<<"in", s>>} /\ fin[s] # "open" /\ got[s] = sent[s]
        \/ close' = close \cup {<<"out", s>>} /\ fin[s] = "reset"
    BY <1>4 DEF read_eof, read_error, write_error
  <2>3. TypeOK' /\ CloseCause'
    BY <1>0, <2>1, <2>2 DEF TypeOK, CloseCause, Ends, peerVars, dataVars
  <2>4. Counted' /\ TodoCause' /\ BufferBounded' /\ InCause' /\ OutCause'
    BY <1>0, <2>1 DEF Counted, TodoCause, BufferBounded, InCause, OutCause, Length, GoesOn, Ended, Drained,
       peerVars, dataVars
  <2> QED BY <2>3, <2>4 DEF IInv
<1>5. ASSUME NEW s \in Sides, write_data(s) PROVE IInv'
  <2> DEFINE o == Other(s)
  <2>1. PICK n \in 1 .. Lesser(ChunkSize, Lesser(Length(o), Window - (put[o] - taken[s]))) :
              /\ put' = [put EXCEPT ![o] = @ + n]
              /\ IF LastWrite(s, Length(o) - n)
                 THEN /\ outClosed' = outClosed \cup {s}
                      /\ told' = IF s \in SSL THEN told ELSE told \cup {s}
                 ELSE UNCHANGED <<outClosed, told>>
    BY <1>5 DEF write_data
  <2>2. n \in Nat /\ put[o] + n <= got[o] /\ o \in Sides /\ o # s
    BY <1>0, <2>1, SidesFacts DEF Lesser, Length, Counted, TypeOK
  <2>3. /\ UNCHANGED <<peerVars, deciphered, got, inClosed, close, wtw, pc>>
        /\ todo' = todo \ {<<"w", s>>} /\ wtr' \subseteq wtr /\ hello' \subseteq hello
    BY <1>5 DEF write_data, Turn
  <2>4. TypeOK'
    BY <1>0, <2>1, <2>2, <2>3 DEF TypeOK, Counted, peerVars
  <2>5. Counted' /\ BufferBounded'
    BY <1>0, <2>1, <2>2, <2>3, SidesFacts DEF Counted, BufferBounded, Length, TypeOK, peerVars
  <2>6. TodoCause' /\ CloseCause' /\ InCause'
    BY <1>0, <2>1, <2>2, <2>3 DEF TodoCause, Length, CloseCause, InCause, GoesOn, Ended, TypeOK, peerVars
  <2>7. OutCause'
    <3>1. CASE s = 2
      BY <1>0, <2>1, <2>2, <2>3, <3>1 DEF OutCause, GoesOn, Drained, peerVars, Other, TypeOK, Sides
    <3>2. CASE s = 1 /\ ~LastWrite(s, Length(o) - n)
      <4>1. o = 2
        BY <3>2 DEF Other
      <4>2. ASSUME GoesOn, 1 \in outClosed \/ 1 \in told PROVE Drained'
        BY <1>0, <2>1, <2>2, <2>3, <4>1, <4>2 DEF OutCause, Drained, Counted, peerVars, TypeOK, Sides
      <4> QED BY <2>1, <2>3, <3>2, <4>2 DEF OutCause, GoesOn, peerVars
    <3>3. CASE s = 1 /\ LastWrite(s, Length(o) - n)
      <4>1. o = 2 /\ 2 \in inClosed /\ Length(2) = n
        BY <1>0, <2>1, <2>2, <3>3 DEF Other, LastWrite, Length, Sides
      <4>2. put'[2] = got[2]
        BY <1>0, <2>1, <2>2, <4>1 DEF Length, TypeOK, Sides
      <4>3. GoesOn => Drained'
        BY <1>0, <2>3, <4>1, <4>2 DEF InCause, Ended, Drained, peerVars
      <4> QED BY <2>3, <4>3 DEF OutCause, GoesOn, peerVars
    <3> QED BY <3>1, <3>2, <3>3 DEF Sides
  <2> QED BY <2>4, <2>5, <2>6, <2>7 DEF IInv
<1>6. ASSUME NEW s \in Sides, write_wants_read(s) PROVE IInv'
  BY <1>0, <1>6 DEF IInv, TypeOK, Counted, TodoCause, BufferBounded, CloseCause, InCause, OutCause, Length,
     GoesOn, Ended, Drained, write_wants_read, Turn, peerVars, dataVars, closeVars
<1>7. ASSUME select PROVE IInv'
  <2>1. UNCHANGED <<peerVars, dataVars, closeVars, sslVars>> /\ todo' \subseteq Ops /\ pc' = "ops"
    BY <1>7 DEF select
  <2>2. \A s \in Sides : <<"r", s>> \in todo' => s \in WantRead
    BY <1>7 DEF select
  <2>3. TodoCause'
    BY <1>0, <2>1, <2>2 DEF TodoCause, WantRead, Length, dataVars
  <2>4. TypeOK' /\ Counted' /\ BufferBounded' /\ CloseCause' /\ InCause' /\ OutCause'
    BY <1>0, <2>1 DEF TypeOK, Counted, BufferBounded, CloseCause, InCause, OutCause, Length,
       GoesOn, Ended, Drained, peerVars, dataVars, closeVars, sslVars
  <2> QED BY <2>3, <2>4 DEF IInv
<1>8. ASSUME exit_loop PROVE IInv'
  <2>1. TypeOK' /\ Counted' /\ TodoCause' /\ BufferBounded' /\ CloseCause' /\ InCause'
    BY <1>0, <1>8 DEF exit_loop, TypeOK, Counted, TodoCause, BufferBounded, CloseCause, InCause, Length,
       GoesOn, Ended, peerVars, dataVars, sslVars
  <2>2. GoesOn => Drained
    <3>1. CASE 1 \in outClosed
      BY <1>0, <3>1 DEF OutCause
    <3>2. CASE 1 \notin outClosed
      <4>1. WantRead = {} /\ WantWrite = {}
        BY <1>8, <3>2 DEF exit_loop, Sides
      <4>2. ~(Length(2) > 0)
        BY <3>2, <4>1 DEF WantWrite, Sides, Other
      <4>3. Length(2) = 0 /\ got[2] = put[2]
        BY <1>0, <4>2 DEF Length, Counted, Sides
      <4>4. 2 \in inClosed
        BY <4>1, <4>3 DEF WantRead, Sides
      <4> QED BY <1>0, <4>3, <4>4 DEF InCause, Ended, Drained
    <3> QED BY <3>1, <3>2
  <2>3. OutCause'
    BY <1>8, <2>2 DEF exit_loop, OutCause, GoesOn, Drained, peerVars, dataVars
  <2> QED BY <2>1, <2>3 DEF IInv
<1>9. ASSUME close_sockets PROVE IInv'
  <2> DEFINE c == IF close = {} THEN {} ELSE Propagated(close)
             out == {s \in Sides : <<"out", s>> \in c}
  <2>1. /\ inClosed' = inClosed \cup {s \in Sides : <<"in", s>> \in c}
        /\ outClosed' = outClosed \cup out
        /\ told' = told \cup out
        /\ close' = {} /\ todo = {} /\ pc' = "loop"
        /\ UNCHANGED <<peerVars, dataVars, sslVars, todo>>
    BY <1>9 DEF close_sockets
  <2>2. GoesOn => Sound(c)
    <3> SUFFICES ASSUME GoesOn PROVE Sound(c)
      OBVIOUS
    <3>1. Sound(close)
      BY <1>0 DEF Sound, CloseCause, GoesOn, Ended, Drained, TypeOK, Sides
    <3>2. Sound(Propagated(close))
      BY <3>1, DependantsSound DEF Propagated
    <3>3. Sound({})
      BY DEF Sound
    <3> QED BY <3>2, <3>3
  <2> HIDE DEF c
  <2>3. TypeOK' /\ Counted' /\ TodoCause' /\ BufferBounded' /\ CloseCause'
    BY <1>0, <2>1 DEF TypeOK, Counted, TodoCause, BufferBounded, CloseCause, Length, peerVars, dataVars, sslVars
  <2>4. InCause' /\ OutCause'
    BY <1>0, <2>1, <2>2 DEF InCause, OutCause, Sound, GoesOn, Ended, Drained, peerVars, dataVars, Sides
  <2> QED BY <2>3, <2>4 DEF IInv
<1>10. ASSUME NEW s \in Sides, Send(s) \/ Receive(s) \/ Finish(s) \/ Reset(s) PROVE IInv'
  <2>1. /\ UNCHANGED <<dataVars, closeVars, sslVars, todo, pc>>
    BY <1>10 DEF Send, Receive, Finish, Reset
  <2>9. TypeOK'
    <3>1. sent' \in [Sides -> 0..MaxBytes] /\ fin' \in [Sides -> {"open", "closed", "reset"}]
      BY <1>0, <1>10 DEF Send, Receive, Finish, Reset, TypeOK
    <3>2. taken' \in [Sides -> 0..MaxBytes]
      <4>1. CASE Receive(s)
        <5>1. put[Other(s)] \in 0..MaxBytes
          BY <1>0, SidesFacts DEF TypeOK
        <5> QED BY <1>0, <4>1, <5>1 DEF Receive, TypeOK
      <4>2. CASE taken' = taken
        BY <1>0, <4>2 DEF TypeOK
      <4> QED BY <1>10, <4>1, <4>2 DEF Send, Finish, Reset
    <3> QED BY <1>0, <2>1, <3>1, <3>2 DEF TypeOK, dataVars, closeVars, sslVars
  <2>10. \A t \in Sides : sent[t] <= sent'[t] /\ taken'[t] <= put[Other(t)]
    BY <1>0, <1>10, SidesFacts DEF Send, Receive, Finish, Reset, TypeOK, Counted
  <2>2. Counted'
    BY <1>0, <2>1, <2>9, <2>10, SidesFacts DEF Counted, TypeOK, dataVars
  <2>3. TodoCause' /\ BufferBounded'
    BY <1>0, <2>1 DEF TodoCause, BufferBounded, Length, dataVars
  <2>4. \A t \in Sides : /\ fin[t] # "open" => fin'[t] \in {fin[t], "reset"} /\ sent'[t] = sent[t]
                         /\ fin[t] = "reset" => fin'[t] = "reset"
    BY <1>0, <1>10 DEF Send, Receive, Finish, Reset, TypeOK
  <2>5. CloseCause'
    BY <1>0, <2>1, <2>4 DEF CloseCause, dataVars, closeVars
  <2>6. GoesOn' => GoesOn
    BY <1>0, <2>4 DEF GoesOn, TypeOK, Sides
  <2>7. (Ended => Ended') /\ (Drained => Drained')
    BY <2>1, <2>4 DEF Ended, Drained, dataVars, Sides
  <2>8. InCause' /\ OutCause'
    BY <1>0, <2>1, <2>6, <2>7 DEF InCause, OutCause, closeVars
  <2> QED BY <2>2, <2>3, <2>5, <2>8, <2>9 DEF IInv
<1>11. ASSUME UNCHANGED vars PROVE IInv'
  BY <1>0, <1>11 DEF IInv, TypeOK, Counted, TodoCause, BufferBounded, CloseCause, InCause, OutCause, Length,
     GoesOn, Ended, Drained, vars
<1> QED BY <1>1, <1>2, <1>3, <1>4, <1>5, <1>6, <1>7, <1>8, <1>9, <1>10, <1>11 DEF Next, Loop, Read, Write

\* The invariant holds in every state.
THEOREM Invariant == Spec => []IInv
<1>1. Init => IInv
  BY InvInit
<1>2. IInv /\ [Next]_vars => IInv'
  BY InvStep
<1> QED BY <1>1, <1>2, PTL DEF Spec

\* The state of the forwarder has its type: no counter exceeds what the peers have sent.
THEOREM TypeCorrect == Spec => []TypeOK
<1>1. IInv => TypeOK
  BY DEF IInv
<1> QED BY <1>1, Invariant, PTL

\* The buffers of forward_sockets stay below the sizes it is given plus one read.
THEOREM BuffersAlwaysBounded == Spec => []BufferBounded
<1>1. IInv => BufferBounded
  BY DEF IInv
<1> QED BY <1>1, Invariant, PTL

\* What comes from socket 2 reaches socket 1 before the peer is told that there is no
\* more, whatever the state of the other direction.
THEOREM BackAlwaysComplete == Spec => []BackComplete
<1>1. IInv => BackComplete
  BY DEF IInv, OutCause, GoesOn, Drained, BackComplete, Complete, Other
<1> QED BY <1>1, Invariant, PTL
==============================================================================
