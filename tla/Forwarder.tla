----------------------------- MODULE Forwarder -----------------------------
(***************************************************************************)
(* forward_sockets of IO::Socket::Forwarder: the loop around select that   *)
(* carries a session between two sockets, the client's and the virtual     *)
(* machine's in an L7R process, nxproxy's and the server's in a client.    *)
(*                                                                         *)
(* Bytes are counted.  What was read from socket s and not yet written to  *)
(* the other one is the buffer b1to2 or b2to1.  The code has a copy of     *)
(* every step for each socket; where the copies differ, so do the actions. *)
(***************************************************************************)
EXTENDS Integers

CONSTANTS
    SSL,          \* the sockets that are of type IO::Socket::SSL
    BufferSize,   \* io_buffer_size
    ChunkSize,    \* io_chunk_size
    Preload,      \* buffer_1to2 and buffer_2to1
    MaxBytes,     \* bound: the bytes that each peer sends
    Window,       \* bound: the bytes that fit in the network towards a peer
    Faults        \* what may go wrong, see FaultKinds

Sides == {1, 2}
Other(s) == 3 - s

\* "reset": a connection breaks; "renegotiate": SSL reads have to write first, and
\* SSL writes have to read first.
FaultKinds == {"reset", "renegotiate"}

ASSUME SizeAssumption ==
    /\ SSL \subseteq Sides
    /\ BufferSize \in Nat \ {0} /\ ChunkSize \in Nat \ {0} /\ Window \in Nat \ {0}
    /\ MaxBytes \in Nat
    /\ Preload \in [Sides -> 0..MaxBytes]
    /\ Faults \subseteq FaultKinds

VARIABLES
    sent,         \* the bytes that the peer of a socket has sent
    fin,          \* the peer of a socket: open, closed (it sends no more) or reset
    taken,        \* the bytes that the peer of a socket has received
    deciphered,   \* the bytes sent that have left the network; pending are those not read
    got,          \* the bytes read from a socket
    put,          \* the bytes read from a socket and written to the other one
    inClosed,     \* s1_in_closed, s2_in_closed
    outClosed,    \* s1_out_closed, s2_out_closed
    told,         \* the sockets whose peer is told that there is no more to come
    wtr, wtw,     \* ssl_wtr1, ssl_wtr2; ssl_wtw1, ssl_wtw2
    hello,        \* the SSL sockets with a message of the SSL protocol to read
    close,        \* %close
    todo,         \* the reads and writes that select has allowed in this pass
    pc

peerVars == <<sent, fin, taken>>
dataVars == <<deciphered, got, put>>
closeVars == <<inClosed, outClosed, told, close>>
sslVars == <<wtr, wtw, hello>>
vars == <<sent, fin, taken, deciphered, got, put, inClosed, outClosed, told, wtr, wtw, hello, close, todo, pc>>

Ends == {"in", "out"} \X Sides
Ops == {"r", "w"} \X Sides

TypeOK ==
    /\ sent \in [Sides -> 0..MaxBytes] /\ fin \in [Sides -> {"open", "closed", "reset"}]
    /\ taken \in [Sides -> 0..MaxBytes] /\ deciphered \in [Sides -> 0..MaxBytes]
    /\ got \in [Sides -> 0..MaxBytes] /\ put \in [Sides -> 0..MaxBytes]
    /\ inClosed \subseteq Sides /\ outClosed \subseteq Sides /\ told \subseteq Sides
    /\ wtr \subseteq SSL /\ wtw \subseteq SSL /\ hello \subseteq SSL
    /\ close \subseteq Ends /\ todo \subseteq Ops
    /\ pc \in {"loop", "ops", "done"}

\* _min
Lesser(m, n) == IF m < n THEN m ELSE n

\* length $b1to2 for s = 1, length $b2to1 for s = 2.
Length(s) == got[s] - put[s]

Pending(s) == deciphered[s] - got[s]

Init ==
    /\ sent = Preload /\ deciphered = Preload /\ got = Preload
    /\ put = [s \in Sides |-> 0] /\ taken = [s \in Sides |-> 0]
    /\ fin = [s \in Sides |-> "open"]
    /\ inClosed = {} /\ outClosed = {} /\ told = {} /\ wtr = {} /\ wtw = {} /\ hello = {}
    /\ close = {} /\ todo = {} /\ pc = "loop"

-----------------------------------------------------------------------------
(* The head of the loop.                                                   *)

\* Mutant: one pass too many.
WantReadFull == {s \in Sides : s \notin inClosed /\ Length(s) <= BufferSize}

\* wtr1, wtr2
WantRead == {s \in Sides : s \notin inClosed /\ Length(s) < BufferSize}

\* wtw1, wtw2
WantWrite == {s \in Sides : s \notin outClosed /\ Length(Other(s)) > 0}

\* Mutant: the bytes that the SSL layer keeps are left to select.
HasPendingNever(s) == FALSE

\* select does not see what the SSL layer has deciphered: that is read first.
HasPending(s) == s \in SSL /\ s \in WantRead /\ Pending(s) > 0

read_pending(s) ==
    /\ pc = "loop"
    /\ HasPending(s)
    /\ s = 2 => ~HasPending(1)
    /\ got' = [got EXCEPT ![s] = @ + Lesser(Pending(s), BufferSize)]
    /\ UNCHANGED <<peerVars, deciphered, put, closeVars, sslVars, todo, pc>>

Readable(s) == sent[s] > deciphered[s] \/ s \in hello \/ fin[s] # "open" \/ s \in inClosed
Writable(s) == put[Other(s)] - taken[s] < Window \/ fin[s] = "reset" \/ s \in told

\* Both outputs closed, or nothing to wait for.
exit_loop ==
    /\ pc = "loop"
    /\ \A s \in Sides : ~HasPending(s)
    /\ outClosed = Sides \/ WantRead \cup WantWrite = {}
    /\ pc' = "done"
    /\ told' = Sides
    /\ UNCHANGED <<peerVars, dataVars, inClosed, outClosed, close, sslVars, todo>>

\* A read of an SSL socket may wait for the socket to be writable, and a write for it
\* to be readable.
select ==
    LET bitsr == {s \in Sides : Readable(s) /\ ((s \in WantRead /\ s \notin wtw) \/ s \in wtr)}
        bitsw == {s \in Sides : Writable(s) /\ ((s \in WantWrite /\ s \notin wtr) \/ s \in wtw)}
    IN  /\ pc = "loop"
        /\ \A s \in Sides : ~HasPending(s)
        /\ outClosed # Sides
        /\ WantRead \cup WantWrite # {}
        /\ bitsr \cup bitsw # {}
        /\ todo' = {op \in Ops :
                       LET s == op[2]
                       IN  IF op[1] = "r"
                           THEN s \in WantRead /\ s \in (IF s \in wtw THEN bitsw ELSE bitsr)
                           ELSE s \in WantWrite /\ s \in (IF s \in wtr THEN bitsr ELSE bitsw)}
        /\ pc' = "ops"
        /\ UNCHANGED <<peerVars, dataVars, closeVars, sslVars>>

-----------------------------------------------------------------------------
(* The four operations of a pass, in their order.                          *)

Place(op) == op[2] + IF op[1] = "r" THEN 0 ELSE 2

Turn(op) ==
    /\ pc = "ops"
    /\ op \in todo
    /\ \A o \in todo : Place(op) <= Place(o)
    /\ todo' = todo \ {op}

\* sysread from a plain socket, or of a record from an SSL one: what does not fit in
\* the chunk is pending.
read_data(s) ==
    /\ Turn(<<"r", s>>)
    /\ sent[s] > got[s]
    /\ \E d \in (IF deciphered[s] > got[s] THEN {deciphered[s]} ELSE got[s] + 1 .. sent[s]) :
          LET n == Lesser(d - got[s], ChunkSize)
          IN  /\ got' = [got EXCEPT ![s] = @ + n]
              /\ deciphered' = [deciphered EXCEPT ![s] = IF s \in SSL THEN d ELSE got[s] + n]
    /\ wtw' = wtw \ {s} /\ hello' = hello \ {s}
    /\ UNCHANGED <<peerVars, put, closeVars, wtr, pc>>

\* SSL_WANT_READ: there was a message of the protocol, or a part of a record.
read_wants_read(s) ==
    /\ s \in SSL
    /\ Turn(<<"r", s>>)
    /\ sent[s] = got[s] /\ fin[s] = "open"
    /\ hello' = hello \ {s}
    /\ UNCHANGED <<peerVars, dataVars, closeVars, wtr, wtw, pc>>

\* SSL_WANT_WRITE
read_wants_write(s) ==
    /\ "renegotiate" \in Faults
    /\ s \in SSL \ wtw
    /\ Turn(<<"r", s>>)
    /\ sent[s] > got[s]
    /\ wtw' = wtw \cup {s}
    /\ UNCHANGED <<peerVars, dataVars, closeVars, wtr, hello, pc>>

\* Mutant: the condition is the wrong way round.
read_eof_swapped(s) ==
    /\ Turn(<<"r", s>>)
    /\ sent[s] = got[s]
    /\ fin[s] = "closed"
    /\ close' = IF s \in wtw THEN close \cup {<<"in", s>>} ELSE close
    /\ wtw' = wtw \ {s}
    /\ UNCHANGED <<peerVars, dataVars, inClosed, outClosed, told, wtr, hello, pc>>

\* Nothing read.
read_eof(s) ==
    /\ Turn(<<"r", s>>)
    /\ sent[s] = got[s]
    /\ fin[s] = "closed"
    /\ close' = IF s \in wtw THEN close ELSE close \cup {<<"in", s>>}
    /\ wtw' = wtw \ {s}
    /\ UNCHANGED <<peerVars, dataVars, inClosed, outClosed, told, wtr, hello, pc>>

\* An error of a plain socket closes it.  An unexpected error of SSL does not: for
\* socket 1 the code sets $close{slin}, a key that nothing looks at, and for socket 2
\* it sets none.
read_error(s) ==
    /\ Turn(<<"r", s>>)
    /\ sent[s] = got[s]
    /\ fin[s] = "reset"
    /\ close' = IF s \in SSL THEN close ELSE close \cup {<<"in", s>>}
    /\ UNCHANGED <<peerVars, dataVars, inClosed, outClosed, told, sslVars, pc>>

\* Mutant: the condition of socket 2 for socket 1.
LastWriteSwapped(s, left) ==
    /\ Other(s) \in inClosed
    /\ left > 0

\* After the write the output is closed when its input is and the buffer is exhausted;
\* the condition for socket 2 lacks the negation.
LastWrite(s, left) ==
    /\ Other(s) \in inClosed
    /\ IF s = 1 THEN left = 0 ELSE left > 0

write_data(s) ==
    LET o == Other(s)
    IN  /\ Turn(<<"w", s>>)
        /\ fin[s] # "reset"
        /\ put[o] - taken[s] < Window
        /\ \E n \in 1 .. Lesser(ChunkSize, Lesser(Length(o), Window - (put[o] - taken[s]))) :
              /\ put' = [put EXCEPT ![o] = @ + n]
              /\ IF LastWrite(s, Length(o) - n)
                 THEN /\ outClosed' = outClosed \cup {s}
                      /\ told' = IF s \in SSL THEN told ELSE told \cup {s}
                 ELSE UNCHANGED <<outClosed, told>>
        /\ wtr' = wtr \ {s} /\ hello' = hello \ {s}
        /\ UNCHANGED <<peerVars, deciphered, got, inClosed, close, wtw, pc>>

\* SSL_WANT_READ: the protocol has its turn, and the peer answers.
write_wants_read(s) ==
    /\ "renegotiate" \in Faults
    /\ s \in SSL \ wtr
    /\ Turn(<<"w", s>>)
    /\ fin[s] # "reset"
    /\ wtr' = wtr \cup {s} /\ hello' = hello \cup {s}
    /\ UNCHANGED <<peerVars, dataVars, closeVars, wtw, pc>>

write_error(s) ==
    /\ Turn(<<"w", s>>)
    /\ fin[s] = "reset"
    /\ close' = close \cup {<<"out", s>>}
    /\ UNCHANGED <<peerVars, dataVars, inClosed, outClosed, told, sslVars, pc>>

-----------------------------------------------------------------------------
(* The end of a pass.                                                      *)

\* Mutant: an output is closed although there is something left to write.
DependantsNow(c) ==
    LET whole == c \cup {e \in Ends : e[2] \in SSL /\ \E f \in c : f[2] = e[2]}
    IN  whole \cup {e \in Ends : e[1] = "out" /\ <<"in", Other(e[2])>> \in whole}

\* One round of the propagation of the close flag to dependants.
Dependants(c) ==
    LET whole == c \cup {e \in Ends : e[2] \in SSL /\ \E f \in c : f[2] = e[2]}
    IN  whole \cup {e \in Ends : /\ e[1] = "out"
                                /\ <<"in", Other(e[2])>> \in whole
                                /\ Length(Other(e[2])) = 0}

Propagated(c) == Dependants(Dependants(Dependants(c)))

close_sockets ==
    LET c == IF close = {} THEN {} ELSE Propagated(close)
        out == {s \in Sides : <<"out", s>> \in c}
    IN  /\ pc = "ops"
        /\ todo = {}
        /\ inClosed' = inClosed \cup {s \in Sides : <<"in", s>> \in c}
        /\ outClosed' = outClosed \cup out
        /\ told' = told \cup out
        /\ close' = {}
        /\ pc' = "loop"
        /\ UNCHANGED <<peerVars, dataVars, sslVars, todo>>

-----------------------------------------------------------------------------
(* The peers.                                                              *)

Send(s) ==
    /\ fin[s] = "open" /\ sent[s] < MaxBytes
    /\ sent' = [sent EXCEPT ![s] = @ + 1]
    /\ UNCHANGED <<fin, taken, dataVars, closeVars, sslVars, todo, pc>>

Receive(s) ==
    /\ fin[s] # "reset" /\ taken[s] < put[Other(s)]
    /\ taken' = [taken EXCEPT ![s] = @ + 1]
    /\ UNCHANGED <<sent, fin, dataVars, closeVars, sslVars, todo, pc>>

\* A peer ends its data, at any time.
Finish(s) ==
    /\ fin[s] = "open"
    /\ fin' = [fin EXCEPT ![s] = "closed"]
    /\ UNCHANGED <<sent, taken, dataVars, closeVars, sslVars, todo, pc>>

Reset(s) ==
    /\ "reset" \in Faults
    /\ fin[s] # "reset"
    /\ fin' = [fin EXCEPT ![s] = "reset"]
    /\ UNCHANGED <<sent, taken, dataVars, closeVars, sslVars, todo, pc>>

-----------------------------------------------------------------------------
Read(s) == read_data(s) \/ read_wants_write(s) \/ read_wants_read(s) \/ read_eof(s) \/ read_error(s)
Write(s) == write_data(s) \/ write_wants_read(s) \/ write_error(s)

Loop ==
    \/ select \/ exit_loop \/ close_sockets
    \/ \E s \in Sides : read_pending(s) \/ Read(s) \/ Write(s)

Next ==
    \/ Loop
    \/ \E s \in Sides : Send(s) \/ Receive(s) \/ Finish(s) \/ Reset(s)

Spec == Init /\ [][Next]_vars

\* The process that forwards runs on, and peers read what they are sent.
Fairness ==
    /\ WF_vars(Loop)
    /\ \A s \in Sides : WF_vars(Receive(s))

LiveSpec == Spec /\ Fairness

-----------------------------------------------------------------------------
(* Properties.                                                             *)

\* The buffers are bounded by the sizes: a peer that sends faster than the other one
\* reads cannot make the process grow.  A buffer below its limit takes one more chunk,
\* or what is pending in the SSL layer (lines 85 to 95 and 130).
BufferBounded ==
    \A s \in Sides :
       \/ Length(s) < BufferSize + ChunkSize
       \/ Length(s) < 2 * BufferSize /\ s \in SSL
       \/ Length(s) <= Preload[s]

\* A peer that goes on is told that there is no more only when the other one has ended
\* its data and all of it has been written, or has broken its connection (lines 192 to
\* 196 and 253 to 287).  SSL cannot end one direction alone: a peer of SSL that ends its
\* data, or whose partner is of SSL, ends the session.
Complete(s) ==
    s \in told /\ (fin[s] = "open" \/ (fin[s] = "closed" /\ SSL = {}))
       => LET o == Other(s) IN fin[o] = "reset" \/ (fin[o] = "closed" /\ put[o] = sent[o])

\* From socket 2 to socket 1.
BackComplete == Complete(1)

\* From socket 1 to socket 2.  It does not hold: README, section 6.
ForthComplete == Complete(2)

\* When the peer of socket 2 ends its data, the peer of socket 1 is told, provided that
\* it reads what it is sent and that no connection breaks.
BackTold == fin[2] = "closed" ~> (1 \in told \/ \E s \in Sides : fin[s] = "reset")

\* The same from socket 1 to socket 2, for connections that break as well.  It does
\* not hold: README, section 6.
ForthTold == fin[1] # "open" ~> (2 \in told \/ fin[2] = "reset")

\* When neither peer sends any more the process leaves the loop, and the L7R process
\* its session: L7RSession takes this for granted in forwarder_ends.
ForwarderEnds ==
    fin[1] = "closed" /\ fin[2] = "closed" ~> (pc = "done" \/ \E s \in Sides : fin[s] = "reset")

\* What a peer sends arrives, however it is cut into records and chunks and whatever
\* the SSL protocol needs in between, unless somebody ends the session.
AllArrives ==
    \A s \in Sides : sent[s] > put[s] ~> (put[s] = sent[s] \/ \E t \in Sides : fin[t] # "open")
=============================================================================
