----------------------------- MODULE AgentTunnel -----------------------------
(***************************************************************************)
(* The agent's end of the WebSocket.  Send puts a message into one buffer  *)
(* that outlives connections; Run dials one connection after the other,    *)
(* and each has a write loop of its own that takes messages from that      *)
(* buffer.  connect returns on the first error of its loops and does not   *)
(* wait for them: the write loop of a connection that is already closed    *)
(* may still be running when the next connection's loop starts.            *)
(***************************************************************************)
EXTENDS Naturals, Sequences

CONSTANTS
    SendChSize,     \* capacity of sendCh
    MaxMessages,    \* bound: messages handed to Send
    MaxErrors       \* bound: connections that end

ASSUME TunnelAssumption ==
    SendChSize \in Nat \ {0} /\ MaxMessages \in Nat /\ MaxErrors \in Nat

Dials == 1 .. (MaxErrors + 1)

VARIABLES
    handed,    \* messages handed to Send so far; the n-th one is number n
    sendCh,    \* the send buffer
    state,     \* each connection, in the order in which Run dials them
    writer,    \* connections whose write loop has not returned
    sock,      \* what was written to each connection and not read yet
    got,       \* what the server has read from each connection
    dropped,   \* messages refused by a full buffer
    lost       \* messages taken from the buffer that never arrive

tunnelVars == <<handed, sendCh, state, writer, sock, got, dropped, lost>>

Message == 1 .. MaxMessages
Elements(s) == {s[i] : i \in 1 .. Len(s)}

TunnelTypeOK ==
    /\ handed \in 0 .. MaxMessages
    /\ sendCh \in Seq(Message) /\ Len(sendCh) <= SendChSize
    /\ state \in [Dials -> {"new", "open", "severed", "cancelled", "closed"}]
    /\ writer \subseteq Dials
    /\ sock \in [Dials -> Seq(Message)] /\ got \in [Dials -> Seq(Message)]
    /\ dropped \subseteq Message /\ lost \subseteq Message

TunnelInit ==
    /\ handed = 0 /\ sendCh = <<>>
    /\ state = [c \in Dials |-> "new"] /\ writer = {}
    /\ sock = [c \in Dials |-> <<>>] /\ got = [c \in Dials |-> <<>>]
    /\ dropped = {} /\ lost = {}

(* A Send whose buffer grows. *)
SendPastCapacity ==
    /\ handed < MaxMessages /\ handed' = handed + 1
    /\ sendCh' = Append(sendCh, handed + 1)
    /\ UNCHANGED <<state, writer, sock, got, dropped, lost>>

(* Send, called by the scan goroutine, the log handler, the heartbeat loop *)
(* and the prober: never blocks.                                           *)
TunnelSend ==
    /\ handed < MaxMessages /\ handed' = handed + 1
    /\ IF Len(sendCh) < SendChSize
       THEN sendCh' = Append(sendCh, handed + 1) /\ UNCHANGED dropped
       ELSE dropped' = dropped \cup {handed + 1} /\ UNCHANGED sendCh
    /\ UNCHANGED <<state, writer, sock, got, lost>>

(* A connection that starts no write loop. *)
DialReadOnly(c) ==
    /\ state[c] = "new" /\ \A b \in Dials : b < c => state[b] = "closed"
    /\ state' = [state EXCEPT ![c] = "open"]
    /\ UNCHANGED <<handed, sendCh, writer, sock, got, dropped, lost>>

(* connect: Run dials when the connection before it is closed. *)
Dial(c) ==
    /\ state[c] = "new" /\ \A b \in Dials : b < c => state[b] = "closed"
    /\ state' = [state EXCEPT ![c] = "open"]
    /\ writer' = writer \cup {c}
    /\ UNCHANGED <<handed, sendCh, sock, got, dropped, lost>>

Take(c) == c \in writer /\ sendCh # <<>>

(* A write loop that takes a message off the buffer only after the write   *)
(* has returned: an error that comes late leaves a message that arrived.   *)
WriteThenTake(c) ==
    /\ c \in writer /\ sendCh # <<>> /\ state[c] \in {"open", "severed"}
    /\ sock' = [sock EXCEPT ![c] = Append(@, Head(sendCh))]
    /\ writer' = writer \ {c}
    /\ state' = [state EXCEPT ![c] = "cancelled"]
    /\ UNCHANGED <<handed, sendCh, got, dropped, lost>>

(* Its context may be cancelled already: select picks either case. *)
WriteMessage(c) ==
    /\ Take(c) /\ state[c] # "closed"
    /\ sendCh' = Tail(sendCh)
    /\ IF state[c] = "open"
       THEN sock' = [sock EXCEPT ![c] = Append(@, Head(sendCh))] /\ UNCHANGED lost
       ELSE lost' = lost \cup {Head(sendCh)} /\ UNCHANGED sock
    /\ UNCHANGED <<handed, state, writer, got, dropped>>

(* WriteJSON fails, always on a closed connection: the message is lost and *)
(* the loop returns its error.                                             *)
WriteFails(c) ==
    /\ Take(c) /\ state[c] \in {"severed", "closed"}
    /\ sendCh' = Tail(sendCh)
    /\ lost' = lost \cup {Head(sendCh)}
    /\ writer' = writer \ {c}
    /\ state' = [state EXCEPT ![c] = IF @ = "severed" THEN "cancelled" ELSE @]
    /\ UNCHANGED <<handed, sock, got, dropped>>

(* The other case of its select. *)
WriterStops(c) ==
    /\ c \in writer /\ state[c] \in {"cancelled", "closed"}
    /\ writer' = writer \ {c}
    /\ UNCHANGED <<handed, sendCh, state, sock, got, dropped, lost>>

(* The network or the server ends the connection; what the server had not  *)
(* read is lost, and so is what is written from now on.                    *)
Sever(c) ==
    /\ state[c] = "open" /\ c <= MaxErrors
    /\ state' = [state EXCEPT ![c] = "severed"]
    /\ lost' = lost \cup Elements(sock[c])
    /\ sock' = [sock EXCEPT ![c] = <<>>]
    /\ UNCHANGED <<handed, sendCh, writer, got, dropped>>

(* readLoop returns an error, and connect cancels the other loops. *)
ReadLoopFails(c) ==
    /\ state[c] = "severed"
    /\ state' = [state EXCEPT ![c] = "cancelled"]
    /\ UNCHANGED <<handed, sendCh, writer, sock, got, dropped, lost>>

(* The deferred conn.Close of connect. *)
CloseConn(c) ==
    /\ state[c] = "cancelled"
    /\ state' = [state EXCEPT ![c] = "closed"]
    /\ UNCHANGED <<handed, sendCh, writer, sock, got, dropped, lost>>

(* The connection's handler at the server reads a message. *)
ServerReads(c) ==
    /\ sock[c] # <<>>
    /\ got' = [got EXCEPT ![c] = Append(@, Head(sock[c]))]
    /\ sock' = [sock EXCEPT ![c] = Tail(@)]
    /\ UNCHANGED <<handed, sendCh, state, writer, dropped, lost>>

Goroutine(c) ==
    \/ Dial(c) \/ WriteMessage(c) \/ WriteFails(c) \/ WriterStops(c)
    \/ ReadLoopFails(c) \/ CloseConn(c) \/ ServerReads(c)

TunnelNext == TunnelSend \/ \E c \in Dials : Goroutine(c) \/ Sever(c)

TunnelSpec == TunnelInit /\ [][TunnelNext]_tunnelVars
(***************************************************************************)
(* Properties                                                              *)
(***************************************************************************)

Channel ==
    INSTANCE LossyChannel WITH
        Capacity <- SendChSize,
        waiting  <- Elements(sendCh) \cup UNION {Elements(sock[c]) : c \in Dials},
        arrived  <- UNION {Elements(got[c]) : c \in Dials},
        gone     <- dropped \cup lost

(* Through any number of connections, a message arrives at most once or is *)
(* given up, and is refused only while a whole buffer waits.               *)
TunnelIsLossyChannel == Channel!Spec

(* Everything that got into the buffer leaves it: no reconnection, and no  *)
(* loop that outlives its connection, strands what is left.                *)
BufferDrains == \A m \in Message : [](m \in Elements(sendCh) => <>(m \notin Elements(sendCh)))
=============================================================================
