-------------------------------- MODULE Pair --------------------------------
(***************************************************************************)
(* Two sessions (include/smpp/net/session.hpp) that talk to each other, as *)
(* in the tests and the examples.  This session is the one of Session; the *)
(* peer is a second instance of the same module in place of the abstract   *)
(* peer of Session.  What one has written and the other has not read yet   *)
(* is the wire of the first and the inq of the second.                     *)
(***************************************************************************)
EXTENDS Session

VARIABLES
  peer_send_buf, peer_send_cv, peer_sequence_number, peer_pc, peer_frame,
  peer_cancelled, peer_ec, peer_sent, peer_socket, peer_rx, peer_rx_ec,
  peer_received, peer_receive_buf, peer_pending_enquire_link, peer_needs_post,
  peer_rx_cancelled, peer_result, peer_consumed, peer_silence

Peer == INSTANCE Session WITH
  send_buf <- peer_send_buf, send_cv <- peer_send_cv,
  sequence_number <- peer_sequence_number, pc <- peer_pc, frame <- peer_frame,
  cancelled <- peer_cancelled, ec <- peer_ec, sent <- peer_sent,
  socket <- peer_socket, rx <- peer_rx, rx_ec <- peer_rx_ec,
  received <- peer_received, receive_buf <- peer_receive_buf,
  pending_enquire_link <- peer_pending_enquire_link,
  needs_post <- peer_needs_post, rx_cancelled <- peer_rx_cancelled,
  result <- peer_result, consumed <- peer_consumed, silence <- peer_silence,
  wire <- inq, inq <- wire

\* The abstract peer of Session takes no part: last_read, peer_seq and owed stay.
own == <<sendVars, socket, rxVars>>
peerSender == <<peer_send_buf, peer_send_cv, peer_sequence_number, peer_pc,
                peer_frame, peer_cancelled, peer_ec, peer_sent>>
peerRx == <<peer_rx, peer_rx_ec, peer_received, peer_receive_buf,
            peer_pending_enquire_link, peer_needs_post, peer_rx_cancelled,
            peer_result, peer_consumed, peer_silence>>
peerOwn == <<peerSender, peer_socket, peerRx>>
pairVars == <<own, peerOwn, wire, inq, last_read, peerVars>>

PInit == SInit /\ Peer!SInit

\* TCP tells one end that the other has closed its socket: once everything that
\* was on the way has been read, or at once where the other end has not read
\* everything, which makes TCP reset the connection.
Closed(there, sock, in, out) ==
  /\ there = "closed"
  /\ sock = "open"
  /\ in = <<>> \/ out # <<>>

Disconnected ==
  /\ Closed(peer_socket, socket, inq, wire)
  /\ socket' = "reset"
  /\ UNCHANGED <<sendVars, rxVars, peerOwn, wire, inq, last_read, peerVars>>

PeerDisconnected ==
  /\ Closed(socket, peer_socket, wire, inq)
  /\ peer_socket' = "reset"
  /\ UNCHANGED <<peerSender, peerRx, own, wire, inq, last_read, peerVars>>

\* A handler that is running at one end finishes before anything happens at the
\* other: what is left of it is of no consequence there but the socket's end.
PNext ==
  \/ ~Peer!Inline /\ OwnNext /\ UNCHANGED peerOwn
  \/ ~Inline /\ Peer!OwnNext /\ UNCHANGED own
  \/ ~Inline /\ ~Peer!Inline /\ (Disconnected \/ PeerDisconnected)

PSpec == PInit /\ [][PNext]_pairVars

\* Both sessions are scheduled fairly and TCP reports the end of a connection.
PFairness ==
  /\ SFairness
  /\ Peer!SFairness
  /\ WF_pairVars(Disconnected)
  /\ WF_pairVars(PeerDisconnected)

PFairSpec == PSpec /\ PFairness
-----------------------------------------------------------------------------
(* Properties. *)

Ended == rx = "idle" /\ rx_ec \notin {"ok", "aborted"}
PeerEnded == peer_rx = "idle" /\ peer_rx_ec \notin {"ok", "aborted"}

\* The application has sent an unbind.
Unbinding ==
  \E c \in Callers \ {Rx} :
    frame[c].cmd = "unbind" /\ pc[c] = "done" /\ ec[c] = "ok"

\* An async_receive that ends with unbinded because the unbind was answered has
\* received all that the peer has written, however much the peer's callers were
\* sending: the answer takes its turn in the peer's send buffer, the peer closes
\* the socket before anyone whom it wakes can write, and the peer is done.
UnbindLosesNothing ==
  rx_ec = "unbinded" /\ result.cmd = "unbind_resp" =>
    /\ inq = <<>> /\ receive_buf = <<>>
    /\ \/ peer_rx = "sending" /\ peer_frame[Rx].cmd = "unbind_resp"
       \/ PeerEnded /\ peer_rx_ec = "unbinded"

\* An unbind ends both sessions, also when both ends send one and whatever else
\* is on the way: neither async_receive waits for the other for ever.
UnbindEndsBoth == Unbinding ~> Ended /\ PeerEnded
=============================================================================
