----------------------------- MODULE KMEServer -----------------------------
(***************************************************************************)
(* The process around the key store: the request handlers, the shield gate *)
(* and the keystore inbox of bb84/etsi014_kme_server.js, in its production *)
(* mode (mutual TLS, OCSP responder, shield gate and inbox configured).    *)
(*                                                                         *)
(* A handler runs in up to three pieces, with an await between them: the   *)
(* OCSP query, then the checks of the gate, then, for a POST, the body.    *)
(* Requests of other connections, the two timers and the writers of the    *)
(* gate file and of the inbox run in between.  One connection carries one  *)
(* request at a time.                                                      *)
(***************************************************************************)
EXTENDS KMEKeyStore

CONSTANTS
  Conn,       \* connection slots
  Sae,        \* the applications
  RouteName,  \* RouteName[{a, b}]: the sorted node names of a and b, joined
  None,       \* no request, no application
  MaxInbox    \* bound on the files waiting in the inbox

\* Two pairs of applications may have one route: "SAE-IST" and "IST" are two
\* applications of one node, and node names may themselves contain a dash.
ASSUME ServerAssumption ==
  /\ RouteName \in [{{a, b} : a, b \in Sae} -> Route]
  /\ None \notin Sae
  /\ MaxInbox \in Nat
  /\ MaxIds # 0

VARIABLES
  live,       \* liveTls: the connections whose socket is open
  who,        \* who[c]: the subject name of the client certificate
  req,        \* req[c]: the request the handler of c works on
  pc,         \* pc[c]: "idle", or the await it stands at: "ocsp", "body", or
              \* "hung", a body of a request whose socket had already closed
  gateOpen,   \* the gate file is readable, fresh, and says mtlsAllowed
  peersOpen,  \* the nodes the gate file allows deliveries to
  swept,      \* the gate timer has run since the gate was last open
  inbox       \* the files of the inbox

serverVars == <<vars, live, who, req, pc, gateOpen, peersOpen, swept, inbox>>
connVars == <<live, who, req, pc>>
gateVars == <<gateOpen, peersOpen, swept>>

\* status and the GET forms have no body.
Request == [op : {"status", "enc", "dec"}, post : BOOLEAN, peer : Sae]

\* routeKeyFromSAEPair: one name for both orders of the pair.
RouteOf(a, b) == RouteName[{a, b}]

\* The handler of c is done; a closed connection's slot is free again.
Settle(c) ==
  /\ pc' = [pc EXCEPT ![c] = "idle"]
  /\ req' = [req EXCEPT ![c] = None]

Release(c, open) ==
  /\ live' = IF open THEN live ELSE live \ {c}
  /\ who' = IF open THEN who ELSE [who EXCEPT ![c] = None]

-----------------------------------------------------------------------------
(* Connections.                                                            *)

\* secureConnection: a session is kept only while the gate lets it.
Connect(c, sae) ==
  /\ c \notin live /\ pc[c] = "idle"
  /\ gateOpen
  /\ live' = live \cup {c}
  /\ who' = [who EXCEPT ![c] = sae]
  /\ UNCHANGED <<vars, req, pc, gateVars, inbox>>

\* A request's headers arrive: authenticate starts the OCSP query.  The peer
\* is whatever the path names.
Receive(c, r) ==
  /\ c \in live /\ pc[c] = "idle"
  /\ r.op = "status" => ~r.post
  /\ pc' = [pc EXCEPT ![c] = "ocsp"]
  /\ req' = [req EXCEPT ![c] = r]
  /\ UNCHANGED <<vars, live, who, gateVars, inbox>>

\* The sockets S close.  A pending readBody rejects, so its handler ends; a
\* handler that waits for the OCSP answer does not notice.
Close(S) ==
  LET ended == {c \in S : pc[c] # "ocsp"}
  IN /\ live' = live \ S
     /\ pc' = [c \in Conn |-> IF c \in ended THEN "idle" ELSE pc[c]]
     /\ req' = [c \in Conn |-> IF c \in ended THEN None ELSE req[c]]
     /\ who' = [c \in Conn |-> IF c \in ended THEN None ELSE who[c]]

\* The client goes away, or the server's own request timeout ends it.
Cut(c) ==
  /\ c \in live
  /\ Close({c})
  /\ UNCHANGED <<vars, gateVars, inbox>>

-----------------------------------------------------------------------------
(* Handlers.                                                               *)

\* assertShieldGate for the application a.
GateAllows(a) == gateOpen /\ a \in peersOpen

\* The checks between the two awaits: the caller, in authenticate, and for
\* enc_keys the other side, so that no key is left half-open.
Allowed(c) ==
  /\ GateAllows(who[c])
  /\ req[c].op = "enc" => GateAllows(req[c].peer)

\* The synchronous end of a handler, once its parameters are known.
Take(c) ==
  LET r == RouteOf(who[c], req[c].peer) IN
  \/ req[c].op = "status" /\ UNCHANGED vars
  \/ /\ req[c].op = "enc"
     /\ \E n \in 1..MaxNumber, size \in Sizes :
          \/ EncServed(r, n, size)
          \/ ~EncAccepts(r, n, size) /\ UNCHANGED vars
  \/ /\ req[c].op = "dec"
     /\ \E len \in 1..(IF req[c].post THEN MaxIds ELSE 1) :
          \E ids \in [1..len -> KeyId] : DecServed(r, ids) \/ DecRefused(r, ids)

\* The OCSP answer is good and the gate lets the request through: a request
\* without body is served at once, whether or not its socket is still open.
OcspGoodServed(c) ==
  /\ pc[c] = "ocsp" /\ Allowed(c)
  /\ ~req[c].post
  /\ Take(c)
  /\ Settle(c) /\ Release(c, c \in live)
  /\ UNCHANGED <<gateVars, inbox>>

\* The same for a POST: readBody attaches its listeners.  None of them fires
\* on a request that was already closed.
OcspGoodBody(c) ==
  /\ pc[c] = "ocsp" /\ Allowed(c)
  /\ req[c].post
  /\ pc' = [pc EXCEPT ![c] = IF c \in live THEN "body" ELSE "hung"]
  /\ UNCHANGED <<vars, live, who, req, gateVars, inbox>>

\* The OCSP answer is not good, or the gate refuses: an error reply.  A
\* connection whose body has not been read to its end is closed after it.
OcspRefused(c) ==
  /\ pc[c] = "ocsp"
  /\ Settle(c)
  /\ \E open \in BOOLEAN :
       /\ ~req[c].post => open
       /\ Release(c, open /\ c \in live)
  /\ UNCHANGED <<vars, gateVars, inbox>>

OcspAnswer(c) == OcspGoodServed(c) \/ OcspGoodBody(c) \/ OcspRefused(c)

\* The body is complete.  If it makes sense, the keys are taken: the gate is
\* not asked again.
BodyServed(c) ==
  /\ pc[c] = "body" /\ c \in live
  /\ Take(c)
  /\ Settle(c) /\ UNCHANGED <<live, who>>
  /\ UNCHANGED <<gateVars, inbox>>

\* It is no JSON, or its number or key_IDs are out of range.
BodyBad(c) ==
  /\ pc[c] = "body" /\ c \in live
  /\ Settle(c) /\ UNCHANGED <<live, who>>
  /\ UNCHANGED <<vars, gateVars, inbox>>

\* The body passes MAX_BODY_BYTES: 413, and the connection is closed.
BodyTooLarge(c) ==
  /\ pc[c] = "body" /\ c \in live
  /\ Settle(c) /\ Release(c, FALSE)
  /\ UNCHANGED <<vars, gateVars, inbox>>

-----------------------------------------------------------------------------
(* The gate file and its timer.                                            *)

\* The shielding monitor rewrites the file, or stops and lets it go stale.
GateWrite(open, peers) ==
  /\ open \/ peers = {}
  /\ gateOpen' = open
  /\ peersOpen' = peers
  /\ swept' = (swept /\ ~open)
  /\ UNCHANGED <<vars, connVars, inbox>>

\* Defect: a shut gate only keeps new sessions out.
SweepSparesSessions ==
  /\ ~gateOpen
  /\ swept' = TRUE
  /\ UNCHANGED <<vars, connVars, gateOpen, peersOpen, inbox>>

\* Every 200 ms: once the gate is shut, all open sessions are destroyed.
Sweep ==
  /\ ~gateOpen
  /\ swept' = TRUE
  /\ Close(live)
  /\ UNCHANGED <<vars, gateOpen, peersOpen, inbox>>

-----------------------------------------------------------------------------
(* The inbox.                                                              *)

\* A file is complete, or breaks off in a record the import throws on.
File == [keys : [Route -> SUBSET KeyId], whole : BOOLEAN]

\* The producer renames a file into the directory.  It may repeat keys, the
\* delivered ones included.
Drop(f) ==
  /\ Cardinality(inbox) < MaxInbox
  /\ f.keys \in Exports
  /\ inbox' = inbox \cup {f}
  /\ UNCHANGED <<vars, connVars, gateVars>>

\* drainKeystoreInbox, every 200 ms and when the process starts: all files
\* are imported and unlinked, a broken one as far as it can be read.  A
\* failing unlink is ignored, and the file is imported again next time.
Drain ==
  /\ inbox # {}
  /\ \E part \in [inbox -> [Route -> SUBSET KeyId]] :
       /\ \A f \in inbox : \A r \in Route :
            IF f.whole THEN part[f][r] = f.keys[r]
                       ELSE part[f][r] \subseteq f.keys[r]
       /\ Import([r \in Route |-> UNION {part[f][r] : f \in inbox}])
  /\ inbox' \in SUBSET inbox
  /\ UNCHANGED <<connVars, gateVars>>

-----------------------------------------------------------------------------
(* The process.                                                            *)

ServerInit ==
  /\ Init
  /\ live = {} /\ swept = TRUE
  /\ who = [c \in Conn |-> None]
  /\ req = [c \in Conn |-> None]
  /\ pc = [c \in Conn |-> "idle"]
  /\ gateOpen = FALSE /\ peersOpen = {}
  /\ inbox = {}

\* All memory is lost; the inbox is a directory and stays.
ServerRestart ==
  /\ Restart
  /\ live' = {}
  /\ who' = [c \in Conn |-> None]
  /\ req' = [c \in Conn |-> None]
  /\ pc' = [c \in Conn |-> "idle"]
  /\ UNCHANGED <<gateVars, inbox>>

ServerNext ==
  \/ \E c \in Conn :
       \/ \E sae \in Sae : Connect(c, sae)
       \/ \E r \in Request : Receive(c, r)
       \/ Cut(c)
       \/ OcspAnswer(c)
       \/ BodyServed(c) \/ BodyBad(c) \/ BodyTooLarge(c)
  \/ \E open \in BOOLEAN, peers \in SUBSET Sae : GateWrite(open, peers)
  \/ Sweep
  \/ \E f \in File : Drop(f)
  \/ Drain
  \/ ServerRestart

ServerSpec == ServerInit /\ [][ServerNext]_serverVars

\* openssl is killed after four seconds, so an OCSP query is always answered
\* (line 589); a request body ends, grows too large, or is cut off by the
\* request timeout of Node's HTTP server.
Fairness ==
  \A c \in Conn :
    /\ WF_serverVars(OcspAnswer(c))
    /\ WF_serverVars(BodyServed(c) \/ BodyBad(c) \/ BodyTooLarge(c) \/ Cut(c))

FairServerSpec == ServerSpec /\ Fairness

-----------------------------------------------------------------------------
(* Properties.                                                             *)

\* Once the gate has shut and its timer has run, no key leaves the server
\* until the gate opens again: not on sessions opened before, not from
\* requests that were waiting for an OCSP answer or a body.
NoKeysAfterSweep ==
  [][ swept => encGiven' = encGiven /\ decGiven' = decGiven ]_serverVars

\* A handler that waits for a body is not left waiting for ever, which the
\* comment on the listeners of readBody rules out for good (:492-496): it
\* ends when the body is complete or too long and when the socket closes.
\* The run refutes it, with a socket that closes before they are attached.
BodyWaitEnds == \A c \in Conn : pc[c] \in {"body", "hung"} ~> pc[c] = "idle"

\* Whatever reaches the inbox, repeated keys and files whose unlink failed
\* included: while a key waits for its slave no master is given it again,
\* unless the process restarts, and each time a slave is given it a master
\* was given it before (the defect described in lines 252 to 266).
NoSecondMaster ==
  \A r \in Route, k \in KeyId :
    /\ decGiven[r][k] <= encGiven[r][k]
    /\ encGiven[r][k] <= decGiven[r][k] + 1 + restarts
=============================================================================
