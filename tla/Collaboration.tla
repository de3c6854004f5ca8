----------------------------- MODULE Collaboration -----------------------------
(***************************************************************************)
(* Sessions of collaborating peers: a request names the peer whose turn it  *)
(* is, a contribution answers it, and topology events change who may follow *)
(* whom.  The state of a session is rebuilt from its accepted history for   *)
(* every submission, and a session terminates at its first bound            *)
(* (application/collaboration/service.py, domain/collaboration).            *)
(* A submission is one step (module Coordinator).  There is one resource.   *)
(***************************************************************************)
EXTENDS Integers, Sequences, FiniteSets, SequencesExt, FiniteSetsExt, Records

CONSTANTS
  SessionPolicies, SessionsGoverned,   \* those that admit cognitive records
  Peers,              \* identifiers, which have an order
  SessionPool,        \* id, peers, edges, active, kinds, minimum, required and the bounds of it
  RequestIds, ContributionIds, TopologyEventIds,
  Usages,             \* what a contribution may use
  MaxParents          \* bound: parents a contribution names

PeerOperations == {"ACTIVATE_PEER", "DEACTIVATE_PEER"}
EdgeOperations == {"ENABLE_EDGE", "DISABLE_EDGE"}

WellFormedBudget(b) ==
  /\ {b.hops, b.contributions, b.perPeer, b.repetitions, b.churn} \subseteq Nat \ {0}
  /\ {b.changes, b.depth, b.resources} \subseteq Nat
  /\ 0 < b.share[1] /\ b.share[1] <= b.share[2]
SessionFields ==
  {"id", "peers", "edges", "active", "kinds", "required", "minimum", "policy", "budget"}
WellFormedSession(s) ==
  /\ DOMAIN s = SessionFields
  /\ s.peers \subseteq Peers /\ s.active \subseteq s.peers
  /\ s.edges \subseteq {e \in s.peers \X s.peers : e[1] # e[2]}
  /\ s.required \subseteq s.kinds /\ Cardinality(s.required) <= 1 /\ s.kinds # {}
  /\ s.minimum \in Nat \ {0}
  /\ WellFormedBudget(s.budget)

ASSUME CollaborationAssumption ==
  /\ \A s \in SessionPool : WellFormedSession(s)
  /\ Peers \subseteq Nat /\ Usages \subseteq Nat

VARIABLES
  sessionPolicy,   \* the active policy
  sessions,        \* collaboration_sessions
  peerHistory,     \* the accepted requests, contributions and events, in the order of their audit
  terminations     \* collaboration_terminations

collaborationVars == <<sessionPolicy, sessions, peerHistory, terminations>>

OfKind(kind) == {r \in ToSet(peerHistory) : r.kind = kind}

-----------------------------------------------------------------------------
(* The state of a session and its bounds.                                   *)

CountOf(contributions, field(_), value) ==
  Cardinality({i \in DOMAIN contributions : field(contributions[i]) = value})
PeerCount(state, peer) == CountOf(state.contributions, LAMBDA c : c.peer, peer)
LastPeer(state) ==
  {state.contributions[i].peer :
     i \in {j \in DOMAIN state.contributions : j = Len(state.contributions)}}

Completed(session, state) ==
  /\ Len(state.contributions) >= session.minimum
  /\ \A kind \in session.required : CountOf(state.contributions, LAMBDA c : c.type, kind) > 0

Topology(state) == Last(state.topologies)

(* What repeats when a session goes in circles.                             *)
CycleProjection(session, state) ==
  [topology |-> Topology(state), last |-> LastPeer(state), usage |-> state.usage,
   peers |-> [p \in session.peers |-> PeerCount(state, p)],
   kinds |-> [k \in session.kinds |-> CountOf(state.contributions, LAMBDA c : c.type, k)]]
Observed(session, state) ==
  [state EXCEPT !.projections = Append(@, CycleProjection(session, state))]

InitialCollaboration(session) ==
  LET topology == [active |-> session.active,
                   edges |-> {e \in session.edges : {e[1], e[2]} \subseteq session.active}]
  IN Observed(session,
       [topologies |-> <<topology>>, contributions |-> <<>>, usage |-> 0, pending |-> {},
        projections |-> <<>>, sound |-> TRUE])

TopologyChanges(state) == Len(state.topologies) - 1
TopologyChurn(state) ==
  Cardinality({i \in DOMAIN state.topologies :
                 i > 2 /\ state.topologies[i] = state.topologies[i - 2]})

EligiblePeers(session, state) ==
  {p \in Topology(state).active :
     /\ PeerCount(state, p) < session.budget.perPeer
     /\ \A last \in LastPeer(state) : <<last, p>> \in Topology(state).edges}

Looping(session, state) ==
  \E i \in DOMAIN state.projections :
    CountOf(state.projections, LAMBDA p : p, state.projections[i]) - 1 > session.budget.repetitions
Monopolised(session, state) ==
  LET share == session.budget.share
  IN \E p \in session.peers :
       PeerCount(state, p) * share[2] > share[1] * Len(state.contributions)

(* Mutant of ChangesExhausted: off by one.                                  *)
ChangesExceeded(session, state) == TopologyChanges(state) > session.budget.changes

ChangesExhausted(session, state) ==
  TopologyChanges(state) > 0 /\ TopologyChanges(state) >= session.budget.changes

Reasons ==
  <<"COMPLETED", "MAX_HOPS_REACHED", "MAX_CONTRIBUTIONS_REACHED", "PER_PEER_LIMIT_REACHED",
    "TOPOLOGY_CHANGE_LIMIT_REACHED", "REPEATED_STATE_LOOP", "TOPOLOGY_CHURN",
    "CONTRIBUTION_MONOPOLY", "NO_ELIGIBLE_PEER">>

Reached(session, state, reason) ==
  LET count == Len(state.contributions)
      budget == session.budget
  IN CASE reason = "COMPLETED" -> Completed(session, state)
       [] reason = "MAX_HOPS_REACHED" -> count >= budget.hops
       [] reason = "MAX_CONTRIBUTIONS_REACHED" -> count >= budget.contributions
       [] reason = "PER_PEER_LIMIT_REACHED" ->
            \E p \in session.peers : PeerCount(state, p) >= budget.perPeer
       [] reason = "TOPOLOGY_CHANGE_LIMIT_REACHED" -> ChangesExhausted(session, state)
       [] reason = "REPEATED_STATE_LOOP" -> Looping(session, state)
       [] reason = "TOPOLOGY_CHURN" -> TopologyChurn(state) >= budget.churn
       [] reason = "CONTRIBUTION_MONOPOLY" -> count > 0 /\ Monopolised(session, state)
       [] reason = "NO_ELIGIBLE_PEER" -> EligiblePeers(session, state) = {}

(* The first reason in this order, if there is one.                         *)
Termination(session, state) ==
  {Reasons[i] : i \in {j \in DOMAIN Reasons :
                         /\ Reached(session, state, Reasons[j])
                         /\ \A k \in 1 .. j - 1 : ~Reached(session, state, Reasons[k])}}

(* The least of those eligible is next.                                     *)
NextPeer(session, state) ==
  IF Termination(session, state) # {} THEN {}
  ELSE {p \in EligiblePeers(session, state) : \A q \in EligiblePeers(session, state) : p <= q}

-----------------------------------------------------------------------------
(* Transitions of the state.                                                *)

ContributedBefore(state) == IdsOf(ToSet(state.contributions))

DepthOf(state, parents) ==
  IF parents = {} THEN 0
  ELSE 1 + Max({state.contributions[i].depth :
                  i \in {j \in DOMAIN state.contributions : state.contributions[j].id \in parents}})

(* The request is still the one that the state calls for.                   *)
RequestDue(session, state, request) ==
  /\ {request.recipient} = NextPeer(session, state)
  /\ request.sequence = Len(state.contributions) + 1
  /\ request.sender = LastPeer(state)
  /\ request.parent \subseteq ContributedBefore(state)
  /\ request.remaining = session.budget.resources - state.usage

AdvanceCollaboration(session, state, contribution) ==
  Observed(session,
    [state EXCEPT !.contributions = Append(@,
       [id |-> contribution.id, peer |-> contribution.peer, type |-> contribution.type,
        depth |-> DepthOf(state, contribution.parents)]),
     !.usage = @ + contribution.usage, !.pending = {}])

(* What no state may exceed; one that does is not built.                    *)
StateIntegrity(session, state) ==
  /\ Len(state.contributions) <= session.budget.hops
  /\ Len(state.contributions) <= session.budget.contributions
  /\ \A p \in session.peers : PeerCount(state, p) <= session.budget.perPeer
  /\ TopologyChanges(state) <= session.budget.changes
  /\ \A i \in DOMAIN state.contributions : state.contributions[i].depth <= session.budget.depth
  /\ state.usage <= session.budget.resources

ContributionAllowed(session, state, request, contribution) ==
  /\ Termination(session, state) = {}
  /\ RequestDue(session, state, request)
  /\ contribution.peer = request.recipient
  /\ contribution.type \in session.kinds
  /\ request.parent \subseteq contribution.parents
  /\ contribution.parents \subseteq ContributedBefore(state)
  /\ StateIntegrity(session, AdvanceCollaboration(session, state, contribution))

OperationApplies(session, topology, event) ==
  CASE event.operation = "ACTIVATE_PEER" -> event.target \in session.peers \ topology.active
    [] event.operation = "DEACTIVATE_PEER" -> event.target \in topology.active
    [] event.operation = "ENABLE_EDGE" ->
         /\ event.target \in session.edges \ topology.edges
         /\ {event.target[1], event.target[2]} \subseteq topology.active
    [] event.operation = "DISABLE_EDGE" -> event.target \in topology.edges

Operated(topology, event) ==
  CASE event.operation = "ACTIVATE_PEER" -> [topology EXCEPT !.active = @ \cup {event.target}]
    [] event.operation = "DEACTIVATE_PEER" ->
         [active |-> topology.active \ {event.target},
          edges |-> {e \in topology.edges : event.target \notin {e[1], e[2]}}]
    [] event.operation = "ENABLE_EDGE" -> [topology EXCEPT !.edges = @ \cup {event.target}]
    [] event.operation = "DISABLE_EDGE" -> [topology EXCEPT !.edges = @ \ {event.target}]

(* Mutant of EventAllowed: a session that has ended still changes.          *)
EventAfterTheEnd(session, state, event) ==
  /\ TopologyChanges(state) < session.budget.changes
  /\ OperationApplies(session, Topology(state), event)

(* An event names the topologies before and after by their hashes.          *)
EventAllowed(session, state, event) ==
  /\ Termination(session, state) = {}
  /\ TopologyChanges(state) < session.budget.changes
  /\ event.before = Topology(state)
  /\ OperationApplies(session, Topology(state), event)

ApplyTopologyEvent(session, state, event) ==
  Observed(session, [state EXCEPT !.topologies = Append(@, Operated(Topology(state), event))])

(* One record of the history; the state is unsound once one does not fit.   *)
Replay(session, state, record) ==
  LET unsound == [state EXCEPT !.sound = FALSE]
  IN CASE ~state.sound -> state
       [] state.sound /\ record.kind = "REQUEST" ->
            IF state.pending = {} THEN [state EXCEPT !.pending = {record}] ELSE unsound
       [] state.sound /\ record.kind = "CONTRIBUTION" ->
            IF \E request \in state.pending :
                 request.id = record.request /\ ContributionAllowed(session, state, request, record)
            THEN AdvanceCollaboration(session, state, record) ELSE unsound
       [] state.sound /\ record.kind = "TOPOLOGY" ->
            IF EventAllowed(session, state, record)
            THEN ApplyTopologyEvent(session, state, record) ELSE unsound

(* The records of other sessions are passed over.                           *)
StateAfter(session, state, record) ==
  IF record.session = session.id THEN Replay(session, state, record) ELSE state
Rebuilt(session) ==
  LET state[n \in 0 .. Len(peerHistory)] ==
        IF n = 0 THEN InitialCollaboration(session)
        ELSE StateAfter(session, state[n - 1], peerHistory[n])
  IN state[Len(peerHistory)]

-----------------------------------------------------------------------------
CollaborationInit ==
  /\ sessionPolicy \in SessionPolicies
  /\ sessions = {} /\ peerHistory = <<>> /\ terminations = {}

SessionPolicyMoves(policy) ==
  /\ sessionPolicy' = policy
  /\ UNCHANGED <<sessions, peerHistory, terminations>>

RecordCollaborationSession(session) ==
  /\ sessionPolicy \in SessionsGoverned
  /\ session.id \notin IdsOf(sessions)
  /\ sessions' = sessions \cup {[session EXCEPT !.policy = sessionPolicy]}
  /\ UNCHANGED <<sessionPolicy, peerHistory, terminations>>

(* Under another policy the history of a session that has one is taken for  *)
(* one without provenance: the submission fails, where that of a session    *)
(* without records is rejected.                                             *)
SessionOpen(session) ==
  /\ sessionPolicy \in SessionsGoverned
  /\ session.policy = sessionPolicy

Retain(record) ==
  /\ peerHistory' = Append(peerHistory, record)
  /\ UNCHANGED <<sessionPolicy, sessions, terminations>>

(* What is submitted.                                                       *)
PeerRequest(session, state, id, recipient, parent) ==
  [kind |-> "REQUEST", id |-> id, session |-> session.id, recipient |-> recipient,
   parent |-> parent, sender |-> LastPeer(state), sequence |-> Len(state.contributions) + 1,
   remaining |-> session.budget.resources - state.usage]
PeerContribution(session, request, id, type, parents, usage) ==
  [kind |-> "CONTRIBUTION", id |-> id, session |-> session.id, request |-> request.id,
   peer |-> request.recipient, type |-> type, parents |-> parents, usage |-> usage]
TopologyEvent(session, state, id, operation, target) ==
  [kind |-> "TOPOLOGY", id |-> id, session |-> session.id, operation |-> operation,
   target |-> target, before |-> Topology(state)]

(* Identifiers are unique among all sessions.                               *)
AppendPeerRequest(session, state, id, recipient, parent) ==
  LET request == PeerRequest(session, state, id, recipient, parent)
  IN /\ SessionOpen(session)
     /\ id \notin IdsOf(OfKind("REQUEST"))
     /\ state.sound /\ state.pending = {}
     /\ RequestDue(session, state, request)
     /\ Retain(request)

AppendPeerContribution(session, state, request, id, type, parents, usage) ==
  LET contribution == PeerContribution(session, request, id, type, parents, usage)
  IN /\ SessionOpen(session)
     /\ id \notin IdsOf(OfKind("CONTRIBUTION"))
     /\ state.sound
     /\ ContributionAllowed(session, state, request, contribution)
     /\ Retain(contribution)

AppendTopologyEvent(session, state, id, operation, target) ==
  LET event == TopologyEvent(session, state, id, operation, target)
  IN /\ SessionOpen(session)
     /\ id \notin IdsOf(OfKind("TOPOLOGY"))
     /\ state.sound
     /\ EventAllowed(session, state, event)
     /\ Retain(event)

RecordCollaborationTermination(session, state) ==
  /\ SessionOpen(session)
  /\ session.id \notin IdsOf(terminations)
  /\ state.sound /\ Termination(session, state) # {}
  /\ terminations' = terminations \cup
       {[id |-> session.id, reason |-> Termination(session, state)]}
  /\ UNCHANGED <<sessionPolicy, sessions, peerHistory>>

ParentChoices(session) ==
  {parents \in SUBSET {r.id : r \in {c \in OfKind("CONTRIBUTION") : c.session = session.id}} :
     Cardinality(parents) <= MaxParents}

(* Every submission is decided on the state rebuilt for it.                 *)
CollaborationNext ==
  \/ \E policy \in SessionPolicies : SessionPolicyMoves(policy)
  \/ \E session \in SessionPool : RecordCollaborationSession(session)
  \/ \E session \in sessions :
       LET state == Rebuilt(session)
       IN \/ \E id \in RequestIds, recipient \in session.peers, parent \in ParentChoices(session) :
               Cardinality(parent) <= 1 /\ AppendPeerRequest(session, state, id, recipient, parent)
          \/ \E request \in state.pending, id \in ContributionIds, type \in session.kinds,
                parents \in ParentChoices(session), usage \in Usages :
               AppendPeerContribution(session, state, request, id, type, parents, usage)
          \/ \E id \in TopologyEventIds :
               \/ \E peer \in session.peers, operation \in PeerOperations :
                    AppendTopologyEvent(session, state, id, operation, peer)
               \/ \E edge \in session.edges, operation \in EdgeOperations :
                    AppendTopologyEvent(session, state, id, operation, edge)
          \/ RecordCollaborationTermination(session, state)

CollaborationSpec == CollaborationInit /\ [][CollaborationNext]_collaborationVars

-----------------------------------------------------------------------------
(* Properties.                                                              *)

(* Some submission about the session would be accepted: a request, an       *)
(* answer to the one that waits (one that uses nothing is always among      *)
(* them) or a change of topology.  What is submitted can always carry an    *)
(* identifier that is new; which one it is plays no part.                   *)
CanMove(session, state) ==
  /\ SessionOpen(session)
  /\ \/ /\ state.pending = {}
        /\ \E recipient \in session.peers :
             RequestDue(session, state, PeerRequest(session, state, session.id, recipient, {}))
     \/ \E request \in state.pending, type \in session.kinds,
           parents \in SUBSET ContributedBefore(state) :
          ContributionAllowed(session, state, request,
            PeerContribution(session, request, session.id, type, parents, 0))
     \/ \E target \in session.peers, operation \in PeerOperations :
          EventAllowed(session, state, TopologyEvent(session, state, session.id, operation, target))

(* An answer retains the parent that its request names and is refused once  *)
(* it lies too deep (engine.py:147-165), the request cannot be bypassed     *)
(* (service.py:209-213), and nothing else ends a session that allows no     *)
(* changes of topology.                                                     *)
Stuck(session, state) ==
  /\ session.budget.changes = 0
  /\ \E request \in state.pending : DepthOf(state, request.parent) > session.budget.depth

(* A session that has reached none of its bounds can go on, unless its      *)
(* policy is not the active one or its peers were asked to follow up a      *)
(* contribution of the greatest depth and it allows no changes of topology  *)
(* (service.py:179, 209-241, engine.py:126-166, models.py:1452-1499).  An   *)
(* event that overtakes a request never leaves it so: until the changes     *)
(* run out another one can follow, and then the session ends.               *)
SessionsCanGoOn ==
  \A session \in sessions :
    LET state == Rebuilt(session)
    IN Termination(session, state) = {} =>
         (CanMove(session, state) <=> SessionOpen(session) /\ ~Stuck(session, state))

(* "Collaboration terminates deterministically" (docs/adr/0002:123): the    *)
(* history of every session can be rebuilt, whatever was interleaved with   *)
(* its requests and under whatever policy others were made, and a recorded  *)
(* termination stays the one it is rebuilt to.                              *)
TerminationIsFinal ==
  \A session \in sessions :
    LET state == Rebuilt(session)
    IN /\ state.sound
       /\ \A t \in terminations : t.id = session.id => Termination(session, state) = t.reason

(* A session goes on until it has reached one of its bounds, but for the    *)
(* one case that Stuck names, and then ends for that reason for good,       *)
(* however its requests, answers and changes of topology cross              *)
(* (collaboration/service.py:150-299).                                      *)
SessionsEndOnce == SessionsCanGoOn /\ TerminationIsFinal

(* What the design asks for: "collaboration terminates deterministically    *)
(* at every configured bound" (docs/adr/0002:123), of which the depth of    *)
(* parents is one: an open session has ended or can go on.                  *)
EveryBoundEndsSessions ==
  \A session \in sessions :
    LET state == Rebuilt(session)
    IN SessionOpen(session) => Termination(session, state) # {} \/ CanMove(session, state)
=============================================================================
