----------------------------- MODULE Permission -----------------------------
(***************************************************************************)
(* Permission requests of one Location (packages/core/src/permission.ts):  *)
(* an asker evaluates the rules and waits for a reply; a reply answers the *)
(* request it names and then others: a rejection those of its Session, a   *)
(* remembered approval those it covers.  The pending requests are a Map    *)
(* that replies iterate while askers and other replies change it.          *)
(*                                                                         *)
(* A step runs at most to the next suspension: an event that is published, *)
(* a row that is read or written, the wait for an answer.  A request asks  *)
(* for one resource, which is also what an approval of it would remember;  *)
(* an approval that remembers nothing is one for once.                     *)
(***************************************************************************)
EXTENDS Naturals, FiniteSets

CONSTANTS
    Requests,       \* calls of assert, each with its own request id
    Replies,        \* calls of reply
    Asks,           \* what may be asked: a Session and a resource
    Deniable,       \* asks that the rules of another agent of the Session deny
    Nothing         \* no ask

ASSUME DeniableAssumption == Deniable \subseteq Asks /\ Nothing \notin Asks

VARIABLES
    denied,         \* asks that the agents now selected deny
    saved,          \* resources remembered for the project
    pending,        \* keys of the Map
    order,          \* order of insertion into the Map, 0 before it
    request,        \* the calls of assert
    answered,       \* requests whose deferred is completed
    reply           \* the calls of reply

permissionVars == <<denied, saved, pending, order, request, answered, reply>>

\* A reply holds on to its request and to the item its iteration is at.
Request(at, ask) == [at |-> at, ask |-> ask]
NoReply(at) == [at |-> at, kind |-> "none", request |-> {}, ask |-> Nothing,
                remembered |-> {}, cursor |-> 0, item |-> Nothing, spared |-> {}]

Inserted == Cardinality({q \in Requests : order[q] # 0})

-----------------------------------------------------------------------------
(* Askers.                                                                  *)

RequestAt(q, at) == request' = [request EXCEPT ![q].at = at]
Ends(q) == request' = [request EXCEPT ![q] = Request("done", Nothing)]

\* The rules of the Session's agent are read; they may deny what is asked, and the
\* read may die.
configured(q) ==
    /\ request[q].at = "ready"
    /\ \/ \E ask \in Asks \ denied : request' = [request EXCEPT ![q] = Request("configured", ask)]
       \/ Ends(q)
    /\ UNCHANGED <<denied, saved, pending, order, answered, reply>>

\* The remembered rules are read; the request is created if they do not allow it.
\* Otherwise, or when the read dies, the call is over.
create(q) ==
    /\ request[q].at = "configured"
    /\ \/ Ends(q) /\ UNCHANGED <<pending, order>>
       \/ /\ request[q].ask.resource \notin saved
          /\ RequestAt(q, "asking")
          /\ pending' = pending \cup {q}
          /\ order' = [order EXCEPT ![q] = Inserted + 1]
    /\ UNCHANGED <<denied, saved, answered, reply>>

\* Asked is published, or the publication dies and the request is withdrawn.
asked(q) ==
    /\ request[q].at = "asking"
    /\ \/ RequestAt(q, "waiting") /\ UNCHANGED pending
       \/ Ends(q) /\ pending' = pending \ {q}
    /\ UNCHANGED <<denied, saved, order, answered, reply>>

\* The wait ends by an answer or by an interruption, which comes at any time, and
\* the request leaves the Map.
awaited(q) ==
    /\ request[q].at = "waiting"
    /\ Ends(q)
    /\ pending' = pending \ {q}
    /\ answered' = answered \ {q}
    /\ UNCHANGED <<denied, saved, order, reply>>

assertStep(q) == configured(q) \/ create(q) \/ asked(q) \/ awaited(q)

-----------------------------------------------------------------------------
(* Replies.                                                                 *)

ReplyAt(p, at) == reply' = [reply EXCEPT ![p].at = at]
NextOf(p) == reply' = [reply EXCEPT ![p].at = "sweep", ![p].item = Nothing]
Return(p) == reply' = [reply EXCEPT ![p] = NoReply("returned")]

\* Nobody looks at the deferred of a request that is over.
Settle(asks) ==
    /\ answered' = answered \cup {q \in asks : request[q].at # "done"}
    /\ pending' = pending \ asks

\* A reply to a request that is gone fails.
beginReply(p) ==
    /\ reply[p].at = "ready"
    /\ \/ \E q \in pending, kind \in {"once", "always", "reject"} :
             reply' = [reply EXCEPT ![p].at = "announce", ![p].kind = kind,
                                    ![p].request = {q}, ![p].ask = request[q].ask]
       \/ (\E q \in Requests \ pending : order[q] # 0) /\ Return(p)
    /\ UNCHANGED <<denied, saved, pending, order, request, answered>>

\* Replied is published, or the publication dies and with it the reply.
announce(p) ==
    /\ reply[p].at = "announce"
    /\ \/ ReplyAt(p, IF reply[p].kind = "always" THEN "save" ELSE "settle")
       \/ Return(p)
    /\ UNCHANGED <<denied, saved, pending, order, request, answered>>

\* A read or write of the rules may die, and with it the reply.
saveRule(p) ==
    /\ reply[p].at = "save"
    /\ \/ saved' = saved \cup {reply[p].ask.resource} /\ ReplyAt(p, "settle")
       \/ UNCHANGED saved /\ Return(p)
    /\ UNCHANGED <<denied, pending, order, request, answered>>

settleReply(p) ==
    /\ reply[p].at = "settle"
    /\ Settle(reply[p].request)
    /\ \/ reply[p].kind = "once" /\ Return(p)
       \/ /\ reply[p].kind # "once"
          /\ ReplyAt(p, IF reply[p].kind = "always" THEN "reread" ELSE "sweep")
    /\ UNCHANGED <<denied, saved, order, request>>

readRemembered(p) ==
    /\ reply[p].at = "reread"
    /\ \/ reply' = [reply EXCEPT ![p].at = "sweep", ![p].remembered = saved]
       \/ Return(p)
    /\ UNCHANGED <<denied, saved, pending, order, request, answered>>

\* The iterator of the Map meets what is inserted while it runs and passes over
\* what was deleted.  A rejection also passes over the items of other Sessions.
Ahead(p) == {q \in pending : order[q] > reply[p].cursor}
Concerned(p) ==
    {q \in Ahead(p) : reply[p].kind = "reject" => request[q].ask.session = reply[p].ask.session}

\* A plausible bug: a rejection leaves the loop at an item of another Session.
NextItemBefore(p) ==
    {q \in Concerned(p) : \A r \in Ahead(p) : order[q] <= order[r]}

NextItem(p) == {q \in Concerned(p) : \A r \in Concerned(p) : order[q] <= order[r]}

sweep(p) ==
    /\ reply[p].at = "sweep"
    /\ \/ NextItem(p) = {} /\ Return(p)
       \/ \E q \in NextItem(p) :
             reply' = [reply EXCEPT ![p].at = IF reply[p].kind = "always" THEN "check" ELSE "tell",
                                    ![p].cursor = order[q], ![p].item = request[q].ask]
    /\ UNCHANGED <<denied, saved, pending, order, request, answered>>

\* The request the iterator has reached, which may be gone meanwhile.
Reached(p) == {q \in Requests : order[q] = reply[p].cursor}

\* The rules of its Session are read again.  "spared" remembers what they deny.
check(p) ==
    /\ reply[p].at = "check"
    /\ \/ /\ reply[p].item \in denied
          /\ reply' = [reply EXCEPT ![p].at = "sweep", ![p].item = Nothing,
                                    ![p].spared = @ \cup Reached(p)]
       \/ /\ reply[p].item \notin denied
          /\ IF reply[p].item.resource \in reply[p].remembered THEN ReplyAt(p, "tell") ELSE NextOf(p)
       \/ Return(p)
    /\ UNCHANGED <<denied, saved, pending, order, request, answered>>

\* Replied is published for the item, which is then answered.
tell(p) ==
    /\ reply[p].at = "tell"
    /\ \/ Settle(Reached(p)) /\ NextOf(p)
       \/ Return(p) /\ UNCHANGED <<pending, answered>>
    /\ UNCHANGED <<denied, saved, order, request>>

replyStep(p) ==
    \/ beginReply(p) \/ announce(p) \/ saveRule(p) \/ settleReply(p)
    \/ readRemembered(p) \/ sweep(p) \/ check(p) \/ tell(p)

-----------------------------------------------------------------------------
(* Around them.                                                             *)

\* Another agent is selected for a Session, whose rules deny more.
selectAgent ==
    /\ \E ask \in Deniable \ denied : denied' = denied \cup {ask}
    /\ UNCHANGED <<saved, pending, order, request, answered, reply>>

\* The Location is disposed: what is pending is rejected.
finalize ==
    /\ pending # {}
    /\ Settle(pending)
    /\ UNCHANGED <<denied, saved, order, request, reply>>

PermissionInit ==
    /\ denied = {} /\ saved = {} /\ pending = {}
    /\ order = [q \in Requests |-> 0]
    /\ request = [q \in Requests |-> Request("ready", Nothing)]
    /\ answered = {}
    /\ reply = [p \in Replies |-> NoReply("ready")]

PermissionNext ==
    \/ \E q \in Requests : assertStep(q)
    \/ \E p \in Replies : replyStep(p)
    \/ selectAgent
    \/ finalize

PermissionSpec == PermissionInit /\ [][PermissionNext]_permissionVars

-----------------------------------------------------------------------------
(* Properties                                                               *)

\* When a reply returns, no request waits on for what the reply decided: after a
\* rejection none of its Session, after an approval none it has remembered a rule
\* for that the Session's agent did not deny when it was looked at.  That includes
\* requests made since the reply began, in whatever order askers come and go and
\* other replies answer them.
Unanswered(q) == request[q].at \in {"asking", "waiting"} /\ q \notin answered

SweepsAreComplete ==
    [][\A p \in Replies : reply[p].at = "sweep" /\ reply'[p].at = "returned" =>
          \A q \in Requests : Unanswered(q) =>
              /\ reply[p].kind = "reject" => request[q].ask.session # reply[p].ask.session
              /\ reply[p].kind = "always" =>
                    request[q].ask.resource \notin reply[p].remembered \/ q \in reply[p].spared
      ]_permissionVars
=============================================================================
