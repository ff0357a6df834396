----------------------------- MODULE Admission -----------------------------
(***************************************************************************)
(* What a request must get past before anything is streamed to it:          *)
(* gateway/handler.go, gateway/scope.go, gateway/projection_policy.go, the  *)
(* authorizer of gateway/kube/authz.go, and the session check of the        *)
(* sharedstream host.  Everything here is a function of the request and of  *)
(* the host's policy; EventStream runs it.                                  *)
(*                                                                          *)
(* A value of a query parameter is "" (absent), a name, or one of two kinds *)
(* of text that is no name: a Kind, which has capitals, and a path.         *)
(***************************************************************************)
EXTENDS Naturals, Sequences, FiniteSets

Capitals == {"ConfigMap"}
Paths    == {"../x"}
IsDNSName(v) == v # "" /\ v \notin Capitals \cup Paths

\* forbiddenParams: parameters that would name an API server or a credential.  They are
\* compared with case folded; a name here stands for all its spellings.
ForbiddenParams == {"server", "apiserver", "api-server", "url", "endpoint", "kubeconfig", "token"}

Verdict(code, terminal) == [code |-> code, terminal |-> terminal]
Admitted == Verdict("OK", FALSE)
ScopeInvalid == Verdict("SCOPE_INVALID", TRUE)
Unauthenticated == Verdict("UNAUTHENTICATED", TRUE)
Forbidden == Verdict("FORBIDDEN", TRUE)
Internal == Verdict("INTERNAL", TRUE)

\* ScopeFromQuery: what is required, and every value that is given is a name.
ScopeFromQuery(q) ==
    IF /\ q.params \cap ForbiddenParams = {}
       /\ q.resource # "" /\ q.version # ""
       /\ IsDNSName(q.resource) /\ IsDNSName(q.version)
       /\ \A v \in {q.group, q.namespace, q.name, q.target} : v # "" => IsDNSName(v)
    THEN Admitted ELSE ScopeInvalid

\* ScopePolicy.Validate: the first entry that names the resource decides.
Names(gr, s) == gr.group = s.group /\ gr.resource = s.resource
ShapeAllowed(gr, s) ==
    CASE gr.scope = "cluster"    -> s.namespace = ""
      [] gr.scope = "namespaced" -> s.namespace # "" \/ gr.allowAllNamespaces
      [] OTHER                   -> FALSE
Validate(p, s) ==
    LET named == {i \in DOMAIN p.resources : Names(p.resources[i], s)} IN
    IF s.labelSelector # "" /\ ~p.allowLabelSelector THEN ScopeInvalid
    ELSE IF s.target \notin p.targets THEN ScopeInvalid
    ELSE IF p.anyResource THEN IF p.resources # <<>> THEN Internal ELSE Admitted
    ELSE IF named = {} THEN ScopeInvalid
    ELSE LET first == CHOOSE i \in named : \A j \in named : i <= j IN
         IF ShapeAllowed(p.resources[first], s) THEN Admitted ELSE ScopeInvalid

\* sharedstream.Handler's wrapper and Principal: a session that both expiries say is
\* still valid, and a subject the API server names (resolveSubject).
Subjects == {"user", "nobody", "unresolved"}
Principal(r) ==
    IF r.session # "valid" \/ r.subject = "unresolved" THEN Unauthenticated ELSE Admitted

\* Handler: the caller, the scope's syntax, the allowlist, in this order.
Handler(p, r) ==
    IF Principal(r) # Admitted THEN Principal(r)
    ELSE IF ScopeFromQuery(r.query) # Admitted THEN ScopeFromQuery(r.query)
    ELSE Validate(p, r.query)

\* StaticProjection(ProjectionFull).SelectProjection.
SelectProjection(requested) == IF requested \in {"", "full"} THEN Admitted ELSE Forbidden

\* The shared stream host's authorizer before it asks the cluster: one fixed object.
FixedScope(s) ==
    /\ s.target = "" /\ s.group = "" /\ s.version = "v1" /\ s.resource = "configmaps"
    /\ s.namespace = "ns" /\ s.name = "cm" /\ s.labelSelector = ""

\* SubjectAccessReviewAuthorizer: a subject that is nobody is refused unasked, ...
NoSubject(r) == r.subject = "nobody"
AuthorizerRefuses(p, r) == (p.fixedScope /\ ~FixedScope(r.query)) \/ NoSubject(r)

\* ... and each verb is reviewed in turn.  A review is answered (allowed, or not, or
\* denied outright) or fails; a failure is never an allow.
Answers == {"allowed", "unreachable", "failed"}
ReviewVerdict(answer, granted) ==
    CASE answer = "unreachable" -> Verdict("UPSTREAM_UNAVAILABLE", FALSE)
      [] answer = "failed"      -> Internal
      [] OTHER                  -> IF granted THEN Admitted ELSE Forbidden

-----------------------------------------------------------------------------
\* The types: Scope with the query's other parameters, a request, and a host's policy.
\* fixedScope: its authorizer is the shared stream host's.
Queries == [params : SUBSET STRING, target : STRING, group : STRING, version : STRING,
            resource : STRING, namespace : STRING, name : STRING, labelSelector : STRING]
RequestTypes == [session : {"valid", "expired"}, subject : Subjects, query : Queries,
                 projection : STRING]
GroupResources == [group : STRING, resource : STRING, scope : STRING,
                   allowAllNamespaces : BOOLEAN]
ScopePolicies == [targets : SUBSET STRING, resources : Seq(GroupResources),
                  anyResource : BOOLEAN, allowLabelSelector : BOOLEAN, fixedScope : BOOLEAN]

ConfigMaps(all) == [group |-> "", resource |-> "configmaps", scope |-> "namespaced",
                    allowAllNamespaces |-> all]
SharedStreamPolicy == [targets |-> {""}, resources |-> <<ConfigMaps(FALSE)>>,
                       anyResource |-> FALSE, allowLabelSelector |-> FALSE, fixedScope |-> TRUE]

-----------------------------------------------------------------------------
\* The reference: what a host that wrote the policy down expects of it, gate after gate.

\* An authorizer may be asked about the request at all: the caller is known, the scope is
\* well formed, and the entry of the allowlist that comes first for its resource serves it.
Serves(gr, s) ==
    \/ gr.scope = "cluster" /\ s.namespace = ""
    \/ gr.scope = "namespaced" /\ s.namespace # ""
    \/ gr.scope = "namespaced" /\ gr.allowAllNamespaces
Askable(p, r) ==
    /\ r.session = "valid" /\ r.subject # "unresolved"
    /\ r.query.params \cap ForbiddenParams = {}
    /\ {r.query.resource, r.query.version} \cap (Capitals \cup Paths \cup {""}) = {}
    /\ {r.query.group, r.query.namespace, r.query.name, r.query.target}
          \cap (Capitals \cup Paths) = {}
    /\ r.query.target \in p.targets
    /\ r.query.labelSelector # "" => p.allowLabelSelector
    /\ \/ p.anyResource /\ p.resources = <<>>
       \/ /\ ~p.anyResource
          /\ \E i \in DOMAIN p.resources :
                /\ Names(p.resources[i], r.query) /\ Serves(p.resources[i], r.query)
                /\ \A j \in 1 .. i - 1 : ~Names(p.resources[j], r.query)

\* The cluster may be asked: there is a subject to ask about, and where the host streams
\* one object only, it is that one.
TheObject == [target |-> "", group |-> "", version |-> "v1", resource |-> "configmaps",
              namespace |-> "ns", name |-> "cm", labelSelector |-> ""]
Reviewable(p, r) ==
    /\ Askable(p, r) /\ r.subject = "user"
    /\ p.fixedScope => \A f \in DOMAIN TheObject : r.query[f] = TheObject[f]

\* Nothing but the cluster and the projection policy stand between the request and its
\* events, and the view it names is the one the host projects.
Entitled(p, r) == Reviewable(p, r) /\ (r.projection = "" \/ r.projection = "full")
=============================================================================
