---------------------------- MODULE MCEventStream ----------------------------
(***************************************************************************)
(* Hosts and requests for TLC.  The requests are those that differ from one  *)
(* for the shared object in at most two parameters of the query.             *)
(***************************************************************************)
EXTENDS EventStream

Nodes(scope) == [group |-> "", resource |-> "nodes", scope |-> scope, allowAllNamespaces |-> TRUE]

\* The shared stream host; two lists of cluster-wide and namespaced resources, the second
\* with two entries for one resource and a resource whose scope was not set; no list.
MCPolicies ==
    LET host == [SharedStreamPolicy EXCEPT !.fixedScope = FALSE] IN
    {SharedStreamPolicy,
     [host EXCEPT !.resources = <<Nodes("cluster"), ConfigMaps(TRUE)>>,
                  !.allowLabelSelector = TRUE],
     [host EXCEPT !.resources = <<ConfigMaps(FALSE), Nodes(""), ConfigMaps(TRUE)>>],
     [host EXCEPT !.resources = <<>>, !.anyResource = TRUE]}

MCRequests ==
    LET shared == [f \in DOMAIN TheObject \cup {"params"} |->
                      IF f = "params" THEN {"fixture"} ELSE TheObject[f]]
        queries == [params : {{"fixture"}, {"server"}}, target : {"", "east"},
                    group : {"", "apps"}, version : {"", "v1"},
                    resource : {"", "configmaps", "nodes", "ConfigMap"},
                    namespace : {"", "ns", "../x"}, name : {"", "cm"},
                    labelSelector : {"", "a=b"}] IN
    [session : {"valid", "expired"}, subject : Subjects, projection : {"", "full", "raw"},
     query : {q \in queries :
                 Cardinality({f \in DOMAIN shared : q[f] # shared[f]}) <= 2}]
=============================================================================
