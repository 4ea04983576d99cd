------------------------------- MODULE Router -------------------------------
(***************************************************************************)
(* The router: a table from methods and resources to endpoints, filled     *)
(* before the server starts, and the way from the target of a request      *)
(* ("/some/resource?key1=value1#fragment") to an endpoint and its          *)
(* arguments.  A text is a sequence of characters.                         *)
(***************************************************************************)
EXTENDS Naturals, Sequences, SequencesExt

CONSTANTS
    Characters,
    Lower,          \* what to_lower_copy makes of each character
    Verbs,          \* HTTP methods
    Endpoints,
    Resources,      \* the resources that routes are added for
    Inputs,         \* what clients ask for: see Input
    MaxRoutes,      \* bound on the calls of add_route
    None

Text == Seq(Characters)

(* A client's request: a path, the items of a query, a fragment.  An item  *)
(* is a sequence of words, which are joined by "=", as items are by "&".   *)
Input(in) ==
    /\ in \in [path : Text, query : {None} \cup Seq(Seq(Text)), fragment : {None} \cup Text]
    /\ \A ch \in {"?", "#"} : ~Contains(in.path, ch)
    /\ in.query # None =>
          /\ in.query # <<>>
          /\ \A i \in DOMAIN in.query :
                /\ in.query[i] # <<>>
                /\ \A w \in DOMAIN in.query[i] : \A ch \in {"&", "="} :
                      ~Contains(in.query[i][w], ch)

ASSUME CharacterAssumption ==
    /\ {"/", "?", "#", "&", "="} \subseteq Characters
    /\ Lower \in [Characters -> Characters]
    /\ \A x \in Characters : \A ch \in {"/", "?", "#"} : Lower[x] = ch <=> x = ch

ASSUME RouterAssumption ==
    /\ Resources \subseteq Text
    /\ \A r \in Resources : r # <<>> /\ ~Contains(r, "?") /\ ~Contains(r, "#")
    /\ \A in \in Inputs : Input(in)
    /\ None \notin Endpoints

VARIABLES
    phase,      \* "setup", then "serving", then "answered"
    routes,     \* m_routes
    added,      \* the routes in the order in which they were added
    asked,      \* the verb and the input of the request being answered
    request,    \* its HttpRequest
    outcome     \* the endpoint called, or "bad_request"

vars == <<phase, routes, added, asked, request, outcome>>

-----------------------------------------------------------------------------
(* Texts.                                                                  *)

Join(texts, ch) ==
    FoldLeft(LAMBDA text, t : text \o <<ch>> \o t, Head(texts), Tail(texts))

(* The target by which a client asks for its input.                        *)
Target(in) ==
    in.path \o (IF in.query = None THEN <<>>
                ELSE <<"?">> \o Join([i \in DOMAIN in.query |-> Join(in.query[i], "=")], "&"))
            \o (IF in.fragment = None THEN <<>> ELSE <<"#">> \o in.fragment)

(* Whether the first "?" and the first "#" of its target are the only ones *)
(* that parse_request_target looks for.                                    *)
Clear(in) ==
    /\ in.fragment # None => ~Contains(in.fragment, "#")
    /\ in.query # None => \A i \in DOMAIN in.query : \A w \in DOMAIN in.query[i] :
          ~Contains(in.query[i][w], "?") /\ ~Contains(in.query[i][w], "#")

(* to_lower_copy.                                                          *)
ToLower(text) == [i \in DOMAIN text |-> Lower[text[i]]]

(* boost::split, which keeps empty parts.                                  *)
Split(text, ch) ==
    FoldLeft(LAMBDA parts, x : IF x = ch THEN Append(parts, <<>>)
                               ELSE [parts EXCEPT ![Len(parts)] = Append(@, x)],
             << <<>> >>, text)

(* Mutant: the resource is not put in lower case.                          *)
RouteKeysAsWritten(verb, resource) ==
    {<<verb, IF resource # <<>> /\ Last(resource) = "/" THEN resource ELSE Append(resource, "/")>>}

(* route_key.  For an empty resource the last character is read outside of *)
(* the string, and may seem to be a "/" or not.                            *)
RouteKeys(verb, resource) ==
    LET path == ToLower(resource) IN
    {<<verb, k>> : k \in IF path = <<>> THEN {path, <<"/">>}
                         ELSE IF Last(path) = "/" THEN {path} ELSE {Append(path, "/")}}

(* m[key] = value, for a map m.                                            *)
With(m, key, value) ==
    [k \in DOMAIN m \cup {key} |-> IF k = key THEN value ELSE m[k]]

(* Mutant: a pair is cut at its first "=", and need not have another.      *)
ParseQueryParametersLoosely(encoded) ==
    FoldLeft(LAMBDA parameters, pair : LET parts == Split(pair, "=") IN
                IF Len(parts) >= 2 THEN With(parameters, parts[1], parts[2]) ELSE parameters,
             << >>, Split(encoded, "&"))

ParseQueryParameters(encoded) ==
    FoldLeft(LAMBDA parameters, pair : LET parts == Split(pair, "=") IN
                IF Len(parts) = 2 THEN With(parameters, parts[1], parts[2]) ELSE parameters,
             << >>, Split(encoded, "&"))

(* What the router adds to the request it was given.                       *)
HttpRequest(path, segments, parameters, text) ==
    [resource_path |-> path, path_segments |-> segments,
     query_parameters |-> parameters, fragment |-> text]

(* parse_request_target: what follows the only "#", then the only "?".     *)
ParseRequestTarget(target) ==
    LET atFragment == Split(target, "#")
        beforeFragment == IF Len(atFragment) = 2 THEN atFragment[1] ELSE target
        atQuery == Split(beforeFragment, "?")
        path == IF Len(atQuery) = 2 THEN atQuery[1] ELSE beforeFragment
    IN  HttpRequest(path, Split(path, "/"),
                    IF Len(atQuery) = 2 THEN ParseQueryParameters(atQuery[2]) ELSE << >>,
                    IF Len(atFragment) = 2 THEN atFragment[2] ELSE <<>>)

-----------------------------------------------------------------------------
NoRequest == HttpRequest(<<>>, <<>>, << >>, <<>>)

Init ==
    /\ phase = "setup"
    /\ routes = << >>
    /\ added = <<>>
    /\ asked = None /\ request = NoRequest /\ outcome = None

AddRoute(verb, resource, endpoint) ==
    /\ phase = "setup" /\ Len(added) < MaxRoutes
    /\ \E key \in RouteKeys(verb, resource) : routes' = With(routes, key, endpoint)
    /\ added' = Append(added, [verb |-> verb, resource |-> resource, endpoint |-> endpoint])
    /\ UNCHANGED <<phase, asked, request, outcome>>

(* Server::start is called.                                                *)
Serve ==
    /\ phase = "setup"
    /\ phase' = "serving"
    /\ UNCHANGED <<routes, added, asked, request, outcome>>

(* lookup_endpoint.                                                        *)
LookupEndpoint(key) == IF key \in DOMAIN routes THEN routes[key] ELSE "bad_request"

(* resolve_route: the resource as a static path.                           *)
ResolveRoute(verb, path) == {LookupEndpoint(key) : key \in RouteKeys(verb, path)}

(* The result of validate_request is not used.                             *)
ProcessHttpRequest(verb, in) ==
    /\ phase = "serving"
    /\ phase' = "answered"
    /\ asked' = [verb |-> verb, in |-> in]
    /\ request' = ParseRequestTarget(Target(in))
    /\ outcome' \in ResolveRoute(verb, request'.resource_path)
    /\ UNCHANGED <<routes, added>>

(* The request goes out of scope.                                          *)
Done ==
    /\ phase = "answered"
    /\ phase' = "serving"
    /\ asked' = None /\ request' = NoRequest /\ outcome' = None
    /\ UNCHANGED <<routes, added>>

Next ==
    \/ \E verb \in Verbs : \/ \E r \in Resources, e \in Endpoints : AddRoute(verb, r, e)
                           \/ \E in \in Inputs : ProcessHttpRequest(verb, in)
    \/ Serve \/ Done

Spec == Init /\ [][Next]_vars

-----------------------------------------------------------------------------
(* A resource by which path it may be asked for: case does not matter      *)
(* (router.h:43), nor does one final slash.                                *)
Bare(path) == IF path # <<>> /\ Last(path) = "/" THEN Front(ToLower(path)) ELSE ToLower(path)

Matching(verb, path) ==
    {i \in DOMAIN added : added[i].verb = verb /\ Bare(added[i].resource) = Bare(path)}

(* A request reaches the endpoint that was last added for its method and   *)
(* its path, whatever query and fragment follow; if there is none it is a  *)
(* bad request.  It may also be a bad request, but never reaches another   *)
(* endpoint, when its path is empty or its target has several "?" or "#".  *)
EndpointIsTheOneAdded ==
    phase = "answered" =>
        LET found == Matching(asked.verb, asked.in.path) IN
        \/ found = {} /\ outcome = "bad_request"
        \/ \E i \in found : (\A j \in found : j <= i) /\ outcome = added[i].endpoint
        \/ (asked.in.path = <<>> \/ ~Clear(asked.in)) /\ outcome = "bad_request"

(* The fields that an endpoint is given are those that the client put into *)
(* a clear target: the path and its segments, the fragment, and for each   *)
(* key of the query the value in the last item that is a pair.             *)
FieldsAreThoseSent ==
    phase = "answered" /\ Clear(asked.in) =>
        LET in == asked.in
            Pairs == IF in.query = None THEN {}
                     ELSE {i \in DOMAIN in.query : Len(in.query[i]) = 2}
        IN  /\ request.resource_path = in.path
            /\ Join(request.path_segments, "/") = in.path
            /\ \A i \in DOMAIN request.path_segments : ~Contains(request.path_segments[i], "/")
            /\ request.fragment = IF in.fragment = None THEN <<>> ELSE in.fragment
            /\ DOMAIN request.query_parameters = {in.query[i][1] : i \in Pairs}
            /\ \A i \in Pairs :
                  (\A j \in Pairs : in.query[j][1] = in.query[i][1] => j <= i)
                  => request.query_parameters[in.query[i][1]] = in.query[i][2]
=============================================================================
