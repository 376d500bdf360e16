---------------------------- MODULE RequestTarget ----------------------------
(***************************************************************************)
(* The target of a request: base URL, path template, path parameters and   *)
(* query values (request.go, request_metadata.go), the URL that            *)
(* resolveRequestURL makes of them, and what Prepare shows of it           *)
(* (request_plan.go, request_preparation.go). A request builder has a      *)
(* target next to what RequestBuilder models; calls on both interleave.    *)
(*                                                                         *)
(* A template is split: scheme, authority, path and query are sequences of *)
(* tokens, a token being a text without delimiters, a slash or the         *)
(* placeholder of a parameter. Placeholders do not nest, and values do not *)
(* contain delimiters: url.PathEscape would escape them. Fragments and     *)
(* userinfo are never projected and are left out.                          *)
(***************************************************************************)
EXTENDS RequestProjection

CONSTANTS BaseURLs,     \* base URLs of clients, without the unset one
          Templates,    \* arguments of Path and PathValue
          Params,       \* names of path parameters
          QueryNames,   \* names of query values
          Tags          \* whether values are public, private or either

Tokens == [text: STRING, param: BOOLEAN]
QueryOccurrences == Seq([name: STRING, value: [value: STRING, public: BOOLEAN]])

ASSUME TargetAssumption ==
    /\ BaseURLs \subseteq [set: {TRUE}, path: Seq(Tokens), query: QueryOccurrences]
    /\ Templates \subseteq
        [absolute: BOOLEAN, scheme: Seq(Tokens), authority: Seq(Tokens), path: Seq(Tokens),
         query: Seq([name: Tokens, value: Tokens]), malformed: BOOLEAN]
    /\ Params \subseteq STRING /\ QueryNames \subseteq STRING /\ Tags \subseteq BOOLEAN

VARIABLES base,     \* base URL of the client
          path,     \* template of the builder and whether it is public
          params,   \* path parameters that are set -> value
          queries   \* query occurrences of the builder

targetVars == <<base, path, params, queries>>

Text(t) == [text |-> t, param |-> FALSE]
Param(p) == [text |-> p, param |-> TRUE]
Slash == Text("/")
NoBase == [set |-> FALSE, path |-> <<>>, query |-> <<>>]
Template(absolute, authority, pathname, query) ==
    [absolute |-> absolute, scheme |-> IF absolute THEN <<Text("https")>> ELSE <<>>,
     authority |-> authority, path |-> pathname, query |-> query, malformed |-> FALSE]

TargetInit ==
    /\ base = NoBase
    /\ path = [template |-> Template(FALSE, <<>>, <<>>, <<>>), public |-> FALSE]
    /\ params = [p \in {} |-> Value("v", FALSE)]
    /\ queries = <<>>

-----------------------------------------------------------------------------
\* Calls

TargetCall == calls < MaxCalls /\ calls' = calls + 1

WithBaseURL ==
    /\ clientCalls < MaxClientCalls /\ clientCalls' = clientCalls + 1
    /\ base' \in BaseURLs
    /\ UNCHANGED <<path, params, queries, calls>>

\* Path and PathValue
PathValue ==
    /\ TargetCall
    /\ \E t \in Templates, public \in Tags : path' = [template |-> t, public |-> public]
    /\ UNCHANGED <<base, params, queries, clientCalls>>

\* PathParam, PathParams and PathParamValue
PathParamValue ==
    /\ TargetCall
    /\ \E p \in Params, public \in Tags :
        params' = [q \in DOMAIN params \cup {p} |->
                      IF q = p THEN Value("v", public) ELSE params[q]]
    /\ UNCHANGED <<base, path, queries, clientCalls>>

DelPathParam ==
    /\ TargetCall
    /\ \E p \in Params : params' = [q \in DOMAIN params \ {p} |-> params[q]]
    /\ UNCHANGED <<base, path, queries, clientCalls>>

\* Query, Queries, QueriesStruct and QueryValue
QueryValue ==
    /\ TargetCall
    /\ \E n \in QueryNames, public \in Tags :
        queries' = Append(queries, [name |-> n, value |-> Value("q", public)])
    /\ UNCHANGED <<base, path, params, clientCalls>>

DelQuery ==
    /\ TargetCall
    /\ \E n \in QueryNames : queries' = Keep(queries, {i \in DOMAIN queries : queries[i].name # n})
    /\ UNCHANGED <<base, path, params, clientCalls>>

TargetNext ==
    /\ \/ WithBaseURL \/ PathValue \/ PathParamValue \/ DelPathParam \/ QueryValue \/ DelQuery
    /\ UNCHANGED <<client, request, body, preparationErr>>

RequestNext ==
    \/ Next /\ UNCHANGED targetVars
    \/ TargetNext

RequestInit == Init /\ TargetInit
RequestSpec == RequestInit /\ [][RequestNext]_<<vars, targetVars>>

-----------------------------------------------------------------------------
\* resolveRequestURL

\* requestTarget.resolvedPath: a token keeps track of who contributed it.
Resolved(t) ==
    IF t.param /\ t.text \in DOMAIN params THEN params[t.text] ELSE Value(t.text, path.public)
ResolvedSeq(ts) == [i \in DOMAIN ts |-> Resolved(ts[i])]
PathQuery ==
    [i \in DOMAIN path.template.query |->
        [name |-> Resolved(path.template.query[i].name).value,
         value |-> Resolved(path.template.query[i].value)]]
BasePath == [i \in DOMAIN base.path |-> Value(base.path[i].text, FALSE)]

IsSlash(v) == v.value = "/"
TrimLeft(s) == LET n == CHOOSE n \in 0..Len(s) : /\ \A i \in 1..n : IsSlash(s[i])
                                                 /\ n = Len(s) \/ ~IsSlash(s[n + 1])
               IN SubSeq(s, n + 1, Len(s))
TrimRight(s) == LET n == CHOOSE n \in 0..Len(s) : /\ \A i \in (n + 1)..Len(s) : IsSlash(s[i])
                                                  /\ n = 0 \/ ~IsSlash(s[n])
                IN SubSeq(s, 1, n)

joinEscapedURLPath(basePath, requestPath) ==
    IF requestPath = <<>> THEN basePath
    ELSE (IF Raw(basePath) \in {<<>>, <<"/">>} THEN <<>> ELSE TrimRight(basePath))
            \o <<Value("/", TRUE)>> \o TrimLeft(requestPath)

Overrides == path.template.absolute \/ ~base.set

SentPath ==
    IF Overrides THEN ResolvedSeq(path.template.path)
    ELSE joinEscapedURLPath(BasePath, ResolvedSeq(path.template.path))

\* url.Parse takes no brace in a scheme or a host.
Unparsable ==
    LET ts == path.template.scheme \o path.template.authority
    IN \E i \in DOMAIN ts : ts[i].param /\ ts[i].text \notin DOMAIN params

\* A query that does not parse is an error when values have to be added to it.
SentFails == Unparsable \/ (path.template.malformed /\ (~Overrides \/ queries # <<>>))

\* addQueryValues adds the values name by name.
Named(occurrences, n) ==
    Keep(occurrences, {i \in DOMAIN occurrences : occurrences[i].name = n})
SentQuery(n) ==
    (IF Overrides THEN <<>> ELSE Named(base.query, n)) \o Named(PathQuery, n) \o Named(queries, n)

-----------------------------------------------------------------------------
\* compileQueryOccurrences and the projections of Prepare

PlanFails ==
    Unparsable \/ (path.template.malformed /\ (~path.template.absolute \/ queries # <<>>))

PrivateQuery(occurrences) ==
    [i \in DOMAIN occurrences |-> [occurrences[i] EXCEPT !.value = Value(@.value, FALSE)]]

\* The stable sort by name keeps the order within a name.
compileQueryOccurrences_BuilderFirst(n) ==
    Named(queries, n) \o
    Named((IF Overrides THEN <<>> ELSE PrivateQuery(base.query)) \o PrivateQuery(PathQuery), n)
compileQueryOccurrences(n) ==
    Named((IF Overrides THEN <<>> ELSE PrivateQuery(base.query))
              \o PrivateQuery(PathQuery) \o queries, n)

\* traceRequestTarget counts the placeholders of parameters that are set.
Uses(ts, p) == \E i \in DOMAIN ts : ts[i] = Param(p)
QueryNameTokens == [i \in DOMAIN path.template.query |-> path.template.query[i].name]
basePathPrivate ==
    ~path.template.absolute /\ base.set /\ base.path \notin {<<>>, <<Slash>>}

\* validatePreparationEligibility, on the target
TargetPreparable ==
    \A p \in DOMAIN params : ~params[p].public =>
        /\ ~Uses(path.template.scheme, p) /\ ~Uses(path.template.authority, p)
        /\ ~Uses(QueryNameTokens, p)

\* projectPreparedTarget
PathShown ==
    /\ path.public /\ ~basePathPrivate
    /\ \A p \in DOMAIN params : Uses(path.template.path, p) => params[p].public

-----------------------------------------------------------------------------
\* Properties

\* The name of every query occurrence that is sent.
SentNames == {q.name : q \in {base.query[i] : i \in DOMAIN base.query}
                             \cup {PathQuery[i] : i \in DOMAIN PathQuery}
                             \cup {queries[i] : i \in DOMAIN queries}}

\* Query values as Prepare shows them are those that are sent, in the same
\* order for a name, although they are compiled apart from the URL; one is
\* shown only when it is a builder's and public.
PreparedQueryIsSent ==
    \A n \in SentNames : LET shown == compileQueryOccurrences(n) IN
        /\ Len(shown) = Len(SentQuery(n))
        /\ \A i \in DOMAIN shown :
            /\ shown[i].value.value = SentQuery(n)[i].value.value
            /\ shown[i].value.public => SentQuery(n)[i].value.public
                                        /\ i > Len(SentQuery(n)) - Len(Named(queries, n))

\* Nothing that is private contributed to what Prepare shows of scheme,
\* authority, path and query names.
ShownIsPublic ==
    /\ PathShown => \A i \in DOMAIN SentPath : IsSlash(SentPath[i]) \/ SentPath[i].public
    /\ \A t \in {path.template.scheme[i] : i \in DOMAIN path.template.scheme}
                 \cup {path.template.authority[i] : i \in DOMAIN path.template.authority}
                 \cup {QueryNameTokens[i] : i \in DOMAIN QueryNameTokens} :
            t.param /\ t.text \in DOMAIN params => params[t.text].public

\* The path of the base URL and that of the request are joined by one slash.
JoinedByOneSlash ==
    ~Overrides /\ path.template.path # <<>> /\ BasePath # <<>> =>
        LET n == Len(TrimRight(BasePath))
        IN /\ IsSlash(SentPath[n + 1])
           /\ Len(SentPath) > n + 1 => ~IsSlash(SentPath[n + 2])

\* Prepare tells the truth about the target (SPECS/21-request-builder-api-specs
\* 285-291, 366-376), and a query that parses for one of the two compilations
\* of the query parses for the other, except in a URL without a host.
PreparedTargetIsSent ==
    /\ SentFails => PlanFails
    /\ PlanFails /\ ~SentFails => ~path.template.absolute /\ ~base.set
    /\ ~PlanFails /\ ~path.template.malformed => PreparedQueryIsSent
    /\ TargetPreparable => ShownIsPublic
    /\ JoinedByOneSlash
=============================================================================
