--------------------------- MODULE OrderedHeaders ---------------------------
(***************************************************************************)
(* Ordered header metadata (ordered_headers.go): an ordered object from    *)
(* header names, as they were spelled, to the values of each. A spelled    *)
(* name is a record: the name and the spelling; two keys are EqualFold     *)
(* when their names are equal. The object itself                           *)
(* (github.com/agentable/go-orderedobject) is external: Set keeps the      *)
(* place of a key it knows and appends one it does not.                    *)
(***************************************************************************)
EXTENDS Integers, Sequences, FiniteSetsExt, SequencesExt, Subsequences

\* The names only HTTP/2 and HTTP/3 transports read (":method", ...).
PseudoNames == {":p"}

isPseudoHeader(key) == key.name \in PseudoNames

Entry(key, values) == [key |-> key, values |-> values]

\* A nil object is not the same as an empty one.
NilObject == [active |-> FALSE, entries |-> <<>>]
Object(entries) == [active |-> TRUE, entries |-> entries]

Put(entries, key, values) ==
    IF \E i \in DOMAIN entries : entries[i].key = key
    THEN [i \in DOMAIN entries |->
            IF entries[i].key = key THEN Entry(key, values) ELSE entries[i]]
    ELSE Append(entries, Entry(key, values))

Drop(entries, key) == Keep(entries, {i \in DOMAIN entries : entries[i].key # key})

-----------------------------------------------------------------------------
orderedHeaderKey_Exact(entries, key) ==
    LET exact == {i \in DOMAIN entries : entries[i].key = key}
    IN  IF exact # {} THEN Min(exact) ELSE 0

\* The place of the key with this exact spelling, or else of the first one
\* with this name; 0 if there is none.
orderedHeaderKey(entries, key) ==
    LET exact == {i \in DOMAIN entries : entries[i].key = key}
        folded == {i \in DOMAIN entries : entries[i].key.name = key.name}
    IN  IF exact # {} THEN Min(exact)
        ELSE IF folded # {} THEN Min(folded) ELSE 0

\* The key a change to this name goes to.
KnownKey(entries, key) ==
    LET i == orderedHeaderKey(entries, key)
    IN  IF i = 0 THEN key ELSE entries[i].key

ValuesAt(entries, key) ==
    LET i == orderedHeaderKey(entries, key)
    IN  IF i = 0 THEN <<>> ELSE entries[i].values

setOrderedHeaderValues_Append(entries, key, values) ==
    Append(Keep(entries, {i \in DOMAIN entries : entries[i].key.name # key.name}), Entry(key, values))

setOrderedHeaderValues(entries, key, values) ==
    Put(entries, KnownKey(entries, key), values)

addOrderedHeaderValues(entries, key, values) ==
    Put(entries, KnownKey(entries, key), ValuesAt(entries, key) \o values)

deleteOrderedHeader(entries, key) ==
    Drop(entries, KnownKey(entries, key))

\* One deletion for each key. The keys have different names, so that none
\* changes what another one finds and their order does not matter.
deleteOrderedHeaders(entries, keys) ==
    Keep(entries, {i \in DOMAIN entries : \A key \in keys : entries[i].key # KnownKey(entries, key)})

\* Entries whose names differ only in case become one.
cloneEntries(entries) ==
    LET clone[k \in 0..Len(entries)] ==
            IF k = 0 THEN <<>>
            ELSE addOrderedHeaderValues(clone[k - 1], entries[k].key, entries[k].values)
    IN  clone[Len(entries)]

cloneOrderedHeaders(object) == [object EXCEPT !.entries = cloneEntries(@)]

\* An entry of override takes the place of the one of its name, at the end.
overrideEntries(entries, override) ==
    LET merged[k \in 0..Len(override)] ==
            IF k = 0 THEN entries
            ELSE Put(deleteOrderedHeader(merged[k - 1], override[k].key),
                     override[k].key, override[k].values)
    IN  merged[Len(override)]

mergeOrderedHeaders(base, override) ==
    IF ~override.active THEN cloneOrderedHeaders(base)
    ELSE IF ~base.active THEN cloneOrderedHeaders(override)
    ELSE Object(overrideEntries(cloneEntries(base.entries), override.entries))

-----------------------------------------------------------------------------
(* An http.Header is a function from the names to their values; a name     *)
(* without values is not in the map.                                       *)

\* What the object holds under a name, in any spelling.
HasName(object, name) == \E i \in DOMAIN object.entries : object.entries[i].key.name = name
ValuesOf(object, name) ==
    FlattenSeq([i \in DOMAIN object.entries |->
        IF object.entries[i].key.name = name THEN object.entries[i].values ELSE <<>>])

addHeaderValues(dst, src, object) ==
    [n \in DOMAIN dst |->
        dst[n] \o (IF HasName(object, n) THEN ValuesOf(object, n) ELSE src[n])]

deleteHeaderValues(headers, name) == [headers EXCEPT ![name] = <<>>]

overlayHeaderValues(dst, src, object) ==
    addHeaderValues(
        [n \in DOMAIN dst |-> IF src[n] # <<>> \/ HasName(object, n) THEN <<>> ELSE dst[n]],
        src, object)

\* Pseudo-headers stay; an entry whose header has no value any more goes.
syncOrderedHeaderValues(object, semantic) ==
    [object EXCEPT !.entries =
        LET kept == Keep(@, {i \in DOMAIN object.entries :
                                \/ isPseudoHeader(object.entries[i].key)
                                \/ semantic[object.entries[i].key.name] # <<>>})
        IN  [i \in DOMAIN kept |->
                IF isPseudoHeader(kept[i].key) THEN kept[i]
                ELSE Entry(kept[i].key, semantic[kept[i].key.name])]]
=============================================================================
