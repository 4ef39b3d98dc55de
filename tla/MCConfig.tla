------------------------------ MODULE MCConfig ------------------------------
(* Files in three families, each crossing what it is about and fixing the    *)
(* rest: the bucket blocks of defaults and entry, the other fields, and      *)
(* lists of entries.  One set has the entries, the other has none.           *)
EXTENDS Config

Block(m, s, v) == [mode |-> m, scale |-> s, values |-> v]
Static(v) == Block("static", "none", v)
GoodSizes == Static("good")

TTLBlocks == {Unset, Block("auto", "exponential", "missing"), Static("good"), Static("garbage"),
              Static("descending"), Static("missing"), Block("static", "linear", "good"),
              Block("exponential", "none", "good"), Block("exponential", "none", "descending"),
              Block("linear", "none", "descending"), Block("other", "none", "good")}
SizeBlocks == {Unset, GoodSizes, Static("garbage"), Static("descending"),
               Block("auto", "none", "missing"), Block("none", "other", "missing")}

File(auto, n, defaults, monitor) ==
    [autoDiscover |-> auto, bucketCount |-> n, defaults |-> defaults, monitor |-> monitor]
Entry(s, o) == [key |-> s, conf |-> o]

Defaults(t, sz, z) == [Zero EXCEPT !.ttlBuckets = t, !.sizes = sz, !.sizeBuckets = z]

\* Some of an entry's block fields.
BlockEntries ==
    UNION {{[f \in F |-> Defaults(t, TRUE, z)[f]] : t \in TTLBlocks, z \in SizeBlocks} :
           F \in SUBSET {"ttlBuckets", "sizes", "sizeBuckets"}}
MCBlockFiles ==
    {File(auto, 0, Defaults(t, sz, z), <<Entry("a", o)>>) :
        auto \in BOOLEAN, t \in {Unset, Block("auto", "exponential", "missing"), Static("good"),
                                 Static("garbage"), Block("other", "none", "good")},
        sz \in BOOLEAN, z \in SizeBlocks, o \in BlockEntries}

PlainEntriesOf(N, D, Q, B, Fs) ==
    UNION {{[f \in F \cup {"ttlBuckets"} |->
                [Zero EXCEPT !.recordCount = n, !.duration = d, !.targets = q, !.ttlBuckets = b][f]] :
                n \in N, d \in D, q \in Q, b \in B} : F \in SUBSET Fs}
PlainEntries == PlainEntriesOf({0, 5}, Durations, {"empty", "outside"},
                               {Static("good")}, {"recordCount", "duration", "targets"})
ListEntries == PlainEntriesOf({0}, {"5m"}, {"none"}, {Static("good"), Static("descending")},
                              {"recordCount", "duration"})
MCPlainFiles ==
    {File(auto, n, [Zero EXCEPT !.recordCount = r, !.duration = d, !.targets = q], <<Entry("a", o)>>) :
        auto \in BOOLEAN, n \in {-1, 0}, r \in {0, -1}, d \in {"none", "garbage"},
        q \in {"none", "outside"}, o \in PlainEntries}

\* Two entries of one set, and no entry at all.
MCListFiles ==
    {File(auto, 10, Zero, l) :
        auto \in BOOLEAN,
        l \in {<<>>} \cup {<<Entry("a", o), Entry(s, p)>> :
                             s \in {"a", "b"}, o \in ListEntries, p \in ListEntries}}

MCFiles == MCBlockFiles \cup MCPlainFiles \cup MCListFiles
MCSets == {"a", "b"}
=============================================================================
