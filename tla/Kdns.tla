-------------------------------- MODULE Kdns --------------------------------
(***************************************************************************)
(* kdns, a DNS forwarder between the programs of a host and its real DNS   *)
(* server.  Behind each question for an IPv4 address it asks for the IPv6  *)
(* address too; names that turn out to have one get 127.0.0.1 as their     *)
(* only IPv4 address, so that programs go on to IPv6.                      *)
(* An answer is brought back to some item of the queue with its id.        *)
(***************************************************************************)
EXTENDS Integers, Sequences, FiniteSets, SequencesExt, Bags

CONSTANTS
    Clients,    \* addresses and ports
    Ids,        \* ids of questions
    Names,
    HasIPv6,    \* the names with an IPv6 address
    Shapes,     \* the types of the records that an IPv4 question may get
    MaxAsks     \* bound: questions of the clients

VARIABLES
    m_qrqueue,          \* the questions that wait, by client and id
    m_domain_has_ipv6,
    upstream,           \* questions at the real server that have no answer yet
    asked,              \* how many questions each client has asked, by id
    got,                \* how many answers came back
    last                \* the last answer that came back

vars == <<m_qrqueue, m_domain_has_ipv6, upstream, asked, got, last>>

Question(id, type, name) == [id |-> id, type |-> type, name |-> name]
Item(c, id) == [client |-> c, qid |-> id]
NoItem == [client |-> "nobody", qid |-> 0]
NoAnswer == [item |-> NoItem]
Record(type, name) == [type |-> type, owner |-> name, addr |-> "real"]

Init ==
    /\ m_qrqueue = {} /\ m_domain_has_ipv6 = {}
    /\ upstream = EmptyBag /\ asked = EmptyBag /\ got = EmptyBag
    /\ last = NoAnswer

----------------------------------------------------------------------------
\* A question that is repeated while it waits has one item and goes upstream
\* again.  The question for IPv6 gets a random id, which may be in use.
ProcessQuery(c, q) ==
    \E r \in Ids:
        /\ m_qrqueue' = m_qrqueue \cup {Item(c, q.id)}
        /\ upstream' = upstream (+) SetToBag({q}) (+)
               (IF q.type = "A" THEN SetToBag({Question(r, "AAAA", q.name)}) ELSE EmptyBag)
        /\ UNCHANGED <<m_domain_has_ipv6, got, last>>

OnReadyRead(c, q) ==
    /\ BagCardinality(asked) < MaxAsks
    /\ asked' = asked (+) SetToBag({Item(c, q.id)})
    /\ ProcessQuery(c, q)

----------------------------------------------------------------------------
\* Mutant of ProcessRecord: a record is taken away whatever the next is.
ProcessRecordPops(a, i) ==
    LET rr == a.rrs[i]
        hijack == rr.type = "A" /\ rr.owner \in a.known
        rrs == [a.rrs EXCEPT ![i].addr = IF hijack THEN "127.0.0.1" ELSE @]
    IN [rrs |-> IF rr.type = "A" /\ (a.rewrite \/ hijack) /\ i > 1 THEN Front(rrs) ELSE rrs,
        rewrite |-> a.rewrite \/ hijack,
        known |-> IF rr.type = "AAAA" THEN a.known \cup {rr.owner} ELSE a.known]

\* One record of an answer, from the last to the first.  The last record is
\* taken away when this one is an address to be replaced and so is the next.
ProcessRecord(a, i) ==
    LET rr == a.rrs[i]
        hijack == rr.type = "A" /\ rr.owner \in a.known
        rrs == [a.rrs EXCEPT ![i].addr = IF hijack THEN "127.0.0.1" ELSE @]
        pops == rr.type = "A" /\ (a.rewrite \/ hijack) /\ i > 1 /\ rrs[i - 1].type = "A"
    IN [rrs |-> IF pops THEN Front(rrs) ELSE rrs,
        rewrite |-> a.rewrite \/ hijack,
        known |-> IF rr.type = "AAAA" THEN a.known \cup {rr.owner} ELSE a.known]

Processed(rrs, known) ==
    FoldLeft(ProcessRecord, [rrs |-> rrs, rewrite |-> FALSE, known |-> known],
             Reverse([i \in 1..Len(rrs) |-> i]))

\* Mutant of FindItemByQid: the last item looked at when none has the id.
FindItemLast(qid) ==
    LET found == {it \in m_qrqueue: it.qid = qid}
    IN IF m_qrqueue = {} THEN {NoItem} ELSE IF found = {} THEN m_qrqueue ELSE found

\* The items that a search for the id may find: a QHash has no order.
FindItemByQid(qid) ==
    LET found == {it \in m_qrqueue: it.qid = qid}
    IN IF found = {} THEN {NoItem} ELSE found

ProcessResponse(q, rrs) ==
    \E item \in FindItemByQid(q.id):
        LET answer == Processed(rrs, m_domain_has_ipv6) IN
        /\ m_domain_has_ipv6' = answer.known
        /\ IF item = NoItem THEN UNCHANGED <<got, last>>
           ELSE /\ got' = got (+) SetToBag({[item EXCEPT !.qid = q.id]})
                /\ last' = [item |-> item, q |-> q, from |-> rrs, rrs |-> answer.rrs,
                            known |-> m_domain_has_ipv6]
        /\ m_qrqueue' = m_qrqueue \ {item}

\* The answers that the real server gives to a question.
AnswersTo(q) ==
    LET Records(types) == [i \in DOMAIN types |-> Record(types[i], q.name)]
    IN IF q.type = "A" THEN {Records(s): s \in Shapes}
       ELSE IF q.name \in HasIPv6 THEN {Records(<<"AAAA">>), Records(<<"CNAME", "AAAA">>)}
       ELSE {<<>>}

\* The real server answers in any order, or not at all.
OnFwdReadyRead ==
    \E q \in BagToSet(upstream): \E rrs \in AnswersTo(q):
        /\ upstream' = upstream (-) SetToBag({q})
        /\ ProcessResponse(q, rrs)
        /\ UNCHANGED asked

Next ==
    \/ \E c \in Clients, id \in Ids, type \in {"A", "AAAA"}, name \in Names:
           OnReadyRead(c, Question(id, type, name))
    \/ OnFwdReadyRead

Spec == Init /\ [][Next]_vars

----------------------------------------------------------------------------
BagOfId(questions, id) ==
    [q \in {p \in DOMAIN questions: p.id = id} |-> questions[q]]

\* Nobody gets more answers with an id than it asked questions with it, and no
\* item waits for an answer that was brought to another: for every item there
\* is a question with its id at the real server.  (The question for IPv6 and
\* other clients use the same ids, and a client may repeat a question.)
AnswersToAskers ==
    /\ got \sqsubseteq asked
    /\ \A id \in Ids: Cardinality({it \in m_qrqueue: it.qid = id})
                         <= BagCardinality(BagOfId(upstream, id))

Fours(rrs) == SelectSeq(rrs, LAMBDA r: r.type = "A")

\* processResponse: of a name that was known to have an IPv6 address nobody gets
\* an IPv4 address but 127.0.0.1, and that if there was any; an answer of another
\* name comes back as it was.
HijackedRight ==
    last # NoAnswer =>
        IF last.q.type = "A" /\ last.q.name \in last.known
        THEN /\ \A r \in Range(Fours(last.rrs)): r.addr = "127.0.0.1"
             /\ Fours(last.from) # <<>> => Fours(last.rrs) # <<>>
        ELSE last.rrs = last.from
=============================================================================
