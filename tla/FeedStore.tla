----------------------------- MODULE FeedStore -----------------------------
(***************************************************************************)
(* The storage server of the feeds (feed/storage-serv): several worker     *)
(* processes that keep the feeds in MySQL with memcached in front.  A      *)
(* request is a sequence of calls of the two; the calls of the workers     *)
(* interleave, and nothing locks a feed between two calls of a request.    *)
(*                                                                         *)
(* MySQL and memcached are external: a call of either is one step.  The    *)
(* tables have no unique key (feeds_database.cpp:18-30,                    *)
(* pfeeds_database.cpp:24-37), so a feed can get more rows than one; of    *)
(* equal rows one is kept here, every statement treats them alike.         *)
(* memcached may forget an entry at any time.  Passive feeds (insert_p,    *)
(* update_p, del_p, get_p_pkgs) have tables and keys of their own.         *)
(***************************************************************************)
EXTENDS Integers, Sequences, FiniteSets, SequencesExt

CONSTANTS
    Workers,
    Active,      \* feeds, all of one user, cmd, app and magic (what del2 and get2 name)
    Passive,     \* passive feeds
    Stars,       \* feeds of start users: what memcached gets of them never expires
    Data,
    NoFeed,      \* no entry
    MaxRequests, \* requests handled
    MaxFaults    \* calls that fail, workers that die

Feeds == Active \cup Passive

ASSUME StoreAssumption ==
    /\ IsFiniteSet(Feeds) /\ Active \cap Passive = {} /\ Stars \subseteq Active
    /\ Data # {} /\ NoFeed \notin Data
    /\ MaxRequests \in Nat /\ MaxFaults \in Nat

VARIABLES
    db,          \* the data of the rows with a feed's id
    memc,        \* the entries of memcached
    forever,     \* the feeds whose entry has no time to expire
    worker,      \* what each worker handles or has handled
    torn,        \* history: feeds with a change that overlapped another request of
                 \* theirs, or that was cut short
    requests, faults

vars == <<db, memc, forever, worker, torn, requests, faults>>

\* calls: what the request still calls; aim: the rows a change is to leave behind; answer:
\* what the request is or the last one was answered.
Idle == [request |-> "none", calls |-> <<>>, feeds |-> {}, aim |-> {}, answer |-> "none"]
Busy(w) == worker[w].calls # <<>>
Has(f) == db[f] # {}

Init ==
    /\ db \in [Feeds -> {{CHOOSE d \in Data : TRUE}, {}}]       \* after earlier requests
    /\ memc \in [Feeds -> Data \cup {NoFeed}]
    /\ \A f \in Feeds : memc[f] \in db[f] \cup {NoFeed}
    /\ forever = Stars
    /\ worker = [w \in Workers |-> Idle]
    /\ torn = {} /\ requests = 0 /\ faults = 0

(***************************************************************************)
(* Requests.  What a request finds out with its first call decides the     *)
(* calls it makes after it, so that call is the step that takes it.        *)
(***************************************************************************)

Reads == {"get", "get_keys", "get2", "get_p"}

\* Requests that overlap on a feed, one of them a change, may leave any of their feeds torn;
\* and a change moves what it finds of a torn feed to another one.
Torn(w, request, feeds) ==
    LET others == {v \in Workers \ {w} : /\ Busy(v) /\ worker[v].feeds \cap feeds # {}
                                         /\ ~ {request, worker[v].request} \subseteq Reads}
    IN (UNION {worker[v].feeds \cup feeds : v \in others})
       \cup (IF request \notin Reads /\ feeds \cap torn # {} THEN feeds ELSE {})
Take(w, request, feeds, calls, aim, answer) ==
    /\ ~ Busy(w) /\ requests < MaxRequests
    /\ requests' = requests + 1
    /\ IF calls = <<>>
       THEN worker' = [worker EXCEPT ![w] = [Idle EXCEPT !.answer = answer]] /\ UNCHANGED torn
       ELSE /\ worker' = [worker EXCEPT ![w] = [request |-> request, calls |-> calls,
                                  feeds |-> feeds, aim |-> aim, answer |-> answer]]
            /\ torn' = torn \cup Torn(w, request, feeds)
    /\ UNCHANGED <<db, memc, forever, faults>>

\* insert, insert_p: memcached is left alone.
Insert(w, f, d) ==
    IF Has(f) THEN Take(w, "insert", {f}, <<>>, {}, "dup")
    ELSE Take(w, "insert", {f}, <<<<"insert", f, d>>>>, {<<f, d>>}, "ok")

\* update: the data of a feed, whose id stays.
Update(w, f, d) ==
    IF ~ Has(f) THEN Take(w, "update", {f}, <<>>, {}, "feedid")
    ELSE Take(w, "update", {f}, <<<<"update", f, f, d>>, <<"replace", f, d>>>>, {<<f, d>>}, "ok")
\* update_p does not look first.
UpdateP(w, f, d) ==
    Take(w, "update_p", {f}, <<<<"update", f, f, d>>, <<"replace", f, d>>>>, {<<f, d>>}, "ok")

\* update2: f becomes g.  Whether f has a row is not looked at.
Update2(w, f, g, d) ==
    IF f # g /\ Has(g) THEN Take(w, "update2", {f, g}, <<>>, {}, "dup")
    ELSE Take(w, "update2", {f, g},
              <<<<"update", f, g, d>>, <<"hit", f>>, <<"delete", f>>, <<"add", g, d>>>>,
              {<<g, d>>}, "ok")

\* set: f becomes g, or g is added.  Whether g has a row is not looked at.
SetCalls(f, g, d) ==
    IF ~ Has(f) THEN <<<<"insert", g, d>>, <<"set", g, d>>>>
    ELSE <<<<"update", f, g, d>>>> \o
         (IF f = g THEN <<<<"set", g, d>>>> ELSE <<<<"delete", f>>, <<"add", g, d>>>>)
Set(w, f, g, d) == Take(w, "set", {f, g}, SetCalls(f, g, d), {<<g, d>>}, "ok")

\* del: memcached, then the row; with more feeds, one after the other.
DelCalls(order) ==
    [k \in 1 .. 2 * Len(order) |->
       LET f == order[(k + 1) \div 2] IN IF k % 2 = 1 THEN <<"delete", f>> ELSE <<"remove", {f}>>]
Del(w, feeds) ==
    Take(w, "del", feeds, DelCalls(SetToSeq(feeds)), {}, "ok")
\* del_p: the row, then memcached.
DelP(w, f) ==
    Take(w, "del_p", {f}, <<<<"remove", {f}>>, <<"delete", f>>>>, {}, "ok")

\* del2: all feeds of a user, cmd, app and magic.
Deletes(feeds) == LET order == SetToSeq(feeds) IN [i \in DOMAIN order |-> <<"delete", order[i]>>]
Del2(w) ==
    LET there == {f \in Active : Has(f)} IN
    Take(w, "del2", Active,
         IF there = {} THEN <<>> ELSE Append(Deletes(there), <<"remove", Active>>),
         {}, "ok")

\* get_pkgs, get_key_pkgs, get_p_pkgs: what memcached does not have is selected, one feed
\* after the other.
Missed(feeds) == {f \in feeds : memc[f] = NoFeed}
Fetches(feeds) == LET order == SetToSeq(feeds) IN [i \in DOMAIN order |-> <<"fetch", order[i]>>]
Get(w, request, feeds) == Take(w, request, feeds, Fetches(Missed(feeds)), {}, "ok")

\* get2_pkgs: memcached is not asked.  It gets all rows; of two with an id the last stays.
Sets(rows) ==
    LET order == SetToSeq(DOMAIN rows) IN [i \in DOMAIN order |-> <<"set", order[i], rows[order[i]]>>]
Get2(w) ==
    \E rows \in [{f \in Active : Has(f)} -> Data] :
        /\ \A f \in DOMAIN rows : rows[f] \in db[f]
        /\ Take(w, "get2", Active, Sets(rows), {}, "ok")

(***************************************************************************)
(* Calls of MySQL.                                                         *)
(***************************************************************************)

Call(w) == Head(worker[w].calls)
Is(w, kinds) == Busy(w) /\ Call(w)[1] \in kinds
Queries == {"insert", "update", "remove"}

\* The request goes on with other calls, or ends with an answer.
Answering(w, calls, answer) ==
    worker' = [worker EXCEPT ![w] = IF calls = <<>> THEN [Idle EXCEPT !.answer = answer]
                                    ELSE [@ EXCEPT !.calls = calls, !.answer = answer]]
Going(w, calls) == Answering(w, calls, worker[w].answer)
GoOn(w) == Going(w, Tail(worker[w].calls))
Quit(w, answer) == Answering(w, <<>>, answer)

RowsSwapped(call) ==                 \* plausible bug: the id goes where the data belongs
    IF call[1] = "insert" THEN [db EXCEPT ![call[2]] = {call[2]}] ELSE db
Rows(call) ==
    CASE call[1] = "insert" -> [db EXCEPT ![call[2]] = @ \cup {call[3]}]
      [] call[1] = "remove" -> [f \in Feeds |-> IF f \in call[2] THEN {} ELSE db[f]]
      [] call[1] = "update" ->       \* no row with the old id: nothing changes, no error
           IF ~ Has(call[2]) THEN db
           ELSE [[db EXCEPT ![call[2]] = {}] EXCEPT ![call[3]] = @ \cup {call[4]}]

DbCall(w) ==
    /\ Is(w, Queries)
    /\ db' = Rows(Call(w)) /\ GoOn(w)
    /\ UNCHANGED <<memc, forever, torn, requests, faults>>

\* A select: get_pkgs puts the row into memcached before it selects the next feed, the
\* others put all they found when all selects are done.
Found(f) == IF Has(f) THEN {<<<<"set", f, d>>>> : d \in db[f]} ELSE {<<>>}
Fetch(w) ==
    /\ Is(w, {"fetch"})
    /\ LET rest == Tail(worker[w].calls) IN
         \E found \in Found(Call(w)[2]) :
             Going(w, IF worker[w].request = "get" THEN found \o rest ELSE rest \o found)
    /\ UNCHANGED <<db, memc, forever, torn, requests, faults>>

(***************************************************************************)
(* Calls of memcached.                                                     *)
(***************************************************************************)

\* Only entries of start users are stored for good (is_startuser), and not by replace.
ExpiresNever(call) == FALSE          \* plausible bug: the time to expire is left out
Expires(call) == call[2] \notin Stars \/ call[1] = "replace"

StoredIfNew(call) ==                 \* plausible bug: replace only stores what is not there
    call[1] = "set" \/ memc[call[2]] = NoFeed
Stored(call) ==
    \/ call[1] = "set"
    \/ call[1] = "add" /\ memc[call[2]] = NoFeed
    \/ call[1] = "replace" /\ memc[call[2]] # NoFeed
McCall(w) ==
    /\ Is(w, {"set", "add", "replace", "delete"})
    /\ LET call == Call(w) IN
         /\ memc' = CASE call[1] = "delete" -> [memc EXCEPT ![call[2]] = NoFeed]
                      [] call[1] # "delete" /\ Stored(call) -> [memc EXCEPT ![call[2]] = call[3]]
                      [] OTHER -> memc
         /\ forever' = IF call[1] = "delete" \/ ~ Stored(call) THEN forever
                       ELSE IF Expires(call) THEN forever \ {call[2]} ELSE forever \cup {call[2]}
    /\ GoOn(w)
    /\ UNCHANGED <<db, torn, requests, faults>>
\* update2 goes on only with an entry.
McHit(w) ==
    /\ Is(w, {"hit"})
    /\ Going(w, IF memc[Call(w)[2]] = NoFeed THEN <<>> ELSE Tail(worker[w].calls))
    /\ UNCHANGED <<db, memc, forever, torn, requests, faults>>

Forget(f) ==
    /\ memc[f] # NoFeed
    /\ memc' = [memc EXCEPT ![f] = NoFeed]
    /\ UNCHANGED <<db, forever, worker, torn, requests, faults>>
Expire(f) == f \notin forever /\ Forget(f)

(***************************************************************************)
(* Faults.                                                                 *)
(***************************************************************************)

Tear(w) == IF worker[w].request \in Reads THEN torn ELSE torn \cup worker[w].feeds
Fault == faults < MaxFaults /\ faults' = faults + 1

\* A failing call of memcached is logged and passed.
McFails(w) ==
    /\ Fault /\ Is(w, {"set", "add", "replace", "delete", "hit"})
    /\ Going(w, IF Call(w)[1] = "hit" THEN <<>> ELSE Tail(worker[w].calls))
    /\ torn' = Tear(w)
    /\ UNCHANGED <<db, memc, forever, requests>>

\* A failing query ends the request with an error (del goes on with the next feed); what
\* the server did before its answer was lost stays done.
DbFails(w) ==
    /\ Fault /\ Is(w, Queries)
    /\ \/ UNCHANGED <<db, torn>>
       \/ db' = Rows(Call(w)) /\ torn' = Tear(w)
    /\ Answering(w, IF worker[w].request = "del" THEN Tail(worker[w].calls) ELSE <<>>, "error")
    /\ UNCHANGED <<memc, forever, requests>>
\* A failing select: get_p_pkgs ends with an error.  get_pkgs and get_key_pkgs answer with
\* what else they find; without a connection get_key_pkgs selects no more.
FetchFails(w) ==
    /\ Fault /\ Is(w, {"fetch"})
    /\ \/ worker[w].request = "get_p" /\ Quit(w, "error")
       \/ worker[w].request # "get_p" /\ GoOn(w)
       \/ /\ worker[w].request = "get_keys"
          /\ LET calls == worker[w].calls IN
               \E n \in DOMAIN calls :
                   /\ \A i \in DOMAIN calls : i <= n <=> calls[i][1] = "fetch"
                   /\ Going(w, SubSeq(calls, n + 1, Len(calls)))
    /\ UNCHANGED <<db, memc, forever, torn, requests>>

\* del2 without the ids: the rows are deleted all the same, memcached keeps them.
Del2Blind(w) ==
    /\ Fault /\ ~ Busy(w) /\ requests < MaxRequests
    /\ requests' = requests + 1
    /\ worker' = [worker EXCEPT ![w] = [request |-> "del2", calls |-> <<<<"remove", Active>>>>,
         feeds |-> Active, aim |-> {}, answer |-> "ok"]]
    /\ torn' = torn \cup Active
    /\ UNCHANGED <<db, memc, forever>>

\* A worker dies, and its parent forks another one.
Die(w) ==
    /\ Fault /\ Busy(w)
    /\ worker' = [worker EXCEPT ![w] = Idle]
    /\ torn' = Tear(w)
    /\ UNCHANGED <<db, memc, forever, requests>>

(***************************************************************************)
(* Specification.                                                          *)
(***************************************************************************)

ActiveRequest(w) ==
    \/ \E f \in Active, d \in Data : Insert(w, f, d) \/ Update(w, f, d)
    \/ \E f, g \in Active, d \in Data : Update2(w, f, g, d) \/ Set(w, f, g, d)
    \/ \E feeds \in (SUBSET Active) \ {{}} :
         Del(w, feeds) \/ Get(w, "get", feeds) \/ Get(w, "get_keys", feeds)
    \/ Del2(w) \/ Get2(w)
PassiveRequest(w) ==
    \/ \E f \in Passive, d \in Data : Insert(w, f, d) \/ UpdateP(w, f, d)
    \/ \E f \in Passive : DelP(w, f)
    \/ \E feeds \in (SUBSET Passive) \ {{}} : Get(w, "get_p", feeds)
GoesOn(w) == DbCall(w) \/ Fetch(w) \/ McCall(w) \/ McHit(w)
Next ==
    \/ \E w \in Workers : ActiveRequest(w) \/ PassiveRequest(w) \/ GoesOn(w)
    \/ \E w \in Workers :
         McFails(w) \/ DbFails(w) \/ FetchFails(w) \/ Del2Blind(w) \/ Die(w)
    \/ \E f \in Feeds : Forget(f)

Spec == Init /\ [][Next]_vars

\* A call returns; an entry that can expire does.
FairSpec ==
    /\ Spec
    /\ \A w \in Workers : WF_vars(GoesOn(w))
    /\ \A f \in Feeds : WF_vars(Expire(f))

(***************************************************************************)
(* Properties.                                                             *)
(***************************************************************************)

\* Rows and entries hold data, and what a request still has to do names feeds.
TypeOK ==
    /\ db \in [Feeds -> SUBSET Data] /\ memc \in [Feeds -> Data \cup {NoFeed}]
    /\ forever \subseteq Feeds /\ torn \subseteq Feeds
    /\ \A w \in Workers : /\ worker[w].feeds \subseteq Feeds
                          /\ worker[w].aim \subseteq Feeds \X Data
                          /\ worker[w].answer \in {"none", "ok", "dup", "feedid", "error"}
    /\ requests \in 0 .. MaxRequests /\ faults \in 0 .. MaxFaults

\* No request of the feed is on its way.
Quiet(f) == \A w \in Workers : Busy(w) => f \notin worker[w].feeds

\* memcached shows nothing but a row: the gets of several workers, and a set, update2,
\* del or del2 that found a feed in any state, leave no entry of a deleted, renamed or
\* changed feed behind, unless the change overlapped another request or was cut short.
Coherent == \A f \in Feeds \ torn : Quiet(f) => memc[f] \in db[f] \cup {NoFeed}

\* What was torn heals: in the end every entry shows a row of its feed again, whatever raced and
\* failed, except those of start users, which stay for good.
Heals == <>[](\A f \in Feeds \ Stars : memc[f] \in db[f] \cup {NoFeed})

Done(w) == Busy(w) /\ worker'[w].calls = <<>> /\ worker'[w].answer = "ok"
InTable(w) ==
    worker[w].feeds \cap torn' # {} \/ \A p \in worker[w].aim : p[2] \in db'[p[1]]

\* "error feedid, maybe one or more fields is invalid (for update not match)"
\* (storage_proto.h:216): update2 of a feed that is not there is not answered with success.
MatchTold == [][\A w \in Workers :
                  Done(w) /\ worker[w].request = "update2" => InTable(w)]_vars
=============================================================================
