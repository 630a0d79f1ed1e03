----------------------------- MODULE EasyCache -----------------------------
(***************************************************************************)
(* The static file server so::easy (http.cc) and its cache of files, one   *)
(* LruMap (lru_map.h) for each scheduler.  A file's text is its path and a *)
(* version; other programs write and remove the files while it runs.  The  *)
(* handler does not yield, so a request is one step of its scheduler.      *)
(***************************************************************************)
EXTENDS Strings

CONSTANTS
    Scheds,     \* schedulers
    Urls,       \* targets of requests
    Root,       \* root_dir
    Capacity,   \* the most files in a cache, not 0: 1024
    Ttl,        \* 300 s
    MaxNow,     \* bound on the time
    MaxPast     \* bound on the changes of files

RootDir == IF Root = <<>> THEN <<".">> ELSE Root
IndexHtml == <<"i">>        \* "index.html", as one letter
Served == {u \in Urls : StartsWith(Clean(u), <<"/">>)}
Dirs == {Clean(RootDir)}
PathOf(u) == LET path == Join(RootDir, Clean(u))
             IN IF path \in Dirs THEN Join(path, IndexHtml) ELSE path
Files == {PathOf(u) : u \in Served}

VARIABLES
    contents,   \* the cache of each scheduler
    files,      \* the version of each file, 0 if it does not exist
    now,        \* now::ms()
    answer,     \* the response of this step
    past,       \* versions that were replaced, and when
    recent      \* the paths a scheduler has had in its cache, the last used first

easyVars == <<contents, files, now, answer, past, recent>>
EmptyLru == [kv |-> <<>>, kl |-> <<>>, ki |-> {}]
Without(s, x) == SelectSeq(s, LAMBDA y : y # x)
ToFront(s, x) == <<x>> \o Without(s, x)
Drop(kv, k) == [x \in DOMAIN kv \ {k} |-> kv[x]]

\* find moves the key to the front of the list.
LruFind(m, k) ==
    IF k \in DOMAIN m.kv /\ Head(m.kl) # k THEN [m EXCEPT !.kl = ToFront(@, k)] ELSE m

\* insert does nothing if the key exists; the key at the back makes room.
LruInsert(m, k, v) ==
    LET kv == [x \in DOMAIN m.kv \cup {k} |-> IF x = k THEN v ELSE m.kv[x]]
        kl == <<k>> \o m.kl
        full == Cardinality(DOMAIN kv) > Capacity
    IN IF k \in DOMAIN m.kv THEN m
       ELSE IF full THEN [kv |-> Drop(kv, Last(kl)), kl |-> Front(kl), ki |-> (m.ki \cup {k}) \ {Last(kl)}]
       ELSE [kv |-> kv, kl |-> kl, ki |-> m.ki \cup {k}]

\* Mutant of LruErase: the key stays in the list.
LruEraseMap(m, k) == [m EXCEPT !.kv = Drop(@, k), !.ki = @ \ {k}]

LruErase(m, k) ==
    IF k \in DOMAIN m.kv THEN [kv |-> Drop(m.kv, k), kl |-> Without(m.kl, k), ki |-> m.ki \ {k}] ELSE m

Body(path, ver) == [path |-> path, ver |-> ver]
NoBody == Body(<<>>, 0)
Answer(status, path, body) == answer' = [status |-> status, path |-> path, body |-> body]
Quiet == Answer(0, <<>>, NoBody)

EasyInit ==
    /\ contents = [s \in Scheds |-> EmptyLru]
    /\ files = [f \in Files |-> 1]
    /\ now = 0 /\ past = {} /\ recent = [s \in Scheds |-> <<>>]
    /\ answer = [status |-> 0, path |-> <<>>, body |-> NoBody]

\* 405 and 403.
Refuse(get, url) ==
    /\ get => url \notin Served
    /\ Answer(IF get THEN 403 ELSE 405, <<>>, NoBody)
    /\ UNCHANGED <<contents, files, now, past, recent>>

\* A GET, whose path is one of Files: from the cache while its entry is young,
\* else from the file.
Get(s, path) ==
    LET found == LruFind(contents[s], path)
        hit == path \in DOMAIN found.kv
        young == hit /\ now < found.kv[path].at + Ttl
        kept == IF hit /\ ~young THEN LruErase(found, path) ELSE found
        body == Body(path, files[path])
        ok == young \/ files[path] # 0
    IN /\ contents' = [contents EXCEPT ![s] = IF young THEN found
                                             ELSE IF ~ok THEN kept
                                             ELSE LruInsert(kept, path, [body |-> body, at |-> now])]
       /\ recent' = IF ok THEN [recent EXCEPT ![s] = ToFront(@, path)] ELSE recent
       /\ IF young THEN Answer(200, path, found.kv[path].body)
          ELSE IF ok THEN Answer(200, path, body) ELSE Answer(404, path, NoBody)
       /\ UNCHANGED <<files, now, past>>

\* Another program writes a file, or removes it; time passes.
FileChange(f, ver) ==
    /\ Cardinality(past) < MaxPast
    /\ files' = [files EXCEPT ![f] = ver]
    /\ past' = past \cup {[body |-> Body(f, files[f]), until |-> now]}
    /\ Quiet /\ UNCHANGED <<contents, now, recent>>
FileWrite(f) == FileChange(f, 1 + Max({files[f]} \cup {p.body.ver : p \in {q \in past : q.body.path = f}}))
FileRemove(f) == files[f] # 0 /\ FileChange(f, 0)
Tick ==
    /\ now < MaxNow /\ now' = now + 1
    /\ Quiet /\ UNCHANGED <<contents, files, past, recent>>

EasyNext ==
    \/ \E url \in Urls, get \in BOOLEAN : Refuse(get, url)
    \/ \E s \in Scheds, path \in Files : Get(s, path)
    \/ \E f \in Files : FileWrite(f) \/ FileRemove(f)
    \/ Tick

\* What is served is a text of the file that was asked for, under the root,
\* not replaced for longer than the cache may keep it.  The list, the map and
\* the iterators of a cache have the same keys, the list in the order in which
\* they were last used, and no more of them than the capacity: what is thrown
\* out is the file nobody used for the longest time.  (lru_map.h, http.cc:562)
CacheLaw ==
    /\ answer.status = 200 =>
          /\ answer.body.path = answer.path
          /\ RootDir = <<".">> \/ StartsWith(answer.path, Clean(RootDir) \o (IF Clean(RootDir) = <<"/">> THEN <<>> ELSE <<"/">>))
          /\ \/ answer.body.ver = files[answer.path]
             \/ \E p \in past : p.body = answer.body /\ now < p.until + Ttl
    /\ \A s \in Scheds :
          LET m == contents[s]
          IN /\ DOMAIN m.kv = m.ki /\ Len(m.kl) = Cardinality(m.ki) /\ ToSet(m.kl) = m.ki
             /\ Cardinality(m.ki) <= Capacity
             /\ m.kl = SelectSeq(recent[s], LAMBDA k : k \in m.ki)
=============================================================================
