---------------------- MODULE CudaCorrespondenceProofs ----------------------
(***************************************************************************)
(* Proofs about CudaCorrespondence: unfinished work only touches memory    *)
(* that is there, nothing is leaked, the members of a search say what is   *)
(* allocated, and a call that returns normally returns what it was asked   *)
(* for, for every session, every failure and every speed of the device.    *)
(*                                                                         *)
(* The state of the host is seen through a machine whose device has done   *)
(* all the work submitted to it.  A step of a script takes a machine to    *)
(* the next (After) where its precondition holds (Ok); a script runs from  *)
(* one machine to another when each of its steps is legal where it is      *)
(* reached.  The inductive invariant says of a call in progress that what  *)
(* is left of its script runs to a machine fit for the next call; that     *)
(* this is so when a call begins is shown by executing its script          *)
(* symbolically, once per method.                                          *)
(***************************************************************************)
EXTENDS CudaCorrespondence, SequenceTheorems, NaturalsInduction, WellFoundedInduction, TLAPS

-----------------------------------------------------------------------------
(***************************************************************************)
(* Machines                                                                *)
(***************************************************************************)

\* content is what it will be once the submitted work is done; busy holds the
\* search whose stream may still hold some.
Machine(a, c, ss, m, l, f, b, u, ks) ==
    [alloc |-> a, content |-> c, streams |-> ss, impl |-> m, live |-> l, frames |-> f, busy |-> b,
     uploaded |-> u, neighbors |-> ks]

Now(c, b) == Machine(alloc, c, streams, impl, live, frames, b, uploaded, call.session.neighbors \union {0})

\* What one piece of device work does to the contents c.
Effect(w, c) == [l \in Locations |-> IF l \in w.to THEN w.args \union UNION {c[m] : m \in w.from} ELSE c[l]]

AfterStream(x, s) == Machine(s.alloc, s.content, s.streams \union {x.on}, s.impl, s.live, s.frames, s.busy,
                             s.uploaded, s.neighbors)
AfterMalloc(x, s) == Machine([l \in DOMAIN s.alloc \union {x.at} |-> IF l = x.at THEN x.size ELSE s.alloc[l]],
                             [l \in Locations |-> IF l = x.at THEN Garbage ELSE s.content[l]],
                             s.streams, s.impl, s.live, s.frames, s.busy, s.uploaded, s.neighbors)
AfterFree(x, s) == Machine([l \in DOMAIN s.alloc \ {x.at} |-> s.alloc[l]], s.content, s.streams, s.impl, s.live,
                           s.frames, s.busy, s.uploaded, s.neighbors)
AfterSubmit(x, s) == Machine(s.alloc, Effect(x, s.content), s.streams, s.impl, s.live, s.frames, {x.on},
                             s.uploaded, s.neighbors)
AfterSync(x, s) == Machine(s.alloc, s.content, s.streams, s.impl, s.live, s.frames, {}, s.uploaded, s.neighbors)
AfterSet(x, s) == Machine(s.alloc, s.content, s.streams,
                          [s.impl EXCEPT ![x.on] = Assigned(s.impl[x.on], x.field, x.value)],
                          s.live, s.frames, s.busy, s.uploaded, s.neighbors)
AfterEnter(x, s) == Machine(s.alloc,
                            [l \in Locations |-> IF l[1] = "host" /\ l[2] \in DOMAIN x.buffers
                                                 THEN x.buffers[l[2]] ELSE s.content[l]],
                            s.streams, s.impl, s.live \union DOMAIN x.buffers,
                            Append(s.frames, [on |-> x.on, owns |-> x.owns, buffers |-> DOMAIN x.buffers]),
                            s.busy, s.uploaded, s.neighbors)
AfterLeave(x, s) == Machine(s.alloc, s.content, s.streams, s.impl, s.live \ Last(s.frames).buffers,
                            Front(s.frames), s.busy, s.uploaded, s.neighbors)
AfterAdopt(x, s) ==
    LET old == s.impl["self"].scan_search IN
    Machine([l \in {m \in DOMAIN s.alloc : m[1] # old} |-> s.alloc[l]], s.content, s.streams \ {old},
            [o \in Searches |-> IF o = old THEN Blank
                                ELSE IF o = "self" THEN Assigned(s.impl[o], "scan_search", x.on)
                                ELSE s.impl[o]],
            s.live, Front(s.frames), s.busy, s.uploaded, s.neighbors)
AfterCopy(x, s) == Machine(s.alloc, [l \in Locations |-> IF l = x.to THEN s.content[x.from] ELSE s.content[l]],
                           s.streams, s.impl, s.live, s.frames, s.busy, s.uploaded, s.neighbors)

After(x, s) == IF x.do = "stream" THEN AfterStream(x, s)
               ELSE IF x.do = "malloc" THEN AfterMalloc(x, s)
               ELSE IF x.do = "free" THEN AfterFree(x, s)
               ELSE IF x.do = "submit" THEN AfterSubmit(x, s)
               ELSE IF x.do = "sync" THEN AfterSync(x, s)
               ELSE IF x.do = "set" THEN AfterSet(x, s)
               ELSE IF x.do = "enter" THEN AfterEnter(x, s)
               ELSE IF x.do = "leave" THEN AfterLeave(x, s)
               ELSE IF x.do = "adopt" THEN AfterAdopt(x, s)
               ELSE IF x.do = "copy" THEN AfterCopy(x, s)
               ELSE s

-----------------------------------------------------------------------------
(***************************************************************************)
(* What holds of a machine at every step                                   *)
(***************************************************************************)
MemberType(ks) == [strategy : {"indexed", "tiled"}, resident : BOOLEAN, knn_capacity : ks,
                   covariance_neighbors : ks, scan_count : Nat, has_scan_normals : BOOLEAN,
                   scan_search : {"none", "a", "b"}]
FrameType == [on : Searches, owns : BOOLEAN, buffers : SUBSET HostBuffers]

Shape(s) == /\ DOMAIN s.alloc \subseteq Searches \X Owned
            /\ \A l \in DOMAIN s.alloc : s.alloc[l] \in Nat
            /\ s.content = [l \in Locations |-> s.content[l]]
            /\ s.streams \subseteq Searches
            /\ s.neighbors \subseteq Nat /\ 0 \in s.neighbors
            /\ s.impl \in [Searches -> MemberType(s.neighbors)]
            /\ s.live \subseteq HostBuffers
            /\ s.frames \in Seq(FrameType)

\* A scope an exception has to leave destroys o.
Owns(f, o) == \E i \in DOMAIN f : f[i].owns /\ f[i].on = o

\* o has a stream or a buffer, and somebody will destroy it: a scope of the
\* call, or the search itself once it is constructed.
Uses(s, o) == o \in s.streams \/ \E l \in DOMAIN s.alloc : l[1] = o
Held(s, o) == \/ Owns(s.frames, o)
              \/ ~Owns(s.frames, "self") /\ o \in {"self", s.impl["self"].scan_search}

Ownership(s) ==
    /\ \A o \in Searches : Uses(s, o) => Held(s, o)
    /\ \A o \in Searches : ~Held(s, o) => s.impl[o] = Blank
    /\ \A o \in Searches : Owns(s.frames, o) => s.impl["self"].scan_search # o
    /\ \A i \in DOMAIN s.frames : s.frames[i].owns /\ s.frames[i].on = "self" => i = 1

\* A KNN capacity has its buffers.
KnnTrue(s) == \A o \in Searches : s.impl[o].knn_capacity # 0 =>
                \A b \in {"knn_indices", "knn_distances"} :
                  <<o, b>> \in DOMAIN s.alloc /\ s.alloc[<<o, b>>] >= s.impl[o].knn_capacity

\* Work is submitted inside the scope whose handler drains its stream.
Busy(s) == s.busy # {} => /\ s.frames # <<>>
                          /\ s.busy = {Last(s.frames).on}
                          /\ s.busy \subseteq s.streams
                          /\ KnnTrue(s)

Workspace == {"original_reference", "scan", "scan_normals", "transformed", "equations", "equation"}
AfterScan == {"scan_normals", "transformed", "equations", "equation"}

Equipped(s) ==
    \A o \in Searches :
      /\ s.impl[o].resident => \A b \in Workspace : <<o, b>> \in DOMAIN s.alloc
      /\ (\E b \in AfterScan : <<o, b>> \in DOMAIN s.alloc) => <<o, "scan">> \in DOMAIN s.alloc
      /\ s.impl[o].covariance_neighbors # 0 => <<o, "covariances">> \in DOMAIN s.alloc

\* The search of the context is constructed.
Present(s) == "self" \in s.streams /\ ~Owns(s.frames, "self")

\* Buffers that keep their contents from one call to the next, and what they
\* hold.
Settled(s, l) ==
    LET m == s.impl["self"] IN
    \/ /\ l[1] = "self"
       /\ \/ l[2] = "reference"
          \/ l[2] \in {"nodes", "original_indices"} /\ m.strategy = "indexed"
          \/ l[2] = "original_reference" /\ m.resident
          \/ l[2] = "reference_normals" /\ m.resident /\ l \in DOMAIN s.alloc
          \/ l[2] = "covariances" /\ m.covariance_neighbors # 0
          \/ l[2] = "scan" /\ m.scan_count # 0
          \/ l[2] = "scan_normals" /\ m.scan_count # 0 /\ m.has_scan_normals
    \/ l = <<m.scan_search, "covariances">> /\ m.scan_count # 0 /\ m.scan_search # "none"

Origin == {<<"reference", 0>>}
Expected(s, l) ==
    LET m == s.impl["self"] IN
    IF l[1] # "self" THEN {<<"scan", m.scan_count>>, <<"neighbors", m.covariance_neighbors>>}
    ELSE IF l[2] = "reference_normals" THEN {<<"reference_normals", 0>>}
    ELSE IF l[2] = "covariances" THEN Origin \union {<<"neighbors", m.covariance_neighbors>>}
    ELSE IF l[2] = "scan" THEN {<<"scan", m.scan_count>>}
    ELSE IF l[2] = "scan_normals" THEN {<<"normals", m.scan_count>>}
    ELSE Origin

Facts(s) ==
    Present(s) =>
      /\ <<"self", "queries">> \in DOMAIN s.alloc /\ <<"self", "indices">> \in DOMAIN s.alloc
      /\ \A l \in Searches \X Owned : Settled(s, l) => l \in DOMAIN s.alloc /\ s.content[l] = Expected(s, l)
      /\ s.impl["self"].scan_count # 0 => s.impl["self"].resident
      /\ s.impl["self"].covariance_neighbors = 0 => s.impl["self"].scan_search = "none"
      /\ s.impl["self"].covariance_neighbors # 0 /\ s.impl["self"].scan_count # 0 =>
           s.impl["self"].scan_search # "none"

Sound(s) == Shape(s) /\ Ownership(s) /\ Busy(s) /\ Equipped(s) /\ Facts(s)

\* Where a call may fail: a scan counts only if it is the last one uploaded,
\* and the search exists or is being constructed.
Linked(s) == /\ s.impl["self"].scan_count # 0 =>
                  /\ s.uploaded.number = s.impl["self"].scan_count
                  /\ s.uploaded.normals = s.impl["self"].has_scan_normals
             /\ Present(s) \/ Owns(s.frames, "self")
Steady(s) == KnnTrue(s) /\ Linked(s)

\* The operands of w are there.
Alive(w, a, l) ==
    \A m \in w.from \union w.to :
      IF m[1] = "host" THEN m[2] \in l
      ELSE m \in DOMAIN a /\ (m[2] \in {"knn_indices", "knn_distances"} => a[m] >= w.k)

-----------------------------------------------------------------------------
(***************************************************************************)
(* Legal steps and scripts                                                 *)
(***************************************************************************)
OkStream(x, s) == x.on \in Searches /\ Owns(s.frames, x.on) /\ Steady(s)
OkMalloc(x, s) == /\ x.at \in Searches \X Owned /\ x.at \notin DOMAIN s.alloc /\ x.size \in Nat
                  /\ Held(s, x.at[1])
                  /\ x.at[2] \in AfterScan => <<x.at[1], "scan">> \in DOMAIN s.alloc
                  /\ x.at = <<"self", "reference_normals">> => ~s.impl["self"].resident
                  /\ Steady(s)
OkFree(x, s) == s.busy = {} /\ x.at \in Searches \X {"knn_indices", "knn_distances"} /\ Linked(s)
OkSubmit(x, s) == /\ s.frames # <<>> /\ x.on = Last(s.frames).on /\ x.on \in s.streams
                  /\ x.from \subseteq Locations /\ x.to \subseteq Locations
                  /\ Alive(x, s.alloc, s.live)
                  /\ Present(s) => \A l \in x.to : l[1] = "host" \/ ~Settled(s, l)
                  /\ Steady(s)
OkSync(x, s) == s.frames # <<>> /\ x.on = Last(s.frames).on /\ Linked(s)
OkSet(x, s) == /\ x.on \in Searches
               /\ Sound(AfterSet(x, s)) /\ (KnnTrue(s) => KnnTrue(AfterSet(x, s)))
OkEnter(x, s) == /\ s.busy = {}
                 /\ x.on \in Searches /\ x.owns \in BOOLEAN /\ DOMAIN x.buffers \subseteq HostBuffers
                 /\ x.owns => /\ ~Uses(s, x.on)
                              /\ s.impl["self"].scan_search # x.on
                              /\ IF x.on = "self"
                                 THEN /\ s.frames = <<>> /\ s.impl["self"].scan_search = "none"
                                      /\ \A o \in Searches : ~Uses(s, o)
                                 ELSE Present(s)
OkLeave(x, s) == /\ s.busy = {} /\ s.frames # <<>>
                 /\ Last(s.frames).owns => Sound(AfterLeave(x, s))
OkAdopt(x, s) == /\ s.busy = {} /\ s.frames # <<>> /\ Last(s.frames).owns /\ Last(s.frames).on = x.on
                 /\ ~Owns(Front(s.frames), x.on)
                 /\ x.on \in {"a", "b"} /\ Present(s)
                 /\ s.impl["self"].scan_count = 0 /\ s.impl["self"].covariance_neighbors # 0
OkCopy(x, s) == /\ s.busy = {} /\ Steady(s)
                /\ x.from \in Locations /\ x.to \in {"host"} \X HostBuffers

Ok(x, s) == /\ x.do \in {"stream", "malloc", "free", "submit", "sync", "check", "set", "enter", "leave", "adopt", "copy"}
            /\ x.do = "stream" => OkStream(x, s)
            /\ x.do = "malloc" => OkMalloc(x, s)
            /\ x.do = "free" => OkFree(x, s)
            /\ x.do = "submit" => OkSubmit(x, s)
            /\ x.do = "sync" => OkSync(x, s)
            /\ x.do = "check" => Steady(s)
            /\ x.do = "set" => OkSet(x, s)
            /\ x.do = "enter" => OkEnter(x, s)
            /\ x.do = "leave" => OkLeave(x, s)
            /\ x.do = "adopt" => OkAdopt(x, s)
            /\ x.do = "copy" => OkCopy(x, s)

Moves(x, s, t) == Ok(x, s) /\ t = After(x, s)

\* The script p takes the machine s to t, every step of it legal.
Runs(p, s, t) == /\ \E S : p \in Seq(S)
                 /\ \E h : /\ h[0] = s /\ h[Len(p)] = t
                           /\ \A i \in 1 .. Len(p) : Moves(p[i], h[i - 1], h[i])

\* Some step of p asks the device, which fails once the device has.
Works(p) == \E i \in DOMAIN p : p[i].do \in {"stream", "malloc", "free", "submit", "sync", "copy"}

-----------------------------------------------------------------------------
(***************************************************************************)
(* The inductive invariant                                                 *)
(***************************************************************************)

\* The queue q takes the contents d to c.
Drains(d, q, c) == \E h : /\ h[0] = d /\ h[Len(q)] = c
                          /\ \A i \in 1 .. Len(q) : h[i] = Effect(q[i], h[i - 1])

\* Nothing is there.
Bare(s) == s.frames = <<>> /\ s.streams = {} /\ DOMAIN s.alloc = {} /\ s.impl = [o \in Searches |-> Blank]

\* What a call has computed when it comes to its end.
Post(t, c) ==
    LET result == t.content[OnHost("result")]
        m == t.impl["self"]
        tag(condition, x) == IF condition THEN {x} ELSE {} IN
    /\ c.method = "evaluate" =>
         /\ m.scan_count # 0
         /\ result = {<<"reference", 0>>, <<"pose", c.number>>, <<"scan", m.scan_count>>}
                     \union tag(<<"self", "reference_normals">> \in DOMAIN t.alloc, <<"reference_normals", 0>>)
                     \union tag(m.has_scan_normals, <<"normals", m.scan_count>>)
                     \union tag(m.covariance_neighbors # 0, <<"neighbors", m.covariance_neighbors>>)
    /\ c.method = "query_into" => result = {<<"reference", 0>>, <<"queries", c.number>>}
    /\ c.method \in {"knn", "download_covariances"} => result = {<<"reference", 0>>, <<"neighbors", c.k>>}
    /\ c.method = "upload_scan" => m.scan_count = c.number

\* The machine is ready for the next call.
Final(t, c) == /\ Sound(t) /\ KnnTrue(t) /\ Present(t)
               /\ t.frames = <<>> /\ t.busy = {}
               /\ c.method = "upload_scan" \/ Linked(t)
               /\ Post(t, c)

HostType == /\ object \in BOOLEAN /\ faulted \in BOOLEAN
            /\ pc \in {"none", "idle", "call", "unwind"}
            /\ call.number \in Nat /\ call.session \in Sessions
            /\ call = [method |-> call.method, number |-> call.number, ok |-> call.ok, k |-> call.k,
                       session |-> call.session]

\* The device: every queue but that of the busy search is empty, and what is
\* queued takes the contents to those of the machine.
Device(c, b) ==
    /\ stream = [o \in Searches |-> stream[o]]
    /\ \A o \in Searches : \E S : stream[o] \in Seq(S)
    /\ \A o \in Searches : \A i \in DOMAIN stream[o] :
         Alive(stream[o][i], alloc, live) /\ stream[o][i].from \union stream[o][i].to \subseteq Locations
    /\ \A o \in Searches : stream[o] # <<>> => o \in b
    /\ content = [l \in Locations |-> content[l]]
    /\ ~faulted => \A o \in Searches : b \subseteq {o} => Drains(content, stream[o], c)
    /\ faulted => \A o \in Searches : stream[o] = <<>>

\* The host: where it is in its call.
Control(s) ==
    /\ pc = "call" => object /\ call.ok /\ \E t : Runs(script, s, t) /\ Final(t, call)
    /\ pc = "call" /\ faulted => KnnTrue(s) /\ Works(script)
    /\ pc # "call" => script = <<>> /\ KnnTrue(s) /\ (object => Linked(s))
    /\ pc = "unwind" => ~call.ok
    /\ pc \in {"none", "idle"} => frames = <<>> /\ s.busy = {}
    /\ pc = "idle" => object
    /\ pc = "none" => ~object
    /\ ~object => Bare(s) /\ pc \in {"none", "unwind"}

IInv == /\ HostType
        /\ \E c, b, s : s = Now(c, b) /\ Sound(s) /\ Device(c, b) /\ Control(s)
        /\ ResultCurrent

-----------------------------------------------------------------------------
(***************************************************************************)
(* What a step changes, and what it leaves alone                           *)
(***************************************************************************)
LEMMA StreamFields ==
    ASSUME NEW x, NEW s, NEW t, x.do = "stream", t = After(x, s)
    PROVE  /\ t.streams = s.streams \union {x.on}
           /\ t.alloc = s.alloc /\ t.content = s.content /\ t.impl = s.impl /\ t.live = s.live
           /\ t.frames = s.frames /\ t.busy = s.busy /\ t.uploaded = s.uploaded /\ t.neighbors = s.neighbors
  BY DEF After, AfterStream, Machine

LEMMA MallocFields ==
    ASSUME NEW x, NEW s, NEW t, x.do = "malloc", t = After(x, s)
    PROVE  /\ t.alloc = [l \in DOMAIN s.alloc \union {x.at} |-> IF l = x.at THEN x.size ELSE s.alloc[l]]
           /\ t.content = [l \in Locations |-> IF l = x.at THEN Garbage ELSE s.content[l]]
           /\ t.streams = s.streams /\ t.impl = s.impl /\ t.live = s.live /\ t.frames = s.frames
           /\ t.busy = s.busy /\ t.uploaded = s.uploaded /\ t.neighbors = s.neighbors
  BY DEF After, AfterMalloc, Machine

LEMMA FreeFields ==
    ASSUME NEW x, NEW s, NEW t, x.do = "free", t = After(x, s)
    PROVE  /\ t.alloc = [l \in DOMAIN s.alloc \ {x.at} |-> s.alloc[l]]
           /\ t.content = s.content /\ t.streams = s.streams /\ t.impl = s.impl /\ t.live = s.live
           /\ t.frames = s.frames /\ t.busy = s.busy /\ t.uploaded = s.uploaded /\ t.neighbors = s.neighbors
  BY DEF After, AfterFree, Machine

LEMMA SubmitFields ==
    ASSUME NEW x, NEW s, NEW t, x.do = "submit", t = After(x, s)
    PROVE  /\ t.content = Effect(x, s.content)
           /\ t.busy = {x.on}
           /\ t.alloc = s.alloc /\ t.streams = s.streams /\ t.impl = s.impl /\ t.live = s.live
           /\ t.frames = s.frames /\ t.uploaded = s.uploaded /\ t.neighbors = s.neighbors
  BY DEF After, AfterSubmit, Machine

LEMMA SyncFields ==
    ASSUME NEW x, NEW s, NEW t, x.do = "sync", t = After(x, s)
    PROVE  /\ t.busy = {}
           /\ t.alloc = s.alloc /\ t.content = s.content /\ t.streams = s.streams /\ t.impl = s.impl
           /\ t.live = s.live /\ t.frames = s.frames /\ t.uploaded = s.uploaded /\ t.neighbors = s.neighbors
  BY DEF After, AfterSync, Machine

LEMMA SetFields ==
    ASSUME NEW x, NEW s, NEW t, x.do = "set", t = After(x, s)
    PROVE  /\ t.impl = [s.impl EXCEPT ![x.on] = Assigned(s.impl[x.on], x.field, x.value)]
           /\ t.alloc = s.alloc /\ t.content = s.content /\ t.streams = s.streams /\ t.live = s.live
           /\ t.frames = s.frames /\ t.busy = s.busy /\ t.uploaded = s.uploaded /\ t.neighbors = s.neighbors
  BY DEF After, AfterSet, Machine

LEMMA EnterFields ==
    ASSUME NEW x, NEW s, NEW t, x.do = "enter", t = After(x, s)
    PROVE  /\ t.content = [l \in Locations |-> IF l[1] = "host" /\ l[2] \in DOMAIN x.buffers
                                            THEN x.buffers[l[2]] ELSE s.content[l]]
           /\ t.live = s.live \union DOMAIN x.buffers
           /\ t.frames = Append(s.frames, [on |-> x.on, owns |-> x.owns, buffers |-> DOMAIN x.buffers])
           /\ t.alloc = s.alloc /\ t.streams = s.streams /\ t.impl = s.impl /\ t.busy = s.busy
           /\ t.uploaded = s.uploaded /\ t.neighbors = s.neighbors
  BY DEF After, AfterEnter, Machine

LEMMA LeaveFields ==
    ASSUME NEW x, NEW s, NEW t, x.do = "leave", t = After(x, s)
    PROVE  /\ t.live = s.live \ Last(s.frames).buffers
           /\ t.frames = Front(s.frames)
           /\ t.alloc = s.alloc /\ t.content = s.content /\ t.streams = s.streams /\ t.impl = s.impl
           /\ t.busy = s.busy /\ t.uploaded = s.uploaded /\ t.neighbors = s.neighbors
  BY DEF After, AfterLeave, Machine

LEMMA AdoptFields ==
    ASSUME NEW x, NEW s, NEW t, x.do = "adopt", t = After(x, s)
    PROVE  /\ t.alloc = [l \in {m \in DOMAIN s.alloc : m[1] # s.impl["self"].scan_search} |-> s.alloc[l]]
           /\ t.streams = s.streams \ {s.impl["self"].scan_search}
           /\ t.impl = [o \in Searches |-> IF o = s.impl["self"].scan_search THEN Blank
                                         ELSE IF o = "self" THEN Assigned(s.impl[o], "scan_search", x.on)
                                         ELSE s.impl[o]]
           /\ t.frames = Front(s.frames)
           /\ t.content = s.content /\ t.live = s.live /\ t.busy = s.busy /\ t.uploaded = s.uploaded
           /\ t.neighbors = s.neighbors
  BY DEF After, AfterAdopt, Machine

LEMMA CopyFields ==
    ASSUME NEW x, NEW s, NEW t, x.do = "copy", t = After(x, s)
    PROVE  /\ t.content = [l \in Locations |-> IF l = x.to THEN s.content[x.from] ELSE s.content[l]]
           /\ t.alloc = s.alloc /\ t.streams = s.streams /\ t.impl = s.impl /\ t.live = s.live
           /\ t.frames = s.frames /\ t.busy = s.busy /\ t.uploaded = s.uploaded /\ t.neighbors = s.neighbors
  BY DEF After, AfterCopy, Machine

-----------------------------------------------------------------------------
(***************************************************************************)
(* A legal step keeps a machine sound                                      *)
(***************************************************************************)

\* A step that leaves the allocation, the members, the streams and the scopes
\* alone, and writes no settled buffer.
LEMMA ContentsSound ==
    ASSUME NEW s, NEW t, Sound(s),
           t.alloc = s.alloc, t.impl = s.impl, t.streams = s.streams, t.frames = s.frames,
           t.live = s.live, t.neighbors = s.neighbors,
           t.content = [l \in Locations |-> t.content[l]],
           Present(s) => \A l \in Searches \X Owned : Settled(s, l) => t.content[l] = s.content[l],
           Busy(t)
    PROVE  Sound(t)
  <1>1. Shape(t)
    BY DEF Sound, Shape
  <1>2. Ownership(t)
    BY DEF Sound, Ownership, Uses, Held
  <1>3. Equipped(t)
    BY DEF Sound, Equipped
  <1>4. Facts(t)
    <2>1. Present(t) = Present(s)
      BY DEF Present
    <2>2. \A l : Settled(t, l) = Settled(s, l) /\ Expected(t, l) = Expected(s, l)
      BY DEF Settled, Expected
    <2> QED BY <2>1, <2>2 DEF Sound, Facts
  <1> QED BY <1>1, <1>2, <1>3, <1>4 DEF Sound

LEMMA StreamSound ==
    ASSUME NEW x, NEW s, NEW t, Sound(s), Moves(x, s, t), x.do = "stream"
    PROVE  /\ Sound(t)
           /\ KnnTrue(s) => KnnTrue(t)
           /\ Linked(s) => Linked(t)
  <1>1. /\ t.alloc = s.alloc /\ t.content = s.content /\ t.streams = s.streams \union {x.on} /\ t.impl = s.impl
        /\ t.live = s.live /\ t.frames = s.frames /\ t.busy = s.busy /\ t.uploaded = s.uploaded
        /\ t.neighbors = s.neighbors
    BY StreamFields DEF Moves
  <1>2. OkStream(x, s)
    BY DEF Moves, Ok
  <1>3. KnnTrue(s) => KnnTrue(t)
    BY <1>1 DEF KnnTrue
  <1>4. Present(t) = Present(s)
    BY <1>1, <1>2 DEF Present, OkStream
  <1>5. Linked(s) => Linked(t)
    BY <1>1, <1>4 DEF Linked
  <1>6. Shape(t)
    BY <1>1, <1>2 DEF Sound, Shape, OkStream
  <1>7. Ownership(t)
    BY <1>1, <1>2 DEF Sound, Ownership, Uses, Held, OkStream
  <1>8. Busy(t)
    BY <1>1, <1>3 DEF Sound, Busy
  <1>9. Equipped(t)
    BY <1>1 DEF Sound, Equipped
  <1>10. Facts(t)
    <2>1. \A l : Settled(t, l) = Settled(s, l) /\ Expected(t, l) = Expected(s, l)
      BY <1>1 DEF Settled, Expected
    <2> QED BY <1>1, <1>4, <2>1 DEF Sound, Facts
  <1> QED BY <1>3, <1>5, <1>6, <1>7, <1>8, <1>9, <1>10 DEF Sound

\* Memory is allocated where none was.
LEMMA MallocSound ==
    ASSUME NEW x, NEW s, NEW t, Sound(s), Moves(x, s, t), x.do = "malloc"
    PROVE  /\ Sound(t)
           /\ KnnTrue(s) => KnnTrue(t)
           /\ Linked(s) => Linked(t)
  <1>1. /\ t.alloc = [l \in DOMAIN s.alloc \union {x.at} |-> IF l = x.at THEN x.size ELSE s.alloc[l]]
        /\ t.content = [l \in Locations |-> IF l = x.at THEN Garbage ELSE s.content[l]]
        /\ t.streams = s.streams /\ t.impl = s.impl /\ t.live = s.live /\ t.frames = s.frames
        /\ t.busy = s.busy /\ t.uploaded = s.uploaded /\ t.neighbors = s.neighbors
    BY MallocFields DEF Moves
  <1>2. OkMalloc(x, s)
    BY DEF Moves, Ok
  <1>3. /\ DOMAIN t.alloc = DOMAIN s.alloc \union {x.at}
        /\ \A l \in DOMAIN s.alloc : t.alloc[l] = s.alloc[l]
        /\ t.alloc[x.at] = x.size
    BY <1>1, <1>2 DEF OkMalloc
  <1>4. KnnTrue(s) => KnnTrue(t)
    BY <1>1, <1>3 DEF KnnTrue
  <1>5. Present(t) = Present(s)
    BY <1>1 DEF Present
  <1>6. Linked(s) => Linked(t)
    BY <1>1, <1>5 DEF Linked
  <1>7. Shape(t)
    BY <1>1, <1>2, <1>3 DEF Sound, Shape, OkMalloc
  <1>8. Ownership(t)
    <2>1. \A o : Held(t, o) = Held(s, o)
      BY <1>1 DEF Held
    <2>2. ASSUME NEW o \in Searches, Uses(t, o) PROVE Held(t, o)
      BY <1>1, <1>2, <1>3, <2>1, <2>2 DEF Sound, Ownership, Uses, OkMalloc
    <2> QED BY <1>1, <2>1, <2>2 DEF Sound, Ownership
  <1>9. Busy(t)
    BY <1>1, <1>4 DEF Sound, Busy
  <1>10. Equipped(t)
    <2> SUFFICES ASSUME NEW o \in Searches PROVE
          /\ t.impl[o].resident => \A b \in Workspace : <<o, b>> \in DOMAIN t.alloc
          /\ (\E b \in AfterScan : <<o, b>> \in DOMAIN t.alloc) => <<o, "scan">> \in DOMAIN t.alloc
          /\ t.impl[o].covariance_neighbors # 0 => <<o, "covariances">> \in DOMAIN t.alloc
      BY DEF Equipped
    <2>1. s.impl[o].resident => \A b \in Workspace : <<o, b>> \in DOMAIN s.alloc
      BY DEF Sound, Equipped
    <2>2. (\E b \in AfterScan : <<o, b>> \in DOMAIN s.alloc) => <<o, "scan">> \in DOMAIN s.alloc
      BY DEF Sound, Equipped
    <2>3. s.impl[o].covariance_neighbors # 0 => <<o, "covariances">> \in DOMAIN s.alloc
      BY DEF Sound, Equipped
    <2>4. ASSUME NEW b \in AfterScan, <<o, b>> \in DOMAIN t.alloc PROVE <<o, "scan">> \in DOMAIN t.alloc
      <3>1. CASE <<o, b>> \in DOMAIN s.alloc
        BY <1>3, <2>2, <3>1
      <3>2. CASE <<o, b>> = x.at
        BY <1>2, <1>3, <3>2 DEF OkMalloc
      <3> QED BY <1>3, <2>4, <3>1, <3>2
    <2> QED BY <1>1, <1>3, <2>1, <2>3, <2>4
  <1>11. Facts(t)
    <2> SUFFICES ASSUME Present(t) PROVE
          /\ <<"self", "queries">> \in DOMAIN t.alloc /\ <<"self", "indices">> \in DOMAIN t.alloc
          /\ \A l \in Searches \X Owned : Settled(t, l) => l \in DOMAIN t.alloc /\ t.content[l] = Expected(t, l)
          /\ t.impl["self"].scan_count # 0 => t.impl["self"].resident
          /\ t.impl["self"].covariance_neighbors = 0 => t.impl["self"].scan_search = "none"
          /\ t.impl["self"].covariance_neighbors # 0 /\ t.impl["self"].scan_count # 0 =>
               t.impl["self"].scan_search # "none"
      BY DEF Facts
    <2>1. Facts(s) /\ Present(s)
      BY <1>5 DEF Sound
    <2>2. ASSUME NEW l \in Searches \X Owned, Settled(t, l)
          PROVE  l \in DOMAIN t.alloc /\ t.content[l] = Expected(t, l)
      <3>1. Settled(s, l)
        <4>1. ~(l = <<"self", "reference_normals">> /\ x.at = l /\ s.impl["self"].resident)
          BY <1>2 DEF OkMalloc
        <4>2. l[1] = "self" /\ l[2] = "reference_normals" => l = <<"self", "reference_normals">>
          OBVIOUS
        <4> QED BY <1>1, <1>3, <2>2, <4>1, <4>2 DEF Settled
      <3>2. l \in DOMAIN s.alloc /\ s.content[l] = Expected(s, l)
        BY <2>1, <3>1 DEF Facts
      <3>3. l # x.at /\ l \in Locations
        BY <1>2, <3>2 DEF OkMalloc, Locations
      <3>4. Expected(t, l) = Expected(s, l)
        BY <1>1 DEF Expected
      <3> QED BY <1>1, <1>3, <3>2, <3>3, <3>4
    <2> QED BY <1>1, <1>3, <2>1, <2>2 DEF Facts
  <1> QED BY <1>4, <1>6, <1>7, <1>8, <1>9, <1>10, <1>11 DEF Sound

\* Only KNN buffers are freed within a call.
LEMMA FreeSound ==
    ASSUME NEW x, NEW s, NEW t, Sound(s), Moves(x, s, t), x.do = "free"
    PROVE  /\ Sound(t)
           /\ Linked(s) => Linked(t)
  <1>1. /\ t.alloc = [l \in DOMAIN s.alloc \ {x.at} |-> s.alloc[l]]
        /\ t.content = s.content
        /\ t.streams = s.streams /\ t.impl = s.impl /\ t.live = s.live /\ t.frames = s.frames
        /\ t.busy = s.busy /\ t.uploaded = s.uploaded /\ t.neighbors = s.neighbors
    BY FreeFields DEF Moves
  <1>2. OkFree(x, s)
    BY DEF Moves, Ok
  <1>3. /\ DOMAIN t.alloc = DOMAIN s.alloc \ {x.at}
        /\ \A l \in DOMAIN t.alloc : t.alloc[l] = s.alloc[l]
    BY <1>1
  <1>4. Present(t) = Present(s)
    BY <1>1 DEF Present
  <1>5. Linked(s) => Linked(t)
    BY <1>1, <1>4 DEF Linked
  <1>6. Shape(t)
    BY <1>1, <1>3 DEF Sound, Shape
  <1>7. Ownership(t)
    BY <1>1, <1>3 DEF Sound, Ownership, Uses, Held
  <1>8. Busy(t)
    BY <1>1, <1>2 DEF OkFree, Busy
  <1>9. \A o \in Searches : \A b \in Owned \ {"knn_indices", "knn_distances"} :
          <<o, b>> \in DOMAIN s.alloc <=> <<o, b>> \in DOMAIN t.alloc
    BY <1>2, <1>3 DEF OkFree
  <1>10. Equipped(t)
    BY <1>1, <1>9 DEF Sound, Equipped, Workspace, AfterScan, Owned
  <1>11. Facts(t)
    <2> SUFFICES ASSUME Present(t) PROVE
          /\ <<"self", "queries">> \in DOMAIN t.alloc /\ <<"self", "indices">> \in DOMAIN t.alloc
          /\ \A l \in Searches \X Owned : Settled(t, l) => l \in DOMAIN t.alloc /\ t.content[l] = Expected(t, l)
          /\ t.impl["self"].scan_count # 0 => t.impl["self"].resident
          /\ t.impl["self"].covariance_neighbors = 0 => t.impl["self"].scan_search = "none"
          /\ t.impl["self"].covariance_neighbors # 0 /\ t.impl["self"].scan_count # 0 =>
               t.impl["self"].scan_search # "none"
      BY DEF Facts
    <2>1. Facts(s) /\ Present(s)
      BY <1>4 DEF Sound
    <2>2. ASSUME NEW l \in Searches \X Owned, Settled(t, l)
          PROVE  l \in DOMAIN t.alloc /\ t.content[l] = Expected(t, l)
      <3>1. Settled(s, l)
        BY <1>1, <1>3, <2>2 DEF Settled
      <3>2. l \in DOMAIN s.alloc /\ s.content[l] = Expected(s, l)
        BY <2>1, <3>1 DEF Facts
      <3>3. l[2] \notin {"knn_indices", "knn_distances"}
        BY <3>1 DEF Settled
      <3>4. l # x.at
        BY <1>2, <3>3 DEF OkFree
      <3>5. Expected(t, l) = Expected(s, l)
        BY <1>1 DEF Expected
      <3> QED BY <1>1, <1>3, <3>2, <3>4, <3>5
    <2>3. {"queries", "indices"} \subseteq Owned \ {"knn_indices", "knn_distances"} /\ "self" \in Searches
      BY DEF Owned, Searches
    <2> QED BY <1>1, <1>9, <2>1, <2>2, <2>3 DEF Facts
  <1> QED BY <1>5, <1>6, <1>7, <1>8, <1>10, <1>11 DEF Sound

\* What the device may write, and what it leaves.
LEMMA SubmitSound ==
    ASSUME NEW x, NEW s, NEW t, Sound(s), Moves(x, s, t), x.do = "submit"
    PROVE  /\ Sound(t)
           /\ KnnTrue(s) => KnnTrue(t)
           /\ Linked(s) => Linked(t)
  <1>1. /\ t.content = Effect(x, s.content) /\ t.busy = {x.on} /\ t.alloc = s.alloc /\ t.impl = s.impl
        /\ t.streams = s.streams /\ t.frames = s.frames /\ t.live = s.live /\ t.neighbors = s.neighbors
        /\ t.uploaded = s.uploaded
    BY SubmitFields DEF Moves
  <1>2. OkSubmit(x, s)
    BY DEF Moves, Ok
  <1>3. KnnTrue(s) => KnnTrue(t)
    BY <1>1 DEF KnnTrue
  <1>4. Linked(s) => Linked(t)
    BY <1>1 DEF Linked, Present
  <1>5. Busy(t)
    BY <1>1, <1>2, <1>3 DEF OkSubmit, Busy, Steady
  <1>6. t.content = [l \in Locations |-> t.content[l]]
    BY <1>1 DEF Effect
  <1>7. ASSUME Present(s), NEW l \in Searches \X Owned, Settled(s, l) PROVE t.content[l] = s.content[l]
    <2>1. l \in Locations /\ l[1] # "host"
      BY DEF Locations, Searches
    <2>2. l \notin x.to
      BY <1>2, <1>7, <2>1 DEF OkSubmit
    <2> QED BY <1>1, <2>1, <2>2 DEF Effect
  <1>8. Sound(t)
    BY <1>1, <1>5, <1>6, <1>7, ContentsSound
  <1> QED BY <1>3, <1>4, <1>8

LEMMA SyncSound ==
    ASSUME NEW x, NEW s, NEW t, Sound(s), Moves(x, s, t), x.do = "sync"
    PROVE  /\ Sound(t)
           /\ KnnTrue(s) => KnnTrue(t)
           /\ Linked(s) => Linked(t)
  <1>1. /\ t.content = s.content /\ t.busy = {} /\ t.alloc = s.alloc /\ t.impl = s.impl
        /\ t.streams = s.streams /\ t.frames = s.frames /\ t.live = s.live /\ t.neighbors = s.neighbors
        /\ t.uploaded = s.uploaded
    BY SyncFields DEF Moves
  <1>2. KnnTrue(s) => KnnTrue(t)
    BY <1>1 DEF KnnTrue
  <1>3. Linked(s) => Linked(t)
    BY <1>1 DEF Linked, Present
  <1>4. Busy(t)
    BY <1>1 DEF Busy
  <1>5. t.content = [l \in Locations |-> t.content[l]]
    BY <1>1 DEF Sound, Shape
  <1>6. Sound(t)
    BY <1>1, <1>4, <1>5, ContentsSound
  <1> QED BY <1>2, <1>3, <1>6

LEMMA CopySound ==
    ASSUME NEW x, NEW s, NEW t, Sound(s), Moves(x, s, t), x.do = "copy"
    PROVE  /\ Sound(t)
           /\ KnnTrue(s) => KnnTrue(t)
           /\ Linked(s) => Linked(t)
  <1>1. /\ t.content = [l \in Locations |-> IF l = x.to THEN s.content[x.from] ELSE s.content[l]]
        /\ t.busy = s.busy /\ t.alloc = s.alloc /\ t.impl = s.impl
        /\ t.streams = s.streams /\ t.frames = s.frames /\ t.live = s.live /\ t.neighbors = s.neighbors
        /\ t.uploaded = s.uploaded
    BY CopyFields DEF Moves
  <1>2. OkCopy(x, s)
    BY DEF Moves, Ok
  <1>3. KnnTrue(s) => KnnTrue(t)
    BY <1>1 DEF KnnTrue
  <1>4. Linked(s) => Linked(t)
    BY <1>1 DEF Linked, Present
  <1>5. Busy(t)
    BY <1>1, <1>2 DEF Busy, OkCopy
  <1>6. t.content = [l \in Locations |-> t.content[l]]
    BY <1>1
  <1>7. ASSUME NEW l \in Searches \X Owned PROVE t.content[l] = s.content[l]
    <2>1. l \in Locations /\ l[1] # "host"
      BY DEF Locations, Searches
    <2> QED BY <1>1, <1>2, <2>1 DEF OkCopy
  <1>8. Sound(t)
    BY <1>1, <1>5, <1>6, <1>7, ContentsSound
  <1> QED BY <1>3, <1>4, <1>8

LEMMA EnterSound ==
    ASSUME NEW x, NEW s, NEW t, Sound(s), Moves(x, s, t), x.do = "enter"
    PROVE  /\ Sound(t)
           /\ KnnTrue(s) => KnnTrue(t)
           /\ Linked(s) => Linked(t)
           /\ \A o : Owns(t.frames, o) = (Owns(s.frames, o) \/ (x.owns /\ x.on = o))
  <1> DEFINE f == [on |-> x.on, owns |-> x.owns, buffers |-> DOMAIN x.buffers]
  <1>1. /\ t.content = [l \in Locations |-> IF l[1] = "host" /\ l[2] \in DOMAIN x.buffers
                                            THEN x.buffers[l[2]] ELSE s.content[l]]
        /\ t.live = s.live \union DOMAIN x.buffers /\ t.frames = Append(s.frames, f)
        /\ t.busy = s.busy /\ t.alloc = s.alloc /\ t.impl = s.impl /\ t.streams = s.streams
        /\ t.neighbors = s.neighbors /\ t.uploaded = s.uploaded
    BY EnterFields DEF Moves
  <1>2. OkEnter(x, s)
    BY DEF Moves, Ok
  <1>3. f \in FrameType /\ f.on = x.on /\ f.owns = x.owns
    BY <1>2 DEF OkEnter, FrameType
  <1>4. s.frames \in Seq(FrameType)
    BY DEF Sound, Shape
  <1> HIDE DEF f
  <1>5. /\ t.frames \in Seq(FrameType) /\ DOMAIN t.frames = 1 .. Len(s.frames) + 1
        /\ DOMAIN s.frames = 1 .. Len(s.frames) /\ Len(s.frames) \in Nat
        /\ \A i \in DOMAIN s.frames : t.frames[i] = s.frames[i]
        /\ t.frames[Len(s.frames) + 1] = f
    BY <1>1, <1>3, <1>4
  <1>6. \A o : Owns(t.frames, o) = (Owns(s.frames, o) \/ (x.owns /\ x.on = o))
    <2> TAKE o
    <2>1. ASSUME Owns(t.frames, o) PROVE Owns(s.frames, o) \/ (x.owns /\ x.on = o)
      <3>1. PICK i \in DOMAIN t.frames : t.frames[i].owns /\ t.frames[i].on = o
        BY <2>1 DEF Owns
      <3>2. CASE i \in DOMAIN s.frames
        BY <1>5, <3>1, <3>2 DEF Owns
      <3>3. CASE i = Len(s.frames) + 1
        BY <1>3, <1>5, <3>1, <3>3
      <3> QED BY <1>5, <3>1, <3>2, <3>3
    <2>2. ASSUME Owns(s.frames, o) \/ (x.owns /\ x.on = o) PROVE Owns(t.frames, o)
      <3>1. CASE Owns(s.frames, o)
        BY <1>5, <3>1 DEF Owns
      <3>2. CASE x.owns /\ x.on = o
        <4>1. Len(s.frames) + 1 \in DOMAIN t.frames
          BY <1>5
        <4> QED BY <1>3, <1>5, <3>2, <4>1 DEF Owns
      <3> QED BY <2>2, <3>1, <3>2
    <2>3. Owns(t.frames, o) \in BOOLEAN /\ Owns(s.frames, o) \in BOOLEAN /\ x.owns \in BOOLEAN
      BY <1>2 DEF Owns, OkEnter
    <2> QED BY <2>1, <2>2, <2>3
  <1>7. KnnTrue(s) => KnnTrue(t)
    BY <1>1 DEF KnnTrue
  <1>8. Linked(s) => Linked(t)
    BY <1>1, <1>6 DEF Linked, Present
  <1>9. Shape(t)
    BY <1>1, <1>2, <1>5 DEF Sound, Shape, OkEnter
  <1>10. Ownership(t)
    <2>1. \A o : Uses(t, o) = Uses(s, o)
      BY <1>1 DEF Uses
    <2>2. ASSUME NEW o \in Searches, Uses(t, o) PROVE Held(t, o)
      <3>1. Uses(s, o) /\ Held(s, o)
        BY <2>1, <2>2 DEF Sound, Ownership
      <3>2. ~(x.owns /\ x.on = "self")
        BY <1>2, <3>1 DEF OkEnter
      <3> QED BY <1>1, <1>6, <3>1, <3>2 DEF Held
    <2>3. ASSUME NEW o \in Searches, ~Held(t, o) PROVE t.impl[o] = Blank
      <3>1. CASE Held(s, o)
        <4>1. x.owns /\ x.on = "self" /\ o # "self"
          BY <1>1, <1>6, <2>3, <3>1 DEF Held
        <4>2. s.frames = <<>> /\ s.impl["self"].scan_search = "none"
          BY <1>2, <4>1 DEF OkEnter
        <4>3. ~Owns(s.frames, o)
          BY <4>2 DEF Owns
        <4>4. FALSE
          BY <3>1, <4>1, <4>2, <4>3 DEF Held, Searches
        <4> QED BY <4>4
      <3>2. CASE ~Held(s, o)
        BY <1>1, <3>2 DEF Sound, Ownership
      <3> QED BY <3>1, <3>2
    <2>4. \A o \in Searches : Owns(t.frames, o) => t.impl["self"].scan_search # o
      BY <1>1, <1>2, <1>6 DEF Sound, Ownership, OkEnter
    <2>5. \A i \in DOMAIN t.frames : t.frames[i].owns /\ t.frames[i].on = "self" => i = 1
      BY <1>2, <1>3, <1>5 DEF Sound, Ownership, OkEnter
    <2> QED BY <2>2, <2>3, <2>4, <2>5 DEF Ownership
  <1>11. Busy(t)
    BY <1>1, <1>2 DEF Busy, OkEnter
  <1>12. Equipped(t)
    BY <1>1 DEF Sound, Equipped
  <1>13. Facts(t)
    <2>1. Present(t) => Present(s)
      BY <1>1, <1>6 DEF Present
    <2>2. \A l : Settled(t, l) = Settled(s, l) /\ Expected(t, l) = Expected(s, l)
      BY <1>1 DEF Settled, Expected
    <2>3. \A l \in Searches \X Owned : t.content[l] = s.content[l]
      BY <1>1 DEF Locations, Searches
    <2> QED BY <1>1, <2>1, <2>2, <2>3 DEF Sound, Facts
  <1> QED BY <1>6, <1>7, <1>8, <1>9, <1>10, <1>11, <1>12, <1>13 DEF Sound

\* A frame is popped.
LEMMA Popped ==
    ASSUME NEW f, f \in Seq(FrameType), f # <<>>
    PROVE  /\ Front(f) \in Seq(FrameType) /\ Last(f) \in FrameType
           /\ Len(f) \in Nat /\ Len(f) >= 1 /\ DOMAIN f = 1 .. Len(f) /\ DOMAIN Front(f) = 1 .. Len(f) - 1
           /\ Last(f) = f[Len(f)]
           /\ \A i \in DOMAIN Front(f) : i \in DOMAIN f /\ Front(f)[i] = f[i]
           /\ \A o : Owns(f, o) => Owns(Front(f), o) \/ (Last(f).owns /\ Last(f).on = o)
           /\ \A o : Owns(Front(f), o) => Owns(f, o)
           /\ \A o : Last(f).owns /\ Last(f).on = o => Owns(f, o)
  <1>1. Len(f) \in Nat /\ Len(f) >= 1 /\ DOMAIN f = 1 .. Len(f) /\ Last(f) = f[Len(f)] /\ Len(f) \in DOMAIN f
    BY DEF Last
  <1>2. /\ Front(f) \in Seq(FrameType) /\ Len(Front(f)) = Len(f) - 1
        /\ \A i \in 1 .. Len(f) - 1 : Front(f)[i] = f[i]
    BY <1>1 DEF Front
  <1>3. DOMAIN Front(f) = 1 .. Len(f) - 1
    BY <1>2
  <1>4. \A i \in DOMAIN Front(f) : i \in DOMAIN f /\ Front(f)[i] = f[i]
    BY <1>1, <1>2, <1>3
  <1>5. ASSUME NEW o, Owns(f, o) PROVE Owns(Front(f), o) \/ (Last(f).owns /\ Last(f).on = o)
    <2>1. PICK i \in DOMAIN f : f[i].owns /\ f[i].on = o
      BY <1>5 DEF Owns
    <2>2. CASE i = Len(f)
      BY <1>1, <2>1, <2>2
    <2>3. CASE i # Len(f)
      <3>1. i \in DOMAIN Front(f)
        BY <1>1, <1>3, <2>3
      <3> QED BY <1>4, <2>1, <3>1 DEF Owns
    <2> QED BY <2>2, <2>3
  <1>6. \A o : Owns(Front(f), o) => Owns(f, o)
    BY <1>4 DEF Owns
  <1>7. \A o : Last(f).owns /\ Last(f).on = o => Owns(f, o)
    BY <1>1 DEF Owns
  <1>8. Last(f) \in FrameType
    BY <1>1
  <1> QED BY <1>1, <1>2, <1>3, <1>4, <1>5, <1>6, <1>7, <1>8

LEMMA LeaveSound ==
    ASSUME NEW x, NEW s, NEW t, Sound(s), Moves(x, s, t), x.do = "leave"
    PROVE  /\ Sound(t)
           /\ KnnTrue(s) => KnnTrue(t)
           /\ Linked(s) /\ ~Last(s.frames).owns => Linked(t)
  <1>1. /\ t.live = s.live \ Last(s.frames).buffers /\ t.frames = Front(s.frames)
        /\ t.content = s.content /\ t.busy = s.busy /\ t.alloc = s.alloc /\ t.impl = s.impl
        /\ t.streams = s.streams /\ t.neighbors = s.neighbors /\ t.uploaded = s.uploaded
    BY LeaveFields DEF Moves
  <1>2. OkLeave(x, s)
    BY DEF Moves, Ok
  <1>3. KnnTrue(s) => KnnTrue(t)
    BY <1>1 DEF KnnTrue
  <1>4. CASE Last(s.frames).owns
    <2>1. t = AfterLeave(x, s)
      BY DEF Moves, After
    <2> QED BY <1>2, <1>3, <1>4, <2>1 DEF OkLeave
  <1>5. CASE ~Last(s.frames).owns
    <2>1. s.frames \in Seq(FrameType) /\ s.frames # <<>>
      BY <1>2 DEF Sound, Shape, OkLeave
    <2>2. /\ \A o : Owns(t.frames, o) <=> Owns(s.frames, o)
          /\ t.frames \in Seq(FrameType)
          /\ \A i \in DOMAIN t.frames : i \in DOMAIN s.frames /\ t.frames[i] = s.frames[i]
      BY <1>1, <1>5, <2>1, Popped
    <2>3. Present(t) <=> Present(s)
      BY <1>1, <2>2 DEF Present
    <2>4. Shape(t)
      BY <1>1, <2>2 DEF Sound, Shape
    <2>5. Ownership(t)
      <3>1. \A o : Uses(t, o) <=> Uses(s, o)
        BY <1>1 DEF Uses
      <3>2. \A o : Held(t, o) <=> Held(s, o)
        BY <1>1, <2>2 DEF Held
      <3> QED BY <1>1, <2>2, <3>1, <3>2 DEF Sound, Ownership
    <2>6. Busy(t)
      BY <1>1, <1>2 DEF Busy, OkLeave
    <2>7. Equipped(t)
      BY <1>1 DEF Sound, Equipped
    <2>8. Facts(t)
      <3>1. \A l : Settled(t, l) = Settled(s, l) /\ Expected(t, l) = Expected(s, l)
        BY <1>1 DEF Settled, Expected
      <3> QED BY <1>1, <2>3, <3>1 DEF Sound, Facts
    <2>9. Linked(s) => Linked(t)
      BY <1>1, <2>2, <2>3 DEF Linked
    <2> QED BY <1>3, <2>4, <2>5, <2>6, <2>7, <2>8, <2>9 DEF Sound
  <1> QED BY <1>4, <1>5

\* What one assignment to the members does.
LEMMA AssignedFields ==
    ASSUME NEW m, NEW v
    PROVE  /\ Assigned(m, "strategy", v) =
                [strategy |-> v, resident |-> m.resident, knn_capacity |-> m.knn_capacity,
                 covariance_neighbors |-> m.covariance_neighbors, scan_count |-> m.scan_count,
                 has_scan_normals |-> m.has_scan_normals, scan_search |-> m.scan_search]
           /\ Assigned(m, "resident", v) =
                [strategy |-> m.strategy, resident |-> v, knn_capacity |-> m.knn_capacity,
                 covariance_neighbors |-> m.covariance_neighbors, scan_count |-> m.scan_count,
                 has_scan_normals |-> m.has_scan_normals, scan_search |-> m.scan_search]
           /\ Assigned(m, "knn_capacity", v) =
                [strategy |-> m.strategy, resident |-> m.resident, knn_capacity |-> v,
                 covariance_neighbors |-> m.covariance_neighbors, scan_count |-> m.scan_count,
                 has_scan_normals |-> m.has_scan_normals, scan_search |-> m.scan_search]
           /\ Assigned(m, "covariance_neighbors", v) =
                [strategy |-> m.strategy, resident |-> m.resident, knn_capacity |-> m.knn_capacity,
                 covariance_neighbors |-> v, scan_count |-> m.scan_count,
                 has_scan_normals |-> m.has_scan_normals, scan_search |-> m.scan_search]
           /\ Assigned(m, "scan_count", v) =
                [strategy |-> m.strategy, resident |-> m.resident, knn_capacity |-> m.knn_capacity,
                 covariance_neighbors |-> m.covariance_neighbors, scan_count |-> v,
                 has_scan_normals |-> m.has_scan_normals, scan_search |-> m.scan_search]
           /\ Assigned(m, "has_scan_normals", v) =
                [strategy |-> m.strategy, resident |-> m.resident, knn_capacity |-> m.knn_capacity,
                 covariance_neighbors |-> m.covariance_neighbors, scan_count |-> m.scan_count,
                 has_scan_normals |-> v, scan_search |-> m.scan_search]
           /\ Assigned(m, "scan_search", v) =
                [strategy |-> m.strategy, resident |-> m.resident, knn_capacity |-> m.knn_capacity,
                 covariance_neighbors |-> m.covariance_neighbors, scan_count |-> m.scan_count,
                 has_scan_normals |-> m.has_scan_normals, scan_search |-> v]
  BY DEF Assigned

\* The search adopted was owned by the scope it leaves, and is owned by self
\* from then on; the one before is gone.
LEMMA AdoptSound ==
    ASSUME NEW x, NEW s, NEW t, Sound(s), Moves(x, s, t), x.do = "adopt"
    PROVE  /\ Sound(t)
           /\ KnnTrue(s) => KnnTrue(t)
           /\ Linked(s) => Linked(t)
           /\ t.impl["self"] = Assigned(s.impl["self"], "scan_search", x.on)
           /\ t.impl[x.on] = s.impl[x.on]
  <1> DEFINE old == s.impl["self"].scan_search
             m == Assigned(s.impl["self"], "scan_search", x.on)
  <1>1. /\ t.alloc = [l \in {p \in DOMAIN s.alloc : p[1] # old} |-> s.alloc[l]]
        /\ t.streams = s.streams \ {old}
        /\ t.impl = [o \in Searches |-> IF o = old THEN Blank
                                        ELSE IF o = "self" THEN Assigned(s.impl[o], "scan_search", x.on)
                                        ELSE s.impl[o]]
        /\ t.frames = Front(s.frames) /\ t.content = s.content /\ t.live = s.live /\ t.busy = s.busy
        /\ t.uploaded = s.uploaded /\ t.neighbors = s.neighbors
    BY AdoptFields DEF Moves
  <1>2. OkAdopt(x, s)
    BY DEF Moves, Ok
  <1>3. /\ s.impl["self"] \in MemberType(s.neighbors) /\ old \in {"none", "a", "b"}
        /\ x.on \in {"a", "b"} /\ x.on \in Searches /\ "self" \in Searches
    BY <1>2 DEF Sound, Shape, OkAdopt, Searches, MemberType
  <1>4. s.frames \in Seq(FrameType) /\ s.frames # <<>>
    BY <1>2 DEF Sound, Shape, OkAdopt
  <1>5. /\ t.frames \in Seq(FrameType)
        /\ \A i \in DOMAIN t.frames : i \in DOMAIN s.frames /\ t.frames[i] = s.frames[i]
        /\ \A o : Owns(t.frames, o) => Owns(s.frames, o)
        /\ \A o : Owns(s.frames, o) /\ o # x.on => Owns(t.frames, o)
        /\ Owns(s.frames, x.on) /\ ~Owns(t.frames, x.on)
    BY <1>1, <1>2, <1>4, Popped DEF OkAdopt
  <1>6. old # x.on /\ old # "self"
    BY <1>3, <1>5 DEF Sound, Ownership
  <1>7. /\ m = [strategy |-> s.impl["self"].strategy, resident |-> s.impl["self"].resident,
                knn_capacity |-> s.impl["self"].knn_capacity,
                covariance_neighbors |-> s.impl["self"].covariance_neighbors,
                scan_count |-> s.impl["self"].scan_count,
                has_scan_normals |-> s.impl["self"].has_scan_normals, scan_search |-> x.on]
    BY AssignedFields
  <1>8. /\ t.impl["self"] = m /\ t.impl[x.on] = s.impl[x.on]
        /\ \A o \in Searches : t.impl[o] = IF o = old THEN Blank ELSE IF o = "self" THEN m ELSE s.impl[o]
    BY <1>1, <1>3, <1>6
  <1>9. m \in MemberType(s.neighbors) /\ m.scan_search = x.on
    BY <1>3, <1>7 DEF MemberType
  <1> HIDE DEF m
  <1>10. ~Owns(s.frames, "self") /\ ~Owns(t.frames, "self") /\ Present(t) /\ Present(s)
    BY <1>1, <1>2, <1>3, <1>5, <1>6 DEF OkAdopt, Present
  <1>11. /\ DOMAIN t.alloc = {p \in DOMAIN s.alloc : p[1] # old}
         /\ \A l \in DOMAIN t.alloc : t.alloc[l] = s.alloc[l]
    BY <1>1
  <1>12. KnnTrue(s) => KnnTrue(t)
    <2> SUFFICES ASSUME KnnTrue(s), NEW o \in Searches, t.impl[o].knn_capacity # 0,
                        NEW b \in {"knn_indices", "knn_distances"}
                 PROVE  <<o, b>> \in DOMAIN t.alloc /\ t.alloc[<<o, b>>] >= t.impl[o].knn_capacity
      BY DEF KnnTrue
    <2>1. o # old
      BY <1>8 DEF Blank
    <2>2. t.impl[o].knn_capacity = s.impl[o].knn_capacity
      BY <1>7, <1>8, <2>1 DEF m
    <2>3. <<o, b>> \in DOMAIN s.alloc /\ s.alloc[<<o, b>>] >= s.impl[o].knn_capacity
      BY <2>2 DEF KnnTrue
    <2>4. <<o, b>>[1] = o
      OBVIOUS
    <2> QED BY <1>11, <2>1, <2>2, <2>3, <2>4
  <1>13. /\ t.impl["self"].scan_count = s.impl["self"].scan_count
         /\ t.impl["self"].has_scan_normals = s.impl["self"].has_scan_normals
         /\ t.impl["self"].resident = s.impl["self"].resident
         /\ t.impl["self"].strategy = s.impl["self"].strategy
         /\ t.impl["self"].covariance_neighbors = s.impl["self"].covariance_neighbors
    BY <1>7, <1>8 DEF m
  <1>14. Linked(s) => Linked(t)
    BY <1>1, <1>10, <1>13 DEF Linked
  <1>15. Shape(t)
    <2>1. Blank \in MemberType(s.neighbors)
      BY DEF Blank, MemberType, Sound, Shape
    <2>2. t.impl \in [Searches -> MemberType(t.neighbors)]
      BY <1>1, <1>8, <1>9, <2>1 DEF Sound, Shape
    <2> QED BY <1>1, <1>5, <1>11, <2>2 DEF Sound, Shape
  <1>16. Ownership(t)
    <2>1. ASSUME NEW o \in Searches, Uses(t, o) PROVE Held(t, o)
      <3>1. o # old /\ Uses(s, o)
        BY <1>1, <1>11, <2>1 DEF Uses
      <3>2. Held(s, o)
        BY <3>1 DEF Sound, Ownership
      <3>3. Owns(s.frames, o) \/ o = "self"
        BY <1>10, <3>1, <3>2 DEF Held
      <3> QED BY <1>5, <1>8, <1>9, <1>10, <3>3 DEF Held
    <2>2. ASSUME NEW o \in Searches, ~Held(t, o) PROVE t.impl[o] = Blank
      <3>1. o # "self" /\ o # x.on /\ ~Owns(t.frames, o)
        BY <1>8, <1>9, <1>10, <2>2 DEF Held
      <3>2. ~Owns(s.frames, o)
        BY <1>5, <3>1
      <3>3. CASE o = old
        BY <1>8, <3>3
      <3>4. CASE o # old
        <4>1. ~Held(s, o)
          BY <3>1, <3>2, <3>4 DEF Held
        <4> QED BY <1>8, <3>1, <3>4, <4>1 DEF Sound, Ownership
      <3> QED BY <3>3, <3>4
    <2>3. \A o \in Searches : Owns(t.frames, o) => t.impl["self"].scan_search # o
      BY <1>5, <1>8, <1>9
    <2>4. \A i \in DOMAIN t.frames : t.frames[i].owns /\ t.frames[i].on = "self" => i = 1
      BY <1>5 DEF Sound, Ownership
    <2> QED BY <2>1, <2>2, <2>3, <2>4 DEF Ownership
  <1>17. Busy(t)
    BY <1>1, <1>2 DEF Busy, OkAdopt
  <1>18. \A o \in Searches \ {old} : \A b : <<o, b>> \in DOMAIN t.alloc <=> <<o, b>> \in DOMAIN s.alloc
    <2>1. \A o, b : <<o, b>>[1] = o
      OBVIOUS
    <2> QED BY <1>11, <2>1
  <1>19. Equipped(t)
    <2> SUFFICES ASSUME NEW o \in Searches PROVE
          /\ t.impl[o].resident => \A b \in Workspace : <<o, b>> \in DOMAIN t.alloc
          /\ (\E b \in AfterScan : <<o, b>> \in DOMAIN t.alloc) => <<o, "scan">> \in DOMAIN t.alloc
          /\ t.impl[o].covariance_neighbors # 0 => <<o, "covariances">> \in DOMAIN t.alloc
      BY DEF Equipped
    <2>1. CASE o = old
      <3>1. \A b : <<o, b>> \notin DOMAIN t.alloc
        BY <1>11, <2>1
      <3>2. t.impl[o] = Blank
        BY <1>8, <2>1
      <3>3. ~t.impl[o].resident /\ t.impl[o].covariance_neighbors = 0
        BY <3>2 DEF Blank
      <3> QED BY <3>1, <3>3
    <2>2. CASE o # old
      <3>1. /\ t.impl[o].resident = s.impl[o].resident
            /\ t.impl[o].covariance_neighbors = s.impl[o].covariance_neighbors
        BY <1>8, <1>13, <2>2
      <3> QED BY <1>18, <2>2, <3>1 DEF Sound, Equipped
    <2> QED BY <2>1, <2>2
  <1>20. Facts(t)
    <2>1. Facts(s)
      BY DEF Sound
    <2>2. <<"self", "queries">> \in DOMAIN t.alloc /\ <<"self", "indices">> \in DOMAIN t.alloc
      BY <1>3, <1>6, <1>10, <1>18, <2>1 DEF Facts
    <2>3. s.impl["self"].scan_count = 0 /\ s.impl["self"].covariance_neighbors # 0
      BY <1>2 DEF OkAdopt
    <2>4. ASSUME NEW l \in Searches \X Owned, Settled(t, l)
          PROVE  l \in DOMAIN t.alloc /\ t.content[l] = Expected(t, l)
      <3>1. l[1] = "self"
        BY <1>13, <2>3, <2>4 DEF Settled
      <3>2. Settled(s, l)
        BY <1>11, <1>13, <2>3, <2>4 DEF Settled
      <3>3. l \in DOMAIN s.alloc /\ s.content[l] = Expected(s, l)
        BY <1>10, <2>1, <3>2 DEF Facts
      <3>4. Expected(t, l) = Expected(s, l)
        BY <1>13, <3>1 DEF Expected
      <3> QED BY <1>1, <1>6, <1>11, <3>1, <3>3, <3>4
    <2> QED BY <1>10, <1>13, <2>1, <2>2, <2>3, <2>4 DEF Facts
  <1> QED BY <1>8, <1>12, <1>14, <1>15, <1>16, <1>17, <1>19, <1>20 DEF Sound, m

\* A legal step of any kind.
LEMMA StepSound ==
    ASSUME NEW x, NEW s, NEW t, Sound(s), Moves(x, s, t)
    PROVE  Sound(t)
  <1>1. CASE x.do = "check"
    BY <1>1 DEF Moves, After
  <1>2. CASE x.do = "set"
    BY <1>2 DEF Moves, Ok, OkSet, After
  <1>3. x.do \in {"stream", "malloc", "free", "submit", "sync", "check", "set", "enter", "leave", "adopt", "copy"}
    BY DEF Moves, Ok
  <1> QED BY <1>1, <1>2, <1>3, StreamSound, MallocSound, FreeSound, SubmitSound, SyncSound, EnterSound,
             LeaveSound, AdoptSound, CopySound

-----------------------------------------------------------------------------
(***************************************************************************)
(* Scripts                                                                 *)
(***************************************************************************)
LEMMA NaturalsReached ==
    ASSUME NEW T \in SUBSET Nat, 0 \in T, \A n \in T : n + 1 \in T
    PROVE  T = Nat
  <1> SUFFICES ASSUME Nat \ T # {} PROVE FALSE
    OBVIOUS
  <1>1. PICK x \in Nat \ T : \A y \in Nat \ T : ~(<<y, x>> \in OpToRel(<, Nat))
    BY WFMin, NatLessThanWellFounded
  <1>2. x # 0 /\ x - 1 \in Nat /\ x - 1 < x /\ (x - 1) + 1 = x
    OBVIOUS
  <1>3. x - 1 \in T
    BY <1>1, <1>2 DEF OpToRel
  <1> QED BY <1>2, <1>3

LEMMA RunsNone ==
    ASSUME NEW s
    PROVE  Runs(<<>>, s, s)
  <1> DEFINE h == [i \in {0} |-> s]
  <1>1. <<>> \in Seq({}) /\ Len(<<>>) = 0
    OBVIOUS
  <1>2. h[0] = s /\ h[Len(<<>>)] = s /\ \A i \in 1 .. Len(<<>>) : FALSE
    BY <1>1
  <1> QED BY <1>1, <1>2 DEF Runs

LEMMA RunsOne ==
    ASSUME NEW x, NEW s, NEW t, Moves(x, s, t)
    PROVE  Runs(<<x>>, s, t)
  <1> DEFINE h == [i \in 0 .. 1 |-> IF i = 0 THEN s ELSE t]
  <1>1. <<x>> \in Seq({x}) /\ Len(<<x>>) = 1 /\ <<x>>[1] = x
    OBVIOUS
  <1>2. h[0] = s /\ h[Len(<<x>>)] = t
    BY <1>1
  <1>3. ASSUME NEW i \in 1 .. Len(<<x>>) PROVE Moves(<<x>>[i], h[i - 1], h[i])
    <2>1. i = 1 /\ i - 1 = 0
      BY <1>1
    <2> QED BY <1>1, <2>1
  <1> HIDE DEF h
  <1> QED BY <1>1, <1>2, <1>3 DEF Runs

LEMMA RunsConcat ==
    ASSUME NEW p, NEW q, NEW s, NEW m, NEW t, Runs(p, s, m), Runs(q, m, t)
    PROVE  Runs(p \o q, s, t)
  <1>1. PICK S : p \in Seq(S)
    BY DEF Runs
  <1>2. PICK T : q \in Seq(T)
    BY DEF Runs
  <1>3. PICK g : g[0] = s /\ g[Len(p)] = m /\ \A i \in 1 .. Len(p) : Moves(p[i], g[i - 1], g[i])
    BY DEF Runs
  <1>4. PICK h : h[0] = m /\ h[Len(q)] = t /\ \A i \in 1 .. Len(q) : Moves(q[i], h[i - 1], h[i])
    BY DEF Runs
  <1> DEFINE n == Len(p)
             k == Len(q)
             r == p \o q
             f == [i \in 0 .. n + k |-> IF i <= n THEN g[i] ELSE h[i - n]]
  <1>5. n \in Nat /\ k \in Nat
    BY <1>1, <1>2
  <1>6. p \in Seq(S \union T) /\ q \in Seq(S \union T)
    BY <1>1, <1>2
  <1>7. /\ r \in Seq(S \union T) /\ Len(r) = n + k
        /\ \A i \in 1 .. n : r[i] = p[i]
        /\ \A i \in 1 .. n + k : i > n => r[i] = q[i - n]
    BY <1>6
  <1> HIDE DEF n, k, r
  <1>8. f[0] = s
    BY <1>3, <1>5
  <1>9. f[n] = m
    BY <1>3, <1>5 DEF n
  <1>10. f[n + k] = t
    <2>1. CASE k = 0
      <3>1. m = t
        BY <1>4, <2>1 DEF k
      <3> QED BY <1>5, <1>9, <2>1, <3>1
    <2>2. CASE k > 0
      <3>1. n + k \in 0 .. n + k /\ ~(n + k <= n) /\ (n + k) - n = k
        BY <1>5, <2>2
      <3> QED BY <1>4, <3>1 DEF k
    <2> QED BY <1>5, <2>1, <2>2
  <1>11. ASSUME NEW i \in 1 .. n + k PROVE Moves(r[i], f[i - 1], f[i])
    <2>1. CASE i <= n
      <3>1. i \in 1 .. n /\ f[i] = g[i] /\ f[i - 1] = g[i - 1]
        BY <1>5, <2>1
      <3> QED BY <1>3, <1>7, <3>1 DEF n
    <2>2. CASE i > n
      <3>1. i - n \in 1 .. k /\ f[i] = h[i - n]
        BY <1>5, <2>2
      <3>2. f[i - 1] = h[(i - n) - 1]
        <4>1. CASE i = n + 1
          <5>1. i - 1 = n /\ (i - n) - 1 = 0
            BY <1>5, <4>1
          <5> QED BY <1>4, <1>9, <5>1
        <4>2. CASE i > n + 1
          <5>1. i - 1 \in 0 .. n + k /\ ~(i - 1 <= n) /\ (i - 1) - n = (i - n) - 1
            BY <1>5, <4>2
          <5> QED BY <5>1
        <4> QED BY <1>5, <2>2, <4>1, <4>2
      <3> QED BY <1>4, <1>7, <2>2, <3>1, <3>2 DEF k
    <2> QED BY <1>5, <2>1, <2>2
  <1> HIDE DEF f
  <1>12. Runs(r, s, t)
    BY <1>7, <1>8, <1>10, <1>11 DEF Runs
  <1> QED BY <1>12 DEF r

LEMMA RunsHead ==
    ASSUME NEW p, NEW s, NEW t, Runs(p, s, t), p # <<>>
    PROVE  /\ Moves(Head(p), s, After(Head(p), s))
           /\ Runs(Tail(p), After(Head(p), s), t)
  <1>1. PICK S : p \in Seq(S)
    BY DEF Runs
  <1>2. PICK g : g[0] = s /\ g[Len(p)] = t /\ \A i \in 1 .. Len(p) : Moves(p[i], g[i - 1], g[i])
    BY DEF Runs
  <1> DEFINE n == Len(p)
             q == Tail(p)
             h == [i \in 0 .. n - 1 |-> g[i + 1]]
  <1>3. n \in Nat /\ n >= 1 /\ Head(p) = p[1]
    BY <1>1
  <1>4. q \in Seq(S) /\ Len(q) = n - 1 /\ \A i \in 1 .. n - 1 : q[i] = p[i + 1]
    BY <1>1, <1>3
  <1>5. Moves(Head(p), s, g[1]) /\ g[1] = After(Head(p), s)
    BY <1>2, <1>3 DEF Moves
  <1>6. h[0] = g[1] /\ h[n - 1] = t
    <2>1. 0 \in 0 .. n - 1 /\ n - 1 \in 0 .. n - 1 /\ (n - 1) + 1 = n /\ 0 + 1 = 1
      BY <1>3
    <2>2. g[n] = t
      BY <1>2
    <2> QED BY <2>1, <2>2
  <1>7. ASSUME NEW i \in 1 .. n - 1 PROVE Moves(q[i], h[i - 1], h[i])
    <2>1. i + 1 \in 1 .. n /\ (i + 1) - 1 = i /\ h[i] = g[i + 1] /\ h[i - 1] = g[i]
      <3>1. i - 1 \in 0 .. n - 1 /\ (i - 1) + 1 = i /\ i \in 0 .. n - 1 /\ i + 1 \in 1 .. n /\ (i + 1) - 1 = i
        BY <1>3
      <3> QED BY <3>1
    <2>2. Moves(p[i + 1], g[(i + 1) - 1], g[i + 1])
      BY <1>2, <2>1
    <2> QED BY <1>4, <2>1, <2>2
  <1> HIDE DEF h, q
  <1>8. Runs(q, g[1], t)
    BY <1>4, <1>6, <1>7 DEF Runs
  <1> QED BY <1>5, <1>8 DEF q

LEMMA RunsEnd ==
    ASSUME NEW s, NEW t, Runs(<<>>, s, t)
    PROVE  s = t
  BY DEF Runs

\* A script that leaves work behind waits for it.
LEMMA StaysBusy ==
    ASSUME NEW x, NEW s, NEW t, Moves(x, s, t), s.busy # {},
           x.do \notin {"stream", "malloc", "free", "submit", "sync", "copy"}
    PROVE  t.busy # {}
  <1>1. Ok(x, s) /\ t = After(x, s)
    BY DEF Moves
  <1>2. x.do \in {"check", "set", "enter", "leave", "adopt"}
    BY <1>1 DEF Ok
  <1>3. CASE x.do = "check"
    BY <1>1, <1>3 DEF After
  <1>4. CASE x.do = "set"
    <2>1. t.busy = s.busy
      BY <1>1, <1>4 DEF After, AfterSet, Machine
    <2> QED BY <2>1
  <1>5. CASE x.do \in {"enter", "leave", "adopt"}
    BY <1>1, <1>5 DEF Ok, OkEnter, OkLeave, OkAdopt
  <1> QED BY <1>2, <1>3, <1>4, <1>5

LEMMA BusyWorks ==
    ASSUME NEW p, NEW s, NEW t, Runs(p, s, t), s.busy # {}, t.busy = {}
    PROVE  Works(p)
  <1> SUFFICES ASSUME ~Works(p) PROVE FALSE
    OBVIOUS
  <1>1. PICK S : p \in Seq(S)
    BY DEF Runs
  <1>2. PICK g : g[0] = s /\ g[Len(p)] = t /\ \A i \in 1 .. Len(p) : Moves(p[i], g[i - 1], g[i])
    BY DEF Runs
  <1>3. Len(p) \in Nat /\ DOMAIN p = 1 .. Len(p)
    BY <1>1
  <1> DEFINE T == {i \in Nat : i <= Len(p) => g[i].busy # {}}
  <1>4. 0 \in T
    BY <1>2
  <1>5. ASSUME NEW i \in T PROVE i + 1 \in T
    <2> SUFFICES ASSUME i + 1 <= Len(p) PROVE g[i + 1].busy # {}
      OBVIOUS
    <2>1. i \in Nat /\ i + 1 \in 1 .. Len(p) /\ (i + 1) - 1 = i /\ g[i].busy # {}
      BY <1>3
    <2>2. Moves(p[i + 1], g[i], g[i + 1])
      BY <1>2, <2>1
    <2>3. p[i + 1].do \notin {"stream", "malloc", "free", "submit", "sync", "copy"}
      BY <1>3, <2>1 DEF Works
    <2> QED BY <2>1, <2>2, <2>3, StaysBusy
  <1>6. T = Nat
    <2> HIDE DEF T
    <2>1. T \in SUBSET Nat
      BY DEF T
    <2> QED BY <1>4, <1>5, <2>1, NaturalsReached
  <1> QED BY <1>2, <1>3, <1>6

LEMMA WorksTail ==
    ASSUME NEW p, NEW S, p \in Seq(S), p # <<>>, Works(p),
           Head(p).do \notin {"stream", "malloc", "free", "submit", "sync", "copy"}
    PROVE  Works(Tail(p))
  <1>1. PICK i \in DOMAIN p : p[i].do \in {"stream", "malloc", "free", "submit", "sync", "copy"}
    BY DEF Works
  <1>2. Len(p) \in Nat /\ DOMAIN p = 1 .. Len(p) /\ Head(p) = p[1] /\ Len(p) >= 1
    BY DEF Works
  <1>3. i # 1
    BY <1>1, <1>2
  <1>4. i - 1 \in DOMAIN Tail(p) /\ Tail(p)[i - 1] = p[i]
    BY <1>1, <1>2, <1>3
  <1> QED BY <1>1, <1>4 DEF Works

LEMMA WorksConcat ==
    ASSUME NEW p, NEW q, NEW S, NEW T, p \in Seq(S), q \in Seq(T), Works(p) \/ Works(q)
    PROVE  Works(p \o q)
  <1>1. p \in Seq(S \union T) /\ q \in Seq(S \union T)
    OBVIOUS
  <1>2. /\ DOMAIN p = 1 .. Len(p) /\ DOMAIN q = 1 .. Len(q) /\ Len(p) \in Nat /\ Len(q) \in Nat
        /\ DOMAIN (p \o q) = 1 .. Len(p) + Len(q)
        /\ \A i \in 1 .. Len(p) : (p \o q)[i] = p[i]
        /\ \A i \in 1 .. Len(q) : (p \o q)[Len(p) + i] = q[i]
    BY <1>1
  <1>3. CASE Works(p)
    <2>1. PICK i \in DOMAIN p : p[i].do \in {"stream", "malloc", "free", "submit", "sync", "copy"}
      BY <1>3 DEF Works
    <2>2. i \in DOMAIN (p \o q) /\ (p \o q)[i] = p[i]
      BY <1>2, <2>1
    <2> QED BY <2>1, <2>2 DEF Works
  <1>4. CASE Works(q)
    <2>1. PICK i \in DOMAIN q : q[i].do \in {"stream", "malloc", "free", "submit", "sync", "copy"}
      BY <1>4 DEF Works
    <2>2. Len(p) + i \in DOMAIN (p \o q) /\ (p \o q)[Len(p) + i] = q[i]
      BY <1>2, <2>1
    <2> QED BY <2>1, <2>2 DEF Works
  <1> QED BY <1>3, <1>4

-----------------------------------------------------------------------------
(***************************************************************************)
(* Queues                                                                  *)
(***************************************************************************)
LEMMA DrainsNone ==
    ASSUME NEW c, NEW d
    PROVE  Drains(d, <<>>, c) <=> d = c
  <1>1. Len(<<>>) = 0 /\ 1 .. 0 = {}
    OBVIOUS
  <1>2. ASSUME Drains(d, <<>>, c) PROVE d = c
    BY <1>1, <1>2 DEF Drains
  <1>3. ASSUME d = c PROVE Drains(d, <<>>, c)
    <2> DEFINE h == [i \in {0} |-> d]
    <2>1. h[0] = d /\ h[Len(<<>>)] = c /\ \A i \in 1 .. Len(<<>>) : h[i] = Effect(<<>>[i], h[i - 1])
      BY <1>1, <1>3
    <2> HIDE DEF h
    <2> QED BY <2>1 DEF Drains
  <1> QED BY <1>2, <1>3

LEMMA DrainsHead ==
    ASSUME NEW S, NEW q, q \in Seq(S), q # <<>>, NEW c, NEW d, Drains(d, q, c)
    PROVE  Drains(Effect(Head(q), d), Tail(q), c)
  <1>1. PICK g : g[0] = d /\ g[Len(q)] = c /\ \A i \in 1 .. Len(q) : g[i] = Effect(q[i], g[i - 1])
    BY DEF Drains
  <1> DEFINE n == Len(q)
             r == Tail(q)
             h == [i \in 0 .. n - 1 |-> g[i + 1]]
  <1>2. n \in Nat /\ n >= 1 /\ Head(q) = q[1]
    OBVIOUS
  <1>3. r \in Seq(S) /\ Len(r) = n - 1 /\ \A i \in 1 .. n - 1 : r[i] = q[i + 1]
    BY <1>2
  <1>4. g[1] = Effect(Head(q), d)
    <2>1. 1 \in 1 .. n /\ 1 - 1 = 0
      BY <1>2
    <2> QED BY <1>1, <1>2, <2>1
  <1>5. h[0] = g[1] /\ h[n - 1] = c
    <2>1. 0 \in 0 .. n - 1 /\ n - 1 \in 0 .. n - 1 /\ (n - 1) + 1 = n /\ 0 + 1 = 1
      BY <1>2
    <2> QED BY <1>1, <2>1
  <1>6. ASSUME NEW i \in 1 .. n - 1 PROVE h[i] = Effect(r[i], h[i - 1])
    <2>1. i - 1 \in 0 .. n - 1 /\ (i - 1) + 1 = i /\ i \in 0 .. n - 1 /\ i + 1 \in 1 .. n /\ (i + 1) - 1 = i
      BY <1>2
    <2>2. h[i] = g[i + 1] /\ h[i - 1] = g[i]
      BY <2>1
    <2>3. g[i + 1] = Effect(q[i + 1], g[(i + 1) - 1])
      BY <1>1, <2>1
    <2> QED BY <1>3, <2>1, <2>2, <2>3
  <1> HIDE DEF h, r
  <1>7. Drains(g[1], r, c)
    BY <1>3, <1>5, <1>6 DEF Drains
  <1> QED BY <1>4, <1>7 DEF r

LEMMA DrainsAppend ==
    ASSUME NEW S, NEW q, q \in Seq(S), NEW w, NEW c, NEW d, Drains(d, q, c)
    PROVE  Drains(d, Append(q, w), Effect(w, c))
  <1>1. PICK g : g[0] = d /\ g[Len(q)] = c /\ \A i \in 1 .. Len(q) : g[i] = Effect(q[i], g[i - 1])
    BY DEF Drains
  <1> DEFINE n == Len(q)
             r == Append(q, w)
             h == [i \in 0 .. n + 1 |-> IF i <= n THEN g[i] ELSE Effect(w, c)]
  <1>2. n \in Nat
    OBVIOUS
  <1>3. q \in Seq(S \union {w})
    OBVIOUS
  <1>4. Len(r) = n + 1 /\ r[n + 1] = w /\ \A i \in 1 .. n : r[i] = q[i]
    BY <1>3
  <1>5. h[0] = d /\ h[n + 1] = Effect(w, c) /\ h[n] = c
    BY <1>1, <1>2
  <1>6. ASSUME NEW i \in 1 .. n + 1 PROVE h[i] = Effect(r[i], h[i - 1])
    <2>1. CASE i = n + 1
      <3>1. i - 1 = n
        BY <1>2, <2>1
      <3> QED BY <1>4, <1>5, <2>1, <3>1
    <2>2. CASE i # n + 1
      <3>1. i \in 1 .. n /\ i \in 0 .. n + 1 /\ i - 1 \in 0 .. n + 1 /\ i <= n /\ i - 1 <= n
        BY <1>2, <2>2
      <3>2. h[i] = g[i] /\ h[i - 1] = g[i - 1]
        BY <3>1
      <3>3. g[i] = Effect(q[i], g[i - 1])
        BY <1>1, <3>1
      <3> QED BY <1>4, <3>1, <3>2, <3>3
    <2> QED BY <2>1, <2>2
  <1> HIDE DEF h, r
  <1>7. Drains(d, r, Effect(w, c))
    BY <1>4, <1>5, <1>6 DEF Drains
  <1> QED BY <1>7 DEF r

\* Work that does not touch a buffer does not care what is in it.
Wiped(c, l) == [m \in Locations |-> IF m = l THEN Garbage ELSE c[m]]

LEMMA EffectWiped ==
    ASSUME NEW w, NEW c, NEW l, l \notin w.from \union w.to, w.from \subseteq Locations
    PROVE  Effect(w, Wiped(c, l)) = Wiped(Effect(w, c), l)
  <1> DEFINE e == Wiped(c, l)
             from == {e[m] : m \in w.from}
             old == {c[m] : m \in w.from}
  <1>1. from = old
    <2>1. \A m \in w.from : e[m] = c[m]
      BY DEF Wiped
    <2> QED BY <2>1
  <1>2. Effect(w, e) = [m \in Locations |-> IF m \in w.to THEN w.args \union UNION from ELSE e[m]]
    BY DEF Effect
  <1>3. Effect(w, c) = [m \in Locations |-> IF m \in w.to THEN w.args \union UNION old ELSE c[m]]
    BY DEF Effect
  <1>4. \A m \in Locations : e[m] = IF m = l THEN Garbage ELSE c[m]
    BY DEF Wiped
  <1> HIDE DEF e, from, old
  <1>5. Wiped(Effect(w, c), l) = [m \in Locations |-> IF m = l THEN Garbage ELSE Effect(w, c)[m]]
    BY DEF Wiped
  <1> DEFINE x == Effect(w, e)
             y == Wiped(Effect(w, c), l)
  <1>6. \A m \in Locations : x[m] = y[m]
    <2> TAKE m \in Locations
    <2>1. x[m] = IF m \in w.to THEN w.args \union UNION from ELSE e[m]
      BY <1>2
    <2>2. y[m] = IF m = l THEN Garbage ELSE IF m \in w.to THEN w.args \union UNION old ELSE c[m]
      BY <1>3, <1>5
    <2> QED BY <1>1, <1>4, <2>1, <2>2
  <1>7. x = [m \in Locations |-> x[m]] /\ y = [m \in Locations |-> y[m]]
    BY <1>2, <1>5
  <1> HIDE DEF x, y
  <1>8. x = y
    BY <1>6, <1>7
  <1> QED BY <1>8 DEF x, y, e

LEMMA DrainsWiped ==
    ASSUME NEW S, NEW q, q \in Seq(S), NEW c, NEW d, NEW l, Drains(d, q, c),
           \A i \in DOMAIN q : l \notin q[i].from \union q[i].to /\ q[i].from \subseteq Locations
    PROVE  Drains(Wiped(d, l), q, Wiped(c, l))
  <1>1. PICK g : g[0] = d /\ g[Len(q)] = c /\ \A i \in 1 .. Len(q) : g[i] = Effect(q[i], g[i - 1])
    BY DEF Drains
  <1> DEFINE n == Len(q)
             h == [i \in 0 .. n |-> Wiped(g[i], l)]
  <1>2. n \in Nat /\ DOMAIN q = 1 .. n
    OBVIOUS
  <1>3. h[0] = Wiped(d, l) /\ h[n] = Wiped(c, l)
    BY <1>1, <1>2
  <1>4. ASSUME NEW i \in 1 .. n PROVE h[i] = Effect(q[i], h[i - 1])
    <2>1. i \in 0 .. n /\ i - 1 \in 0 .. n /\ i \in DOMAIN q
      BY <1>2
    <2>2. h[i] = Wiped(g[i], l) /\ h[i - 1] = Wiped(g[i - 1], l)
      BY <2>1
    <2>3. g[i] = Effect(q[i], g[i - 1])
      BY <1>1
    <2>4. Effect(q[i], Wiped(g[i - 1], l)) = Wiped(Effect(q[i], g[i - 1]), l)
      BY <2>1, EffectWiped
    <2> QED BY <2>2, <2>3, <2>4
  <1> HIDE DEF h
  <1> QED BY <1>3, <1>4 DEF Drains

-----------------------------------------------------------------------------
(***************************************************************************)
(* The steps of a call keep the invariant                                  *)
(***************************************************************************)
LEMMA NowFields ==
    ASSUME NEW c, NEW b, NEW s, s = Now(c, b)
    PROVE  /\ s.alloc = alloc /\ s.content = c /\ s.streams = streams /\ s.impl = impl /\ s.live = live
           /\ s.frames = frames /\ s.busy = b /\ s.uploaded = uploaded
           /\ s.neighbors = call.session.neighbors \union {0}
  BY DEF Now, Machine

LEMMA NowNext ==
    ASSUME NEW c, NEW b, NEW t, t = Now(c, b)'
    PROVE  t = Machine(alloc', c, streams', impl', live', frames', b, uploaded', call'.session.neighbors \union {0})
  BY DEF Now

\* A host step that does to the machine what the next step of the script does.
LEMMA Advance ==
    ASSUME NEW s, NEW t, HostType, Sound(s), Control(s), pc = "call", script # <<>>,
           Moves(Head(script), s, After(Head(script), s)) => t = After(Head(script), s),
           script' = Tail(script), UNCHANGED <<pc, call, object, uploaded, faulted>>,
           faulted => Head(script).do \notin {"stream", "malloc", "free", "submit", "sync", "copy"}
    PROVE  HostType' /\ Sound(t) /\ Control(t)' /\ ResultCurrent' /\ Moves(Head(script), s, t)
  <1> DEFINE x == Head(script)
  <1>1. PICK e : Runs(script, s, e) /\ Final(e, call)
    BY DEF Control
  <1>2. Moves(x, s, After(x, s)) /\ Runs(Tail(script), After(x, s), e)
    BY <1>1, RunsHead
  <1>3. t = After(x, s) /\ Moves(x, s, t)
    BY <1>2
  <1>4. Sound(t)
    BY <1>3, StepSound
  <1>5. HostType'
    BY DEF HostType
  <1>6. ResultCurrent'
    BY DEF ResultCurrent
  <1>7. \E z : Runs(script', t, z) /\ Final(z, call')
    BY <1>1, <1>2, <1>3
  <1>8. ASSUME faulted PROVE KnnTrue(t) /\ Works(script')
    <2>1. KnnTrue(s) /\ Works(script)
      BY <1>8 DEF Control
    <2>2. x.do \in {"check", "set", "enter", "leave", "adopt"}
      BY <1>3, <1>8 DEF Moves, Ok
    <2>3. KnnTrue(t)
      <3>1. CASE x.do = "check"
        BY <1>3, <2>1, <3>1 DEF Moves, After
      <3>2. CASE x.do = "set"
        BY <1>3, <2>1, <3>2 DEF Moves, Ok, OkSet, After
      <3> QED BY <1>3, <2>1, <2>2, <3>1, <3>2, EnterSound, LeaveSound, AdoptSound
    <2>4. Works(Tail(script))
      <3>1. PICK S : script \in Seq(S)
        BY <1>1 DEF Runs
      <3> QED BY <2>1, <2>2, <3>1, WorksTail
    <2> QED BY <2>3, <2>4
  <1>9. Control(t)'
    BY <1>7, <1>8 DEF Control
  <1> QED BY <1>3, <1>4, <1>5, <1>6, <1>9

LEMMA StreamCreateKeeps ==
    ASSUME IInv, StreamCreate
    PROVE  IInv'
  <1>1. PICK c, b, s : s = Now(c, b) /\ Sound(s) /\ Device(c, b) /\ Control(s)
    BY DEF IInv
  <1>2. PICK t : t = Now(c, b)'
    OBVIOUS
  <1> DEFINE x == Head(script)
  <1>3. /\ pc = "call" /\ script # <<>> /\ x.do = "stream" /\ script' = Tail(script) /\ ~faulted
        /\ UNCHANGED <<pc, call, object, uploaded, faulted>>
    BY DEF StreamCreate, Doing
  <1>4. t = After(x, s)
    <2>1. t = Machine(alloc', c, streams', impl', live', frames', b, uploaded', call'.session.neighbors \union {0})
      BY <1>2, NowNext
    <2>2. After(x, s) = AfterStream(x, s)
      BY <1>3 DEF After
    <2>3. /\ alloc' = s.alloc /\ streams' = s.streams \union {x.on} /\ impl' = s.impl /\ live' = s.live
          /\ frames' = s.frames /\ uploaded' = s.uploaded /\ c = s.content /\ b = s.busy
      BY <1>1, <1>3, NowFields DEF StreamCreate, Step
    <2>4. call'.session.neighbors \union {0} = s.neighbors
      BY <1>1, <1>3, NowFields
    <2> QED BY <2>1, <2>2, <2>3, <2>4 DEF AfterStream
  <1>5. HostType' /\ Sound(t) /\ Control(t)' /\ ResultCurrent'
    BY <1>1, <1>3, <1>4, Advance DEF IInv
  <1>6. Device(c, b)'
    BY <1>1 DEF Device, StreamCreate
  <1> QED BY <1>2, <1>5, <1>6 DEF IInv

LEMMA MallocKeeps ==
    ASSUME IInv, CudaMalloc
    PROVE  IInv'
  <1>1. PICK c, b, s : s = Now(c, b) /\ Sound(s) /\ Device(c, b) /\ Control(s)
    BY DEF IInv
  <1>2. PICK x, d : x = Head(script) /\ d = Wiped(c, Head(script).at)
    OBVIOUS
  <1>13. PICK t : t = Now(d, b)'
    OBVIOUS
  <1>3. /\ pc = "call" /\ script # <<>> /\ x.do = "malloc" /\ script' = Tail(script) /\ ~faulted
        /\ UNCHANGED <<pc, call, object, uploaded, faulted>>
    BY <1>2 DEF CudaMalloc, Doing, Step
  <1>4. t = After(x, s)
    <2>1. d = [l \in Locations |-> IF l = x.at THEN Garbage ELSE s.content[l]]
      BY <1>1, <1>2, NowFields DEF Wiped
    <2>2. alloc' = [l \in DOMAIN s.alloc \union {x.at} |-> IF l = x.at THEN x.size ELSE s.alloc[l]]
      BY <1>1, <1>2, NowFields DEF CudaMalloc, Step
    <2>3. t = Machine(alloc', d, streams', impl', live', frames', b, uploaded', call'.session.neighbors \union {0})
      BY <1>13, NowNext
    <2>4. After(x, s) = AfterMalloc(x, s)
      BY <1>3 DEF After
    <2>5. /\ streams' = s.streams /\ impl' = s.impl /\ live' = s.live
          /\ frames' = s.frames /\ uploaded' = s.uploaded /\ b = s.busy
      BY <1>1, <1>3, NowFields DEF CudaMalloc
    <2>6. call'.session.neighbors \union {0} = s.neighbors
      BY <1>1, <1>3, NowFields
    <2> QED BY <2>1, <2>2, <2>3, <2>4, <2>5, <2>6 DEF AfterMalloc
  <1>5. HostType' /\ Sound(t) /\ Control(t)' /\ ResultCurrent' /\ Moves(x, s, t)
    BY <1>1, <1>2, <1>3, <1>4, Advance DEF IInv
  <1>6. x.at \in Searches \X Owned /\ x.at \notin DOMAIN alloc /\ x.at \in Locations /\ x.at[1] # "host"
    BY <1>1, <1>3, <1>5, NowFields DEF Moves, Ok, OkMalloc, Locations, Searches
  <1>7. /\ DOMAIN alloc' = DOMAIN alloc \union {x.at}
        /\ \A l \in DOMAIN alloc : alloc'[l] = alloc[l]
        /\ stream' = stream /\ live' = live
    BY <1>2, <1>6 DEF CudaMalloc, Step
  <1>8. content' = Wiped(content, x.at)
    BY <1>1, <1>2 DEF CudaMalloc, Step, Device, Wiped
  <1>9. ASSUME NEW o \in Searches, NEW i \in DOMAIN stream[o]
        PROVE  /\ Alive(stream[o][i], alloc', live')
               /\ x.at \notin stream[o][i].from \union stream[o][i].to
    <2>1. Alive(stream[o][i], alloc, live)
      BY <1>1 DEF Device
    <2>2. Alive(stream[o][i], alloc', live')
      BY <1>7, <2>1 DEF Alive
    <2>3. x.at \notin stream[o][i].from \union stream[o][i].to
      BY <1>6, <2>1 DEF Alive
    <2> QED BY <2>2, <2>3
  <1>10. ASSUME NEW o \in Searches, b \subseteq {o}, ~faulted
         PROVE  Drains(content', stream[o], d)
    <2>1. PICK S : stream[o] \in Seq(S)
      BY <1>1 DEF Device
    <2>2. Drains(content, stream[o], c)
      BY <1>1, <1>10 DEF Device
    <2>3. \A i \in DOMAIN stream[o] : stream[o][i].from \subseteq Locations
      BY <1>1 DEF Device
    <2> QED BY <1>2, <1>8, <1>9, <2>1, <2>2, <2>3, DrainsWiped
  <1>11. content' = [l \in Locations |-> content'[l]]
    BY <1>8 DEF Wiped
  <1>12. Device(d, b)'
    BY <1>1, <1>3, <1>7, <1>9, <1>10, <1>11 DEF Device
  <1> QED BY <1>13, <1>5, <1>12 DEF IInv

LEMMA NowKept ==
    ASSUME NEW c, NEW b, NEW s, NEW d, NEW e, NEW t, s = Now(c, b), t = Now(d, e)',
           UNCHANGED <<call, uploaded>>
    PROVE  t = Machine(alloc', d, streams', impl', live', frames', e, s.uploaded, s.neighbors)
  <1>1. t = Machine(alloc', d, streams', impl', live', frames', e, uploaded', call'.session.neighbors \union {0})
    BY NowNext
  <1>2. uploaded' = s.uploaded
    BY NowFields
  <1>3. call'.session.neighbors \union {0} = s.neighbors
    BY NowFields
  <1> QED BY <1>1, <1>2, <1>3

\* When no work is left the contents are those of the machine.
LEMMA DeviceIdle ==
    ASSUME NEW c, Device(c, {})
    PROVE  /\ \A o \in Searches : stream[o] = <<>>
           /\ ~faulted => content = c
  <1>1. \A o \in Searches : stream[o] = <<>>
    BY DEF Device
  <1>2. ASSUME ~faulted PROVE content = c
    <2>1. "self" \in Searches
      BY DEF Searches
    <2>2. Drains(content, <<>>, c)
      BY <1>1, <1>2, <2>1 DEF Device
    <2> QED BY <2>2, DrainsNone
  <1> QED BY <1>1, <1>2

LEMMA DeviceStaysIdle ==
    ASSUME NEW c, NEW d, NEW e, Device(c, {}), UNCHANGED <<stream, faulted>>,
           content' = [l \in Locations |-> content'[l]], ~faulted => content' = d
    PROVE  Device(d, e)'
  <1>1. \A o \in Searches : stream[o] = <<>>
    BY DeviceIdle
  <1>2. \A o \in Searches : DOMAIN stream'[o] = {}
    BY <1>1
  <1>3. stream' = [o \in Searches |-> stream'[o]] /\ \A o \in Searches : \E S : stream'[o] \in Seq(S)
    BY DEF Device
  <1>4. ~faulted => \A o \in Searches : Drains(content', stream'[o], d)
    BY <1>1, DrainsNone
  <1> QED BY <1>1, <1>2, <1>3, <1>4 DEF Device

LEMMA FreeKeeps ==
    ASSUME IInv, CudaFree
    PROVE  IInv'
  <1>1. PICK c, b, s : s = Now(c, b) /\ Sound(s) /\ Device(c, b) /\ Control(s)
    BY DEF IInv
  <1>2. PICK t : t = Now(c, b)'
    OBVIOUS
  <1> DEFINE x == Head(script)
  <1>3. /\ pc = "call" /\ script # <<>> /\ x.do = "free" /\ script' = Tail(script) /\ ~faulted
        /\ UNCHANGED <<pc, call, object, uploaded, faulted>>
    BY DEF CudaFree, Doing, Step
  <1>4. t = After(x, s)
    <2>1. t = Machine(alloc', c, streams', impl', live', frames', b, s.uploaded, s.neighbors)
      BY <1>1, <1>2, <1>3, NowKept
    <2>2. After(x, s) = AfterFree(x, s)
      BY <1>3 DEF After
    <2>3. alloc' = [l \in DOMAIN s.alloc \ {x.at} |-> s.alloc[l]]
      BY <1>1, NowFields DEF CudaFree, Step
    <2>4. /\ streams' = s.streams /\ impl' = s.impl /\ live' = s.live /\ frames' = s.frames
          /\ c = s.content /\ b = s.busy
      BY <1>1, NowFields DEF CudaFree
    <2> QED BY <2>1, <2>2, <2>3, <2>4 DEF AfterFree
  <1>5. HostType' /\ Sound(t) /\ Control(t)' /\ ResultCurrent' /\ Moves(x, s, t)
    BY <1>1, <1>3, <1>4, Advance DEF IInv
  <1>6. b = {}
    BY <1>1, <1>3, <1>5, NowFields DEF Moves, Ok, OkFree
  <1>7. Device(c, b)'
    <2>1. content' = content /\ stream' = stream /\ faulted' = faulted
      BY DEF CudaFree
    <2>2. content = [l \in Locations |-> content[l]]
      BY <1>1 DEF Device
    <2> QED BY <1>1, <1>6, <2>1, <2>2, DeviceIdle, DeviceStaysIdle
  <1> QED BY <1>2, <1>5, <1>7 DEF IInv

LEMMA SubmitKeeps ==
    ASSUME IInv, SubmitWork
    PROVE  IInv'
  <1>1. PICK c, b, s : s = Now(c, b) /\ Sound(s) /\ Device(c, b) /\ Control(s)
    BY DEF IInv
  <1>2. PICK x, d, e : x = Head(script) /\ d = Effect(x, c) /\ e = {x.on}
    OBVIOUS
  <1>3. PICK t : t = Now(d, e)'
    OBVIOUS
  <1>4. /\ pc = "call" /\ script # <<>> /\ x.do = "submit" /\ script' = Tail(script) /\ ~faulted
        /\ UNCHANGED <<pc, call, object, uploaded, faulted>>
    BY <1>2 DEF SubmitWork, Doing, Step
  <1>5. t = After(x, s)
    <2>1. t = Machine(alloc', d, streams', impl', live', frames', e, s.uploaded, s.neighbors)
      BY <1>1, <1>3, <1>4, NowKept
    <2>2. After(x, s) = AfterSubmit(x, s)
      BY <1>4 DEF After
    <2>3. /\ alloc' = s.alloc /\ streams' = s.streams /\ impl' = s.impl /\ live' = s.live /\ frames' = s.frames
          /\ c = s.content
      BY <1>1, NowFields DEF SubmitWork
    <2> QED BY <1>2, <2>1, <2>2, <2>3 DEF AfterSubmit
  <1>6. HostType' /\ Sound(t) /\ Control(t)' /\ ResultCurrent' /\ Moves(x, s, t)
    BY <1>1, <1>2, <1>4, <1>5, Advance DEF IInv
  <1>7. OkSubmit(x, s)
    BY <1>4, <1>6 DEF Moves, Ok
  <1>8. /\ x.on \in Searches /\ b \subseteq {x.on} /\ x.from \union x.to \subseteq Locations
        /\ Alive(x, alloc, live)
    <2>1. s.busy = b /\ s.streams \subseteq Searches /\ s.alloc = alloc /\ s.live = live
      BY <1>1, NowFields DEF Sound, Shape
    <2>2. s.busy = {} \/ s.busy = {Last(s.frames).on}
      BY <1>1 DEF Sound, Busy
    <2> QED BY <1>7, <2>1, <2>2 DEF OkSubmit
  <1>9. stream' = [stream EXCEPT ![x.on] = Append(stream[x.on], x)] /\ alloc' = alloc /\ live' = live /\ content' = content
    BY <1>2 DEF SubmitWork, Step
  <1>10. /\ stream' = [o \in Searches |-> IF o = x.on THEN Append(stream[x.on], x) ELSE stream[o]]
         /\ \A o \in Searches : o # x.on => stream'[o] = stream[o] /\ stream[o] = <<>>
         /\ stream'[x.on] = Append(stream[x.on], x)
    BY <1>1, <1>8, <1>9 DEF Device
  <1>11. \A o \in Searches : \E S : stream'[o] \in Seq(S)
    <2> TAKE o \in Searches
    <2>1. PICK S : stream[o] \in Seq(S)
      BY <1>1 DEF Device
    <2>2. Append(stream[o], x) \in Seq(S \union {x})
      BY <2>1
    <2> QED BY <1>10, <2>1, <2>2
  <1>12. ASSUME NEW o \in Searches, NEW i \in DOMAIN stream'[o]
         PROVE  Alive(stream'[o][i], alloc', live') /\ stream'[o][i].from \union stream'[o][i].to \subseteq Locations
    <2>1. CASE o # x.on
      BY <1>1, <1>9, <1>10, <1>12, <2>1 DEF Device
    <2>2. CASE o = x.on
      <3>1. PICK S : stream[o] \in Seq(S)
        BY <1>1 DEF Device
      <3>2. stream[o] \in Seq(S \union {x})
        BY <3>1
      <3>3. i \in DOMAIN Append(stream[o], x)
        BY <1>10, <1>12, <2>2
      <3>4. (i \in DOMAIN stream[o] /\ stream'[o][i] = stream[o][i]) \/ stream'[o][i] = x
        BY <1>10, <2>2, <3>2, <3>3
      <3> QED BY <1>1, <1>8, <1>9, <3>4 DEF Device
    <2> QED BY <2>1, <2>2
  <1>13. \A o \in Searches : stream'[o] # <<>> => o \in e
    BY <1>2, <1>10
  <1>14. ASSUME NEW o \in Searches, e \subseteq {o} PROVE Drains(content', stream'[o], d)
    <2>1. o = x.on
      BY <1>2, <1>14
    <2>2. Drains(content, stream[o], c)
      BY <1>1, <1>4, <1>8, <2>1 DEF Device
    <2>3. PICK S : stream[o] \in Seq(S)
      BY <1>1 DEF Device
    <2>4. Drains(content, Append(stream[o], x), Effect(x, c))
      BY <2>2, <2>3, DrainsAppend
    <2> QED BY <1>2, <1>9, <1>10, <2>1, <2>4
  <1>15. stream' = [o \in Searches |-> stream'[o]]
    BY <1>10
  <1>16. content' = [l \in Locations |-> content'[l]] /\ ~faulted'
    BY <1>1, <1>4, <1>9 DEF Device
  <1>17. Device(d, e)'
    BY <1>11, <1>12, <1>13, <1>14, <1>15, <1>16 DEF Device
  <1> QED BY <1>3, <1>6, <1>17 DEF IInv

LEMMA SynchronizeKeeps ==
    ASSUME IInv, Synchronize
    PROVE  IInv'
  <1>1. PICK c, b, s : s = Now(c, b) /\ Sound(s) /\ Device(c, b) /\ Control(s)
    BY DEF IInv
  <1>2. PICK x, e : x = Head(script) /\ e = {}
    OBVIOUS
  <1>3. PICK t : t = Now(c, e)'
    OBVIOUS
  <1>4. /\ pc = "call" /\ script # <<>> /\ x.do = "sync" /\ script' = Tail(script) /\ ~faulted
        /\ UNCHANGED <<pc, call, object, uploaded, faulted>>
    BY <1>2 DEF Synchronize, Doing, Step, device
  <1>5. t = After(x, s)
    <2>1. t = Machine(alloc', c, streams', impl', live', frames', e, s.uploaded, s.neighbors)
      BY <1>1, <1>3, <1>4, NowKept
    <2>2. After(x, s) = AfterSync(x, s)
      BY <1>4 DEF After
    <2>3. /\ alloc' = s.alloc /\ streams' = s.streams /\ impl' = s.impl /\ live' = s.live /\ frames' = s.frames
          /\ c = s.content
      BY <1>1, NowFields DEF Synchronize, device
    <2> QED BY <1>2, <2>1, <2>2, <2>3 DEF AfterSync
  <1>6. HostType' /\ Sound(t) /\ Control(t)' /\ ResultCurrent' /\ Moves(x, s, t)
    BY <1>1, <1>2, <1>4, <1>5, Advance DEF IInv
  <1>7. OkSync(x, s)
    BY <1>4, <1>6 DEF Moves, Ok
  <1>8. b \subseteq {x.on}
    BY <1>1, <1>7, NowFields DEF OkSync, Sound, Busy
  <1>9. stream[x.on] = <<>> /\ UNCHANGED <<stream, alloc, content, live, faulted>>
    BY <1>2 DEF Synchronize, Step, device
  <1>10. \A o \in Searches : stream[o] = <<>>
    BY <1>1, <1>8, <1>9 DEF Device
  <1>11. Device(c, {})
    <2>1. x.on \in Searches
      <3>1. s.frames \in Seq(FrameType) /\ s.frames # <<>>
        BY <1>1, <1>7 DEF Sound, Shape, OkSync
      <3> QED BY <1>7, <3>1, Popped DEF OkSync, FrameType
    <2>2. Drains(content, <<>>, c)
      BY <1>1, <1>4, <1>8, <1>9, <2>1 DEF Device
    <2> QED BY <1>1, <1>4, <1>10, <2>2 DEF Device
  <1>12. Device(c, e)'
    BY <1>2, <1>9, <1>11 DEF Device
  <1> QED BY <1>3, <1>6, <1>12 DEF IInv

LEMMA PassedKeeps ==
    ASSUME IInv, Passed
    PROVE  IInv'
  <1>1. PICK c, b, s : s = Now(c, b) /\ Sound(s) /\ Device(c, b) /\ Control(s)
    BY DEF IInv
  <1> DEFINE x == Head(script)
  <1>2. /\ pc = "call" /\ script # <<>> /\ x.do = "check" /\ script' = Tail(script)
        /\ UNCHANGED <<pc, call, object, uploaded, faulted, alloc, content, stream, streams, impl, frames, live>>
    BY DEF Passed, Doing, Step, device
  <1>3. s = Now(c, b)'
    BY <1>1, <1>2 DEF Now
  <1>4. s = After(x, s)
    BY <1>2 DEF After
  <1>5. HostType' /\ Sound(s) /\ Control(s)' /\ ResultCurrent'
    BY <1>1, <1>2, <1>4, Advance DEF IInv
  <1>6. Device(c, b)'
    BY <1>1, <1>2 DEF Device
  <1> QED BY <1>3, <1>5, <1>6 DEF IInv

LEMMA SetMemberKeeps ==
    ASSUME IInv, SetMember
    PROVE  IInv'
  <1>1. PICK c, b, s : s = Now(c, b) /\ Sound(s) /\ Device(c, b) /\ Control(s)
    BY DEF IInv
  <1>2. PICK t : t = Now(c, b)'
    OBVIOUS
  <1> DEFINE x == Head(script)
  <1>3. /\ pc = "call" /\ script # <<>> /\ x.do = "set" /\ script' = Tail(script)
        /\ UNCHANGED <<pc, call, object, uploaded, faulted, alloc, content, stream, streams, frames, live>>
    BY DEF SetMember, Doing, Step, device
  <1>4. t = After(x, s)
    <2>1. t = Machine(alloc', c, streams', impl', live', frames', b, s.uploaded, s.neighbors)
      BY <1>1, <1>2, <1>3, NowKept
    <2>2. After(x, s) = AfterSet(x, s)
      BY <1>3 DEF After
    <2>3. impl' = [s.impl EXCEPT ![x.on] = Assigned(s.impl[x.on], x.field, x.value)]
      <3>1. impl' = [impl EXCEPT ![x.on] = Assigned(impl[x.on], x.field, x.value)]
        BY DEF SetMember, Step
      <3>2. s.impl = impl
        BY <1>1, NowFields
      <3> QED BY <3>1, <3>2
    <2>4. /\ streams' = s.streams /\ alloc' = s.alloc /\ live' = s.live /\ frames' = s.frames
          /\ c = s.content /\ b = s.busy
      BY <1>1, <1>3, NowFields
    <2> QED BY <2>1, <2>2, <2>3, <2>4 DEF AfterSet
  <1>5. HostType' /\ Sound(t) /\ Control(t)' /\ ResultCurrent'
    BY <1>1, <1>3, <1>4, Advance DEF IInv
  <1>6. Device(c, b)'
    BY <1>1, <1>3 DEF Device
  <1> QED BY <1>2, <1>5, <1>6 DEF IInv

LEMMA EnterKeeps ==
    ASSUME IInv, Enter
    PROVE  IInv'
  <1>1. PICK c, b, s : s = Now(c, b) /\ Sound(s) /\ Device(c, b) /\ Control(s)
    BY DEF IInv
  <1>2. PICK x, d : /\ x = Head(script)
                    /\ d = [l \in Locations |-> IF l[1] = "host" /\ l[2] \in DOMAIN x.buffers
                                                THEN x.buffers[l[2]] ELSE c[l]]
    OBVIOUS
  <1>3. PICK t : t = Now(d, b)'
    OBVIOUS
  <1>4. /\ pc = "call" /\ script # <<>> /\ x.do = "enter" /\ script' = Tail(script)
        /\ UNCHANGED <<pc, call, object, uploaded, faulted, alloc, stream, streams, impl>>
    BY <1>2 DEF Enter, Doing, Step
  <1>5. t = After(x, s)
    <2>1. t = Machine(alloc', d, streams', impl', live', frames', b, s.uploaded, s.neighbors)
      BY <1>1, <1>3, <1>4, NowKept
    <2>2. After(x, s) = AfterEnter(x, s)
      BY <1>4 DEF After
    <2>3. /\ live' = s.live \union DOMAIN x.buffers
          /\ frames' = Append(s.frames, [on |-> x.on, owns |-> x.owns, buffers |-> DOMAIN x.buffers])
      BY <1>1, <1>2, NowFields DEF Enter, Step
    <2>4. /\ streams' = s.streams /\ alloc' = s.alloc /\ impl' = s.impl /\ c = s.content /\ b = s.busy
      BY <1>1, <1>4, NowFields
    <2> QED BY <1>2, <2>1, <2>2, <2>3, <2>4 DEF AfterEnter
  <1>6. HostType' /\ Sound(t) /\ Control(t)' /\ ResultCurrent' /\ Moves(x, s, t)
    BY <1>1, <1>2, <1>4, <1>5, Advance DEF IInv
  <1>7. b = {}
    BY <1>1, <1>4, <1>6, NowFields DEF Moves, Ok, OkEnter
  <1>8. Device(d, b)'
    <2>1. content' = [l \in Locations |-> IF l[1] = "host" /\ l[2] \in DOMAIN x.buffers
                                          THEN x.buffers[l[2]] ELSE content[l]]
      BY <1>2 DEF Enter, Step
    <2>2. content' = [l \in Locations |-> content'[l]]
      BY <2>1
    <2>3. ~faulted => content' = d
      BY <1>1, <1>2, <1>7, <2>1, DeviceIdle
    <2> QED BY <1>1, <1>4, <1>7, <2>2, <2>3, DeviceStaysIdle
  <1> QED BY <1>3, <1>6, <1>8 DEF IInv

LEMMA LeaveScopeKeeps ==
    ASSUME IInv, LeaveScope
    PROVE  IInv'
  <1>1. PICK c, b, s : s = Now(c, b) /\ Sound(s) /\ Device(c, b) /\ Control(s)
    BY DEF IInv
  <1>2. PICK t : t = Now(c, b)'
    OBVIOUS
  <1> DEFINE x == Head(script)
  <1>3. /\ pc = "call" /\ script # <<>> /\ x.do = "leave" /\ script' = Tail(script)
        /\ UNCHANGED <<pc, call, object, uploaded, faulted, alloc, content, stream, streams, impl>>
    BY DEF LeaveScope, Doing, Step, device
  <1>4. t = After(x, s)
    <2>1. t = Machine(alloc', c, streams', impl', live', frames', b, s.uploaded, s.neighbors)
      BY <1>1, <1>2, <1>3, NowKept
    <2>2. After(x, s) = AfterLeave(x, s)
      BY <1>3 DEF After
    <2>3. live' = s.live \ Last(s.frames).buffers /\ frames' = Front(s.frames)
      BY <1>1, NowFields DEF LeaveScope
    <2>4. /\ streams' = s.streams /\ alloc' = s.alloc /\ impl' = s.impl /\ c = s.content /\ b = s.busy
      BY <1>1, <1>3, NowFields
    <2> QED BY <2>1, <2>2, <2>3, <2>4 DEF AfterLeave
  <1>5. HostType' /\ Sound(t) /\ Control(t)' /\ ResultCurrent' /\ Moves(x, s, t)
    BY <1>1, <1>3, <1>4, Advance DEF IInv
  <1>6. b = {}
    BY <1>1, <1>3, <1>5, NowFields DEF Moves, Ok, OkLeave
  <1>7. Device(c, b)'
    <2>1. content' = content /\ content = [l \in Locations |-> content[l]]
      BY <1>1, <1>3 DEF Device
    <2> QED BY <1>1, <1>3, <1>6, <2>1, DeviceIdle, DeviceStaysIdle
  <1> QED BY <1>2, <1>5, <1>7 DEF IInv

LEMMA AdoptKeeps ==
    ASSUME IInv, AdoptScanSearch
    PROVE  IInv'
  <1>1. PICK c, b, s : s = Now(c, b) /\ Sound(s) /\ Device(c, b) /\ Control(s)
    BY DEF IInv
  <1>2. PICK t : t = Now(c, b)'
    OBVIOUS
  <1> DEFINE x == Head(script)
             old == s.impl["self"].scan_search
  <1>3. /\ pc = "call" /\ script # <<>> /\ x.do = "adopt" /\ script' = Tail(script)
        /\ UNCHANGED <<pc, call, object, uploaded, faulted, content, stream, live>>
    BY DEF AdoptScanSearch, Doing, Step
  <1>4. t = After(x, s)
    <2>1. t = Machine(alloc', c, streams', impl', live', frames', b, s.uploaded, s.neighbors)
      BY <1>1, <1>2, <1>3, NowKept
    <2>2. After(x, s) = AfterAdopt(x, s)
      BY <1>3 DEF After
    <2>3. /\ alloc' = [l \in {m \in DOMAIN s.alloc : m[1] # old} |-> s.alloc[l]]
          /\ streams' = s.streams \ {old}
          /\ impl' = [o \in Searches |-> IF o = old THEN Blank
                                         ELSE IF o = "self" THEN Assigned(s.impl[o], "scan_search", x.on)
                                         ELSE s.impl[o]]
          /\ frames' = Front(s.frames)
      BY <1>1, NowFields DEF AdoptScanSearch, Step, Members
    <2>4. live' = s.live /\ c = s.content /\ b = s.busy
      BY <1>1, <1>3, NowFields
    <2> QED BY <2>1, <2>2, <2>3, <2>4 DEF AfterAdopt
  <1>5. HostType' /\ Sound(t) /\ Control(t)' /\ ResultCurrent' /\ Moves(x, s, t)
    BY <1>1, <1>3, <1>4, Advance DEF IInv
  <1>6. b = {}
    BY <1>1, <1>3, <1>5, NowFields DEF Moves, Ok, OkAdopt
  <1>7. Device(c, b)'
    <2>1. content' = content /\ content = [l \in Locations |-> content[l]]
      BY <1>1, <1>3 DEF Device
    <2> QED BY <1>1, <1>3, <1>6, <2>1, DeviceIdle, DeviceStaysIdle
  <1> QED BY <1>2, <1>5, <1>7 DEF IInv

LEMMA CopyBackKeeps ==
    ASSUME IInv, CopyBack
    PROVE  IInv'
  <1>1. PICK c, b, s : s = Now(c, b) /\ Sound(s) /\ Device(c, b) /\ Control(s)
    BY DEF IInv
  <1>2. PICK x, d : x = Head(script) /\ d = [l \in Locations |-> IF l = x.to THEN c[x.from] ELSE c[l]]
    OBVIOUS
  <1>3. PICK t : t = Now(d, b)'
    OBVIOUS
  <1>4. /\ pc = "call" /\ script # <<>> /\ x.do = "copy" /\ script' = Tail(script) /\ ~faulted
        /\ UNCHANGED <<pc, call, object, uploaded, faulted, alloc, stream, streams, impl, frames, live>>
    BY <1>2 DEF CopyBack, Doing, Step
  <1>5. t = After(x, s)
    <2>1. t = Machine(alloc', d, streams', impl', live', frames', b, s.uploaded, s.neighbors)
      BY <1>1, <1>3, <1>4, NowKept
    <2>2. After(x, s) = AfterCopy(x, s)
      BY <1>4 DEF After
    <2>3. /\ streams' = s.streams /\ alloc' = s.alloc /\ impl' = s.impl /\ c = s.content /\ b = s.busy
          /\ live' = s.live /\ frames' = s.frames
      BY <1>1, <1>4, NowFields
    <2> QED BY <1>2, <2>1, <2>2, <2>3 DEF AfterCopy
  <1>6. HostType' /\ Sound(t) /\ Control(t)' /\ ResultCurrent' /\ Moves(x, s, t)
    BY <1>1, <1>2, <1>4, <1>5, Advance DEF IInv
  <1>7. b = {}
    BY <1>1, <1>4, <1>6, NowFields DEF Moves, Ok, OkCopy
  <1>8. Device(d, b)'
    <2>1. content = c /\ content = [l \in Locations |-> content[l]]
      BY <1>1, <1>4, <1>7, DeviceIdle DEF Device
    <2>2. content' = [content EXCEPT ![x.to] = content[x.from]]
      BY <1>2 DEF CopyBack, Step
    <2>3. content' = [l \in Locations |-> IF l = x.to THEN content[x.from] ELSE content[l]]
      BY <2>1, <2>2
    <2>4. content' = d
      BY <1>2, <2>1, <2>3
    <2>5. content' = [l \in Locations |-> content'[l]]
      BY <2>3
    <2> QED BY <1>1, <1>4, <1>7, <2>4, <2>5, DeviceStaysIdle
  <1> QED BY <1>3, <1>6, <1>8 DEF IInv

LEMMA ThrowKeeps ==
    ASSUME IInv, Throw
    PROVE  IInv'
  <1>1. PICK c, b, s : s = Now(c, b) /\ Sound(s) /\ Device(c, b) /\ Control(s)
    BY DEF IInv
  <1> DEFINE x == Head(script)
  <1>2. /\ pc = "call" /\ script # <<>> /\ pc' = "unwind" /\ script' = <<>>
        /\ call' = [call EXCEPT !.ok = FALSE]
        /\ UNCHANGED <<object, impl, alloc, content, stream, streams, faulted, frames, live, uploaded>>
        /\ \/ x.do \in {"stream", "malloc", "submit", "check", "copy"}
           \/ x.do \in {"sync", "free"} /\ faulted
    BY DEF Throw, device, Step
  <1>3. /\ call' = [method |-> call.method, number |-> call.number, ok |-> FALSE, k |-> call.k,
                    session |-> call.session]
    <2>1. call = [method |-> call.method, number |-> call.number, ok |-> call.ok, k |-> call.k,
                  session |-> call.session]
      BY DEF IInv, HostType
    <2> QED BY <1>2, <2>1
  <1>4. /\ call'.method = call.method /\ call'.number = call.number /\ call'.ok = FALSE /\ call'.k = call.k
        /\ call'.session = call.session
    BY <1>3
  <1>5. HostType'
    <2>1. call' = [method |-> call'.method, number |-> call'.number, ok |-> call'.ok, k |-> call'.k,
                   session |-> call'.session]
      BY <1>3, <1>4
    <2> QED BY <1>2, <1>4, <2>1 DEF IInv, HostType
  <1>6. s = Now(c, b)'
    BY <1>1, <1>2, <1>4 DEF Now
  <1>7. Device(c, b)'
    BY <1>1, <1>2 DEF Device
  <1>8. ResultCurrent'
    BY <1>2 DEF ResultCurrent
  <1>9. Ok(x, s)
    <2>1. PICK e : Runs(script, s, e)
      BY <1>1, <1>2 DEF Control
    <2> QED BY <1>2, <2>1, RunsHead DEF Moves
  <1>10. KnnTrue(s) /\ Linked(s)
    <2>1. CASE x.do \in {"stream", "malloc", "submit", "check", "copy"}
      BY <1>9, <2>1 DEF Ok, OkStream, OkMalloc, OkSubmit, OkCopy, Steady
    <2>2. CASE x.do \in {"sync", "free"} /\ faulted
      <3>1. KnnTrue(s)
        BY <1>1, <1>2, <2>2 DEF Control
      <3> QED BY <1>9, <2>2, <3>1 DEF Ok, OkSync, OkFree
    <2> QED BY <1>2, <2>1, <2>2
  <1>11. object
    BY <1>1, <1>2 DEF Control
  <1>12. Control(s)'
    BY <1>2, <1>4, <1>10, <1>11 DEF Control
  <1> QED BY <1>1, <1>5, <1>6, <1>7, <1>8, <1>12 DEF IInv

\* A scope that owns an object destroys it on the way out.
LEMMA DestroyedSound ==
    ASSUME NEW s, NEW t, NEW o, Sound(s), s.frames # <<>>, Last(s.frames).owns, o = Last(s.frames).on,
           t.alloc = [l \in {m \in DOMAIN s.alloc : m[1] \notin {o} \/ m[2] \notin Owned} |-> s.alloc[l]],
           t.streams = s.streams \ {o},
           t.impl = [p \in Searches |-> IF p \in {o} THEN Blank ELSE s.impl[p]],
           t.frames = Front(s.frames), t.live = s.live \ Last(s.frames).buffers,
           t.content = s.content, t.busy = {}, t.uploaded = s.uploaded, t.neighbors = s.neighbors
    PROVE  /\ Sound(t)
           /\ KnnTrue(s) => KnnTrue(t)
           /\ o # "self" /\ Linked(s) => Linked(t)
           /\ o = "self" => Bare(t)
  <1>1. s.frames \in Seq(FrameType)
    BY DEF Sound, Shape
  <1>2. o \in Searches /\ "self" \in Searches
    BY <1>1, Popped DEF FrameType, Searches
  <1>3. /\ t.frames \in Seq(FrameType)
        /\ \A i \in DOMAIN t.frames : i \in DOMAIN s.frames /\ t.frames[i] = s.frames[i]
        /\ \A p : Owns(t.frames, p) => Owns(s.frames, p)
        /\ \A p : Owns(s.frames, p) /\ p # o => Owns(t.frames, p)
        /\ Owns(s.frames, o)
    BY <1>1, Popped
  <1>4. DOMAIN s.alloc \subseteq Searches \X Owned
    BY DEF Sound, Shape
  <1>5. /\ DOMAIN t.alloc = {m \in DOMAIN s.alloc : m[1] # o}
        /\ \A l \in DOMAIN t.alloc : t.alloc[l] = s.alloc[l]
    <2>1. \A m \in DOMAIN s.alloc : m[2] \in Owned
      BY <1>4
    <2>2. {m \in DOMAIN s.alloc : m[1] \notin {o} \/ m[2] \notin Owned} = {m \in DOMAIN s.alloc : m[1] # o}
      BY <2>1
    <2> QED BY <2>2
  <1>6. \A p, b : <<p, b>>[1] = p
    OBVIOUS
  <1>7. \A p \in Searches : t.impl[p] = IF p = o THEN Blank ELSE s.impl[p]
    OBVIOUS
  <1>8. Blank.knn_capacity = 0 /\ ~Blank.resident /\ Blank.covariance_neighbors = 0
    BY DEF Blank
  <1>9. KnnTrue(s) => KnnTrue(t)
    <2> SUFFICES ASSUME KnnTrue(s), NEW p \in Searches, t.impl[p].knn_capacity # 0,
                        NEW b \in {"knn_indices", "knn_distances"}
                 PROVE  <<p, b>> \in DOMAIN t.alloc /\ t.alloc[<<p, b>>] >= t.impl[p].knn_capacity
      BY DEF KnnTrue
    <2>1. p # o /\ t.impl[p] = s.impl[p]
      BY <1>7, <1>8
    <2>2. <<p, b>> \in DOMAIN s.alloc /\ s.alloc[<<p, b>>] >= s.impl[p].knn_capacity
      BY <2>1 DEF KnnTrue
    <2> QED BY <1>5, <1>6, <2>1, <2>2
  <1>10. Shape(t)
    <2>1. Blank \in MemberType(s.neighbors)
      BY DEF Blank, MemberType, Sound, Shape
    <2>2. t.impl \in [Searches -> MemberType(t.neighbors)]
      BY <2>1 DEF Sound, Shape
    <2> QED BY <1>3, <1>4, <1>5, <2>2 DEF Sound, Shape
  <1>11. Busy(t)
    BY DEF Busy
  <1>12. Equipped(t)
    <2> SUFFICES ASSUME NEW p \in Searches PROVE
          /\ t.impl[p].resident => \A b \in Workspace : <<p, b>> \in DOMAIN t.alloc
          /\ (\E b \in AfterScan : <<p, b>> \in DOMAIN t.alloc) => <<p, "scan">> \in DOMAIN t.alloc
          /\ t.impl[p].covariance_neighbors # 0 => <<p, "covariances">> \in DOMAIN t.alloc
      BY DEF Equipped
    <2>1. CASE p = o
      <3>1. \A b : <<p, b>> \notin DOMAIN t.alloc
        BY <1>5, <1>6, <2>1
      <3>2. ~t.impl[p].resident /\ t.impl[p].covariance_neighbors = 0
        BY <1>7, <1>8, <2>1
      <3> QED BY <3>1, <3>2
    <2>2. CASE p # o
      <3>1. \A b : <<p, b>> \in DOMAIN t.alloc <=> <<p, b>> \in DOMAIN s.alloc
        BY <1>5, <1>6, <2>2
      <3>2. t.impl[p] = s.impl[p]
        BY <1>7, <2>2
      <3> QED BY <3>1, <3>2 DEF Sound, Equipped
    <2> QED BY <2>1, <2>2
  <1>13. \A p \in Searches : Uses(t, p) => p # o /\ Uses(s, p)
    BY <1>5 DEF Uses
  <1>14. CASE o = "self"
    <2>1. DOMAIN s.frames = {1} /\ t.frames = <<>> /\ Len(s.frames) = 1 /\ Last(s.frames) = s.frames[1]
      <3>1. Len(s.frames) \in Nat /\ Len(s.frames) >= 1 /\ DOMAIN s.frames = 1 .. Len(s.frames)
            /\ Last(s.frames) = s.frames[Len(s.frames)]
        BY <1>1, Popped
      <3>2. Len(s.frames) = 1
        <4>1. Len(s.frames) \in DOMAIN s.frames
          BY <3>1
        <4>2. s.frames[Len(s.frames)].owns /\ s.frames[Len(s.frames)].on = "self"
          BY <1>14, <3>1
        <4> QED BY <4>1, <4>2 DEF Sound, Ownership
      <3> QED BY <1>1, <1>3, <3>1, <3>2, Popped
    <2>2. ASSUME NEW p \in Searches, p # o PROVE ~Uses(s, p) /\ s.impl[p] = Blank
      <3>1. ~Owns(s.frames, p)
        BY <2>1, <2>2 DEF Owns
      <3>2. ~Held(s, p)
        BY <1>3, <1>14, <3>1 DEF Held
      <3> QED BY <3>2 DEF Sound, Ownership
    <2>3. \A p \in Searches : ~Uses(t, p)
      BY <1>13, <2>2
    <2>4. t.impl = [p \in Searches |-> Blank]
      BY <2>2
    <2>5. t.streams = {}
      <3>1. t.streams \subseteq Searches
        BY <1>10 DEF Shape
      <3> QED BY <2>3, <3>1 DEF Uses
    <2>6. DOMAIN t.alloc = {}
      <3>1. DOMAIN t.alloc \subseteq Searches \X Owned
        BY <1>10 DEF Shape
      <3>2. \A l \in DOMAIN t.alloc : l[1] \in Searches
        BY <3>1
      <3> QED BY <2>3, <3>2 DEF Uses
    <2>7. Bare(t)
      BY <2>1, <2>4, <2>5, <2>6 DEF Bare
    <2>8. Ownership(t)
      <3>1. \A p : ~Owns(t.frames, p)
        BY <2>1 DEF Owns
      <3> QED BY <2>1, <2>3, <2>4, <3>1 DEF Ownership
    <2>9. Facts(t)
      BY <2>5 DEF Facts, Present
    <2> QED BY <1>9, <1>10, <1>11, <1>12, <1>14, <2>7, <2>8, <2>9 DEF Sound
  <1>15. CASE o # "self"
    <2>1. t.impl["self"] = s.impl["self"]
      BY <1>2, <1>7, <1>15
    <2>2. Owns(t.frames, "self") <=> Owns(s.frames, "self")
      BY <1>3, <1>15
    <2>3. s.impl["self"].scan_search # o
      BY <1>2, <1>3 DEF Sound, Ownership
    <2>4. Present(t) <=> Present(s)
      BY <1>15, <2>2 DEF Present
    <2>5. Linked(s) => Linked(t)
      BY <2>1, <2>2, <2>4 DEF Linked
    <2>6. Ownership(t)
      <3>1. ASSUME NEW p \in Searches, Uses(t, p) PROVE Held(t, p)
        <4>1. p # o /\ Held(s, p)
          BY <1>13, <3>1 DEF Sound, Ownership
        <4> QED BY <1>3, <2>1, <2>2, <4>1 DEF Held
      <3>2. ASSUME NEW p \in Searches, ~Held(t, p) PROVE t.impl[p] = Blank
        <4>1. CASE p = o
          BY <1>7, <4>1
        <4>2. CASE p # o
          <5>1. ~Held(s, p)
            BY <1>3, <2>1, <2>2, <3>2, <4>2 DEF Held
          <5> QED BY <1>7, <4>2, <5>1 DEF Sound, Ownership
        <4> QED BY <4>1, <4>2
      <3>3. \A p \in Searches : Owns(t.frames, p) => t.impl["self"].scan_search # p
        BY <1>3, <2>1 DEF Sound, Ownership
      <3>4. \A i \in DOMAIN t.frames : t.frames[i].owns /\ t.frames[i].on = "self" => i = 1
        BY <1>3 DEF Sound, Ownership
      <3> QED BY <3>1, <3>2, <3>3, <3>4 DEF Ownership
    <2>7. Facts(t)
      <3> SUFFICES ASSUME Present(t) PROVE
            /\ <<"self", "queries">> \in DOMAIN t.alloc /\ <<"self", "indices">> \in DOMAIN t.alloc
            /\ \A l \in Searches \X Owned : Settled(t, l) => l \in DOMAIN t.alloc /\ t.content[l] = Expected(t, l)
            /\ t.impl["self"].scan_count # 0 => t.impl["self"].resident
            /\ t.impl["self"].covariance_neighbors = 0 => t.impl["self"].scan_search = "none"
            /\ t.impl["self"].covariance_neighbors # 0 /\ t.impl["self"].scan_count # 0 =>
                 t.impl["self"].scan_search # "none"
        BY DEF Facts
      <3>1. Facts(s) /\ Present(s)
        BY <2>4 DEF Sound
      <3>2. ASSUME NEW l \in Searches \X Owned, Settled(t, l)
            PROVE  l \in DOMAIN t.alloc /\ t.content[l] = Expected(t, l)
        <4>1. Settled(s, l)
          BY <1>5, <2>1, <3>2 DEF Settled
        <4>2. l \in DOMAIN s.alloc /\ s.content[l] = Expected(s, l)
          BY <3>1, <4>1 DEF Facts
        <4>3. l[1] # o
          BY <1>6, <1>15, <2>1, <2>3, <3>2 DEF Settled
        <4>4. Expected(t, l) = Expected(s, l)
          BY <2>1 DEF Expected
        <4> QED BY <1>5, <4>2, <4>3, <4>4
      <3>3. <<"self", "queries">> \in DOMAIN t.alloc /\ <<"self", "indices">> \in DOMAIN t.alloc
        BY <1>5, <1>6, <1>15, <3>1 DEF Facts
      <3> QED BY <2>1, <3>1, <3>2, <3>3 DEF Facts
    <2> QED BY <1>9, <1>10, <1>11, <1>12, <1>15, <2>5, <2>6, <2>7 DEF Sound
  <1> QED BY <1>14, <1>15

LEMMA UnwindKeeps ==
    ASSUME IInv, Unwind
    PROVE  IInv'
  <1>1. PICK c, b, s : s = Now(c, b) /\ Sound(s) /\ Device(c, b) /\ Control(s)
    BY DEF IInv
  <1>2. PICK f, e : f = Last(frames) /\ e = {}
    OBVIOUS
  <1>3. PICK t : t = Now(c, e)'
    OBVIOUS
  <1>4. /\ pc = "unwind" /\ frames # <<>> /\ stream[f.on] = <<>> /\ live' = live \ f.buffers
        /\ IF f.owns THEN Destroyed({f.on}) ELSE UNCHANGED <<alloc, streams, impl>>
        /\ object' = (object /\ ~(f.owns /\ f.on = "self"))
        /\ frames' = Front(frames)
        /\ UNCHANGED <<content, stream, faulted, pc, call, script, uploaded>>
    BY <1>2 DEF Unwind
  <1>5. s.frames = frames /\ s.alloc = alloc /\ s.streams = streams /\ s.impl = impl /\ s.live = live
        /\ s.content = c /\ s.busy = b
    BY <1>1, NowFields
  <1>6. frames \in Seq(FrameType) /\ f \in FrameType /\ f.on \in Searches /\ f.owns \in BOOLEAN
    BY <1>1, <1>2, <1>4, <1>5, Popped DEF Sound, Shape, FrameType
  <1>7. object /\ script = <<>> /\ KnnTrue(s) /\ Linked(s) /\ ~call.ok
    BY <1>1, <1>4, <1>5 DEF Control, Bare
  <1>8. b \subseteq {f.on}
    BY <1>1, <1>2, <1>5 DEF Sound, Busy
  <1>9. \A o \in Searches : stream[o] = <<>>
    BY <1>1, <1>4, <1>8 DEF Device
  <1>10. Device(c, {})
    <2>1. ~faulted => Drains(content, <<>>, c)
      BY <1>1, <1>4, <1>6, <1>8 DEF Device
    <2> QED BY <1>1, <1>9, <2>1 DEF Device
  <1>11. Device(c, e)'
    <2>1. content' = content /\ content = [l \in Locations |-> content[l]]
      BY <1>1, <1>4 DEF Device
    <2> QED BY <1>4, <1>10, <2>1, DeviceIdle, DeviceStaysIdle
  <1>12. t = Machine(alloc', c, streams', impl', live', frames', e, s.uploaded, s.neighbors)
    <2>1. UNCHANGED <<call, uploaded>>
      BY <1>4
    <2> QED BY <1>1, <1>3, <2>1, NowKept
  <1>13. /\ t.alloc = alloc' /\ t.content = c /\ t.streams = streams' /\ t.impl = impl' /\ t.live = live'
         /\ t.frames = frames' /\ t.busy = e /\ t.uploaded = s.uploaded /\ t.neighbors = s.neighbors
    BY <1>12 DEF Machine
  <1>14. HostType' /\ ResultCurrent'
    BY <1>4, <1>6, <1>7 DEF IInv, HostType, ResultCurrent
  <1>15. CASE f.owns
    <2>1. /\ t.alloc = [l \in {m \in DOMAIN s.alloc : m[1] \notin {f.on} \/ m[2] \notin Owned} |-> s.alloc[l]]
          /\ t.streams = s.streams \ {f.on}
          /\ t.impl = [p \in Searches |-> IF p \in {f.on} THEN Blank ELSE s.impl[p]]
      BY <1>4, <1>5, <1>13, <1>15 DEF Destroyed
    <2>2. t.frames = Front(s.frames) /\ t.live = s.live \ Last(s.frames).buffers /\ t.content = s.content /\ t.busy = {}
      BY <1>2, <1>4, <1>5, <1>13
    <2>3. s.frames # <<>> /\ Last(s.frames).owns /\ f.on = Last(s.frames).on
      BY <1>2, <1>4, <1>5, <1>15
    <2>4. /\ Sound(t) /\ KnnTrue(t)
          /\ f.on # "self" => Linked(t)
          /\ f.on = "self" => Bare(t)
      <3>1. PICK o : o = f.on
        OBVIOUS
      <3>2. /\ Sound(s) /\ s.frames # <<>> /\ Last(s.frames).owns /\ o = Last(s.frames).on
            /\ t.alloc = [l \in {m \in DOMAIN s.alloc : m[1] \notin {o} \/ m[2] \notin Owned} |-> s.alloc[l]]
            /\ t.streams = s.streams \ {o}
            /\ t.impl = [p \in Searches |-> IF p \in {o} THEN Blank ELSE s.impl[p]]
            /\ t.frames = Front(s.frames) /\ t.live = s.live \ Last(s.frames).buffers
            /\ t.content = s.content /\ t.busy = {} /\ t.uploaded = s.uploaded /\ t.neighbors = s.neighbors
        BY <1>1, <1>13, <2>1, <2>2, <2>3, <3>1
      <3>3. /\ Sound(t)
            /\ KnnTrue(s) => KnnTrue(t)
            /\ o # "self" /\ Linked(s) => Linked(t)
            /\ o = "self" => Bare(t)
        BY <3>2, DestroyedSound
      <3> QED BY <1>7, <3>1, <3>3
    <2>5. Control(t)'
      BY <1>4, <1>7, <1>15, <2>4 DEF Control
    <2> QED BY <1>3, <1>11, <1>14, <2>4, <2>5 DEF IInv
  <1>16. CASE ~f.owns
    <2>1. PICK y, m : y = [do |-> "sync", on |-> f.on] /\ m = After(y, s)
      OBVIOUS
    <2>2. y.do = "sync" /\ y.on = f.on
      BY <2>1
    <2>3. Moves(y, s, m)
      BY <1>2, <1>4, <1>5, <1>7, <2>1, <2>2 DEF Moves, Ok, OkSync
    <2>4. Sound(m) /\ KnnTrue(m) /\ Linked(m)
      BY <1>1, <1>7, <2>2, <2>3, SyncSound
    <2>5. /\ m.busy = {} /\ m.alloc = s.alloc /\ m.content = s.content /\ m.streams = s.streams
          /\ m.impl = s.impl /\ m.live = s.live /\ m.frames = s.frames /\ m.uploaded = s.uploaded
          /\ m.neighbors = s.neighbors
      BY <2>1, <2>2, SyncFields
    <2>6. PICK z : z = [do |-> "leave"]
      OBVIOUS
    <2>7. z.do = "leave"
      BY <2>6
    <2>8. t = After(z, m)
      <3>1. After(z, m) = AfterLeave(z, m)
        BY <2>7 DEF After
      <3>2. /\ alloc' = m.alloc /\ c = m.content /\ streams' = m.streams /\ impl' = m.impl
            /\ live' = m.live \ Last(m.frames).buffers /\ frames' = Front(m.frames) /\ e = m.busy
            /\ s.uploaded = m.uploaded /\ s.neighbors = m.neighbors
        BY <1>2, <1>4, <1>5, <1>16, <2>5
      <3> QED BY <1>12, <3>1, <3>2 DEF AfterLeave
    <2>9. Moves(z, m, t)
      BY <1>2, <1>4, <1>5, <1>16, <2>5, <2>7, <2>8 DEF Moves, Ok, OkLeave
    <2>10. ~Last(m.frames).owns
      BY <1>2, <1>5, <1>16, <2>5
    <2>11. Sound(t) /\ KnnTrue(t) /\ Linked(t)
      BY <2>4, <2>7, <2>9, <2>10, LeaveSound
    <2>12. Control(t)'
      BY <1>4, <1>7, <1>16, <2>11 DEF Control
    <2> QED BY <1>3, <1>11, <1>14, <2>11, <2>12 DEF IInv
  <1> QED BY <1>6, <1>15, <1>16

LEMMA ExecuteKeeps ==
    ASSUME IInv, NEW o \in Searches, Execute(o)
    PROVE  IInv'
  <1>1. PICK c, b, s : s = Now(c, b) /\ Sound(s) /\ Device(c, b) /\ Control(s)
    BY DEF IInv
  <1>2. /\ stream[o] # <<>> /\ stream' = [stream EXCEPT ![o] = Tail(stream[o])]
        /\ UNCHANGED <<object, impl, alloc, streams, faulted, pc, call, script, frames, live, uploaded>>
    BY DEF Execute, host
  <1>3. content' = Effect(Head(stream[o]), content)
    BY DEF Execute, Effect
  <1>4. s = Now(c, b)' /\ HostType' /\ Control(s)'
    BY <1>1, <1>2 DEF Now, IInv, HostType, Control
  <1>5. o \in b /\ b = {o} /\ pc \in {"call", "unwind"} /\ ~faulted
    <2>1. o \in b
      BY <1>1, <1>2 DEF Device
    <2>2. s.busy = b
      BY <1>1, NowFields
    <2>3. b = {o}
      BY <1>1, <2>1, <2>2 DEF Sound, Busy
    <2>4. pc \in {"call", "unwind"}
      BY <1>1, <2>1, <2>2 DEF Control, IInv, HostType
    <2> QED BY <1>1, <1>2, <2>1, <2>3, <2>4 DEF Device
  <1>6. ResultCurrent'
    BY <1>2, <1>5 DEF ResultCurrent
  <1>7. PICK S : stream[o] \in Seq(S)
    BY <1>1 DEF Device
  <1>8. /\ stream' = [p \in Searches |-> IF p = o THEN Tail(stream[o]) ELSE stream[p]]
    BY <1>1, <1>2 DEF Device
  <1>9. /\ stream'[o] = Tail(stream[o]) /\ Tail(stream[o]) \in Seq(S)
        /\ \A p \in Searches : p # o => stream'[p] = stream[p] /\ stream[p] = <<>>
        /\ \A i \in DOMAIN Tail(stream[o]) : i + 1 \in DOMAIN stream[o] /\ Tail(stream[o])[i] = stream[o][i + 1]
    BY <1>1, <1>2, <1>5, <1>7, <1>8 DEF Device
  <1>10. Device(c, b)'
    <2>1. stream' = [p \in Searches |-> stream'[p]] /\ \A p \in Searches : \E T : stream'[p] \in Seq(T)
      BY <1>1, <1>8, <1>9 DEF Device
    <2>2. \A p \in Searches : \A i \in DOMAIN stream'[p] :
            Alive(stream'[p][i], alloc', live') /\ stream'[p][i].from \union stream'[p][i].to \subseteq Locations
      BY <1>1, <1>2, <1>9 DEF Device
    <2>3. \A p \in Searches : stream'[p] # <<>> => p \in b
      BY <1>5, <1>9
    <2>4. content' = [l \in Locations |-> content'[l]]
      BY <1>3 DEF Effect
    <2>5. Drains(content', stream'[o], c)
      <3>1. Drains(content, stream[o], c)
        BY <1>1, <1>5 DEF Device
      <3> QED BY <1>2, <1>3, <1>7, <1>9, <3>1, DrainsHead
    <2> QED BY <1>2, <1>5, <2>1, <2>2, <2>3, <2>4, <2>5 DEF Device
  <1> QED BY <1>1, <1>4, <1>6, <1>10 DEF IInv

LEMMA DeviceFaultKeeps ==
    ASSUME IInv, DeviceFault
    PROVE  IInv'
  <1>1. PICK c, b, s : s = Now(c, b) /\ Sound(s) /\ Device(c, b) /\ Control(s)
    BY DEF IInv
  <1>2. /\ \E o \in Searches : stream[o] # <<>>
        /\ faulted' = TRUE /\ stream' = [o \in Searches |-> <<>>]
        /\ UNCHANGED <<object, impl, alloc, content, streams, pc, call, script, frames, live, uploaded>>
    BY DEF DeviceFault, host
  <1>3. b # {} /\ s.busy = b
    BY <1>1, <1>2, NowFields DEF Device
  <1>4. s = Now(c, b)' /\ HostType'
    BY <1>1, <1>2 DEF Now, IInv, HostType
  <1>5. pc \in {"call", "unwind"}
    BY <1>1, <1>3 DEF Control, IInv, HostType
  <1>6. ResultCurrent'
    BY <1>2, <1>5 DEF ResultCurrent
  <1>7. Control(s)'
    <2>1. KnnTrue(s)
      BY <1>1, <1>3 DEF Sound, Busy
    <2>2. ASSUME pc = "call" PROVE Works(script)
      <3>1. PICK t : Runs(script, s, t) /\ Final(t, call)
        BY <1>1, <2>2 DEF Control
      <3> QED BY <1>3, <3>1, BusyWorks DEF Final
    <2> QED BY <1>1, <1>2, <2>1, <2>2 DEF Control
  <1>8. Device(c, b)'
    <2>1. \A o \in Searches : stream'[o] = <<>> /\ DOMAIN stream'[o] = {} /\ \E S : stream'[o] \in Seq(S)
      <3>1. <<>> \in Seq({}) /\ DOMAIN <<>> = {}
        OBVIOUS
      <3> QED BY <1>2, <3>1
    <2>2. stream' = [o \in Searches |-> stream'[o]]
      BY <1>2
    <2> QED BY <1>1, <1>2, <2>1, <2>2 DEF Device
  <1> QED BY <1>1, <1>4, <1>6, <1>7, <1>8 DEF IInv

LEMMA ReturnKeeps ==
    ASSUME IInv, Return
    PROVE  IInv'
  <1>1. PICK c, b, s : s = Now(c, b) /\ Sound(s) /\ Device(c, b) /\ Control(s)
    BY DEF IInv
  <1>2. /\ (pc = "call" /\ script = <<>>) \/ (pc = "unwind" /\ frames = <<>>)
        /\ pc' = IF object THEN "idle" ELSE "none"
        /\ uploaded' = IF call.method = "upload_scan" /\ call.ok
                       THEN [number |-> call.number, normals |-> Members.has_scan_normals] ELSE uploaded
        /\ UNCHANGED <<object, impl, alloc, content, stream, streams, faulted, call, script, frames, live>>
    BY DEF Return, device
  <1>3. /\ s.alloc = alloc /\ s.content = c /\ s.streams = streams /\ s.impl = impl /\ s.live = live
        /\ s.frames = frames /\ s.busy = b /\ s.uploaded = uploaded
    BY <1>1, NowFields
  <1>4. PICK t : t = Now(c, b)'
    OBVIOUS
  <1>5. /\ t.alloc = s.alloc /\ t.content = s.content /\ t.streams = s.streams /\ t.impl = s.impl /\ t.live = s.live
        /\ t.frames = s.frames /\ t.busy = s.busy /\ t.uploaded = uploaded' /\ t.neighbors = s.neighbors
    BY <1>1, <1>2, <1>4 DEF Now, Machine
  <1>6. Sound(t)
    <2>1. t.content = [l \in Locations |-> t.content[l]]
      BY <1>1, <1>5 DEF Sound, Shape
    <2>2. Busy(t)
      BY <1>1, <1>5 DEF Sound, Busy, KnnTrue
    <2> QED BY <1>1, <1>5, <2>1, <2>2, ContentsSound
  <1>7. Device(c, b)'
    BY <1>1, <1>2 DEF Device
  <1>8. HostType'
    BY <1>2 DEF IInv, HostType
  <1>9. CASE pc = "call" /\ script = <<>>
    <2>1. Final(s, call) /\ object /\ call.ok
      BY <1>1, <1>9, RunsEnd DEF Control
    <2>2. ~faulted
      BY <1>1, <1>9 DEF Control, Works
    <2>3. s.frames = <<>> /\ b = {} /\ KnnTrue(s)
      BY <1>3, <2>1 DEF Final
    <2>4. pc' = "idle" /\ content = c
      BY <1>1, <1>2, <2>1, <2>2, <2>3, DeviceIdle
    <2>5. KnnTrue(t)
      BY <1>5, <2>3 DEF KnnTrue
    <2>6. Linked(t)
      <3>1. Present(t)
        BY <1>5, <2>1 DEF Final, Present
      <3>2. CASE call.method = "upload_scan"
        <4>1. uploaded' = [number |-> call.number, normals |-> impl["self"].has_scan_normals]
          BY <1>2, <2>1, <3>2 DEF Members
        <4>2. s.impl["self"].scan_count = call.number
          BY <2>1, <3>2 DEF Final, Post
        <4> QED BY <1>3, <1>5, <3>1, <4>1, <4>2 DEF Linked
      <3>3. CASE call.method # "upload_scan"
        <4>1. Linked(s)
          BY <2>1, <3>3 DEF Final
        <4> QED BY <1>2, <1>3, <1>5, <3>1, <3>3, <4>1 DEF Linked
      <3> QED BY <3>2, <3>3
    <2>7. Control(t)'
      BY <1>2, <1>3, <1>5, <1>9, <2>1, <2>3, <2>4, <2>5, <2>6 DEF Control
    <2>8. ResultCurrent'
      <3>1. call.method # "upload_scan" => uploaded' = uploaded
        BY <1>2
      <3>2. Post(s, call)
        BY <2>1 DEF Final
      <3>3. UNCHANGED <<impl, alloc, content, call>>
        BY <1>2
      <3>4. CASE call.method = "evaluate"
        <4>1. /\ impl["self"].scan_count # 0
              /\ uploaded.number = impl["self"].scan_count
              /\ uploaded.normals = impl["self"].has_scan_normals
          BY <1>3, <2>1, <3>2, <3>4 DEF Final, Post, Linked
        <4>2. uploaded # NoUpload
          BY <4>1 DEF NoUpload
        <4>3. content[OnHost("result")] =
                {<<"reference", 0>>, <<"pose", call.number>>, <<"scan", uploaded.number>>}
                \union (IF Has("reference_normals") THEN {<<"reference_normals", 0>>} ELSE {})
                \union (IF uploaded.normals THEN {<<"normals", uploaded.number>>} ELSE {})
                \union (IF Members.covariance_neighbors # 0
                        THEN {<<"neighbors", Members.covariance_neighbors>>} ELSE {})
          BY <1>3, <2>4, <3>2, <3>4, <4>1 DEF Post, Has, Members
        <4> QED BY <2>4, <3>1, <3>3, <3>4, <4>2, <4>3 DEF ResultCurrent, Has, Members, NoUpload
      <3>5. CASE call.method = "query_into"
        BY <1>3, <2>4, <3>2, <3>3, <3>5 DEF ResultCurrent, Post
      <3>6. CASE call.method \in {"knn", "download_covariances"}
        BY <1>3, <2>4, <3>2, <3>3, <3>6 DEF ResultCurrent, Post
      <3>7. CASE call.method \notin {"evaluate", "query_into", "knn", "download_covariances"}
        BY <3>3, <3>7 DEF ResultCurrent
      <3> QED BY <3>4, <3>5, <3>6, <3>7
    <2> QED BY <1>4, <1>6, <1>7, <1>8, <2>7, <2>8 DEF IInv
  <1>10. CASE pc = "unwind" /\ frames = <<>>
    <2>1. ~call.ok /\ script = <<>> /\ KnnTrue(s) /\ (object => Linked(s)) /\ (~object => Bare(s))
      BY <1>1, <1>10 DEF Control
    <2>2. b = {}
      BY <1>1, <1>3, <1>10 DEF Sound, Busy
    <2>3. t = s
      BY <1>1, <1>2, <1>4, <2>1 DEF Now
    <2>4. Control(t)'
      BY <1>2, <1>3, <1>10, <2>1, <2>2, <2>3 DEF Control
    <2>5. ResultCurrent'
      BY <1>2, <2>1 DEF ResultCurrent
    <2> QED BY <1>4, <1>6, <1>7, <1>8, <2>4, <2>5 DEF IInv
  <1> QED BY <1>2, <1>9, <1>10

LEMMA DestroyKeeps ==
    ASSUME IInv, Destroy
    PROVE  IInv'
  <1>1. PICK c, b, s : s = Now(c, b) /\ Sound(s) /\ Device(c, b) /\ Control(s)
    BY DEF IInv
  <1>2. /\ pc = "idle" /\ Destroyed(Released) /\ object' = FALSE /\ pc' = "none"
        /\ UNCHANGED <<content, stream, faulted, call, script, frames, live, uploaded>>
    BY DEF Destroy
  <1>3. /\ s.alloc = alloc /\ s.content = c /\ s.streams = streams /\ s.impl = impl /\ s.live = live
        /\ s.frames = frames /\ s.busy = b /\ s.uploaded = uploaded
    BY <1>1, NowFields
  <1>4. PICK t : t = Now(c, b)'
    OBVIOUS
  <1>5. b = {} /\ frames = <<>> /\ script = <<>> /\ object
    BY <1>1, <1>2, <1>3 DEF Control
  <1>6. \A o \in Searches : o \notin Released => ~Uses(s, o) /\ s.impl[o] = Blank
    <2>1. \A o : ~Owns(s.frames, o)
      BY <1>3, <1>5 DEF Owns
    <2>2. \A o \in Searches : o \notin Released => ~Held(s, o)
      BY <1>3, <2>1 DEF Held, Released, Members
    <2> QED BY <1>1, <2>2 DEF Sound, Ownership
  <1>7. Bare(t)
    <2>1. /\ t.alloc = alloc' /\ t.streams = streams' /\ t.impl = impl' /\ t.frames = frames'
      BY <1>4 DEF Now, Machine
    <2>2. DOMAIN alloc \subseteq Searches \X Owned /\ streams \subseteq Searches
      BY <1>1, <1>3 DEF Sound, Shape
    <2>3. \A m \in DOMAIN alloc : m[1] \in Searches /\ m[2] \in Owned /\ m[1] \in Released
      BY <1>3, <1>6, <2>2 DEF Uses
    <2>4. DOMAIN alloc' = {}
      BY <1>2, <2>3 DEF Destroyed
    <2>5. streams' = {}
      BY <1>2, <1>3, <1>6, <2>2 DEF Destroyed, Uses
    <2>6. impl' = [o \in Searches |-> Blank]
      BY <1>2, <1>3, <1>6 DEF Destroyed
    <2> QED BY <1>2, <1>5, <2>1, <2>4, <2>5, <2>6 DEF Bare
  <1>8. /\ t.content = c /\ t.live = s.live /\ t.busy = b /\ t.neighbors = s.neighbors
    BY <1>1, <1>2, <1>3, <1>4 DEF Now, Machine
  <1>9. Sound(t) /\ KnnTrue(t)
    <2>1. \A o \in Searches : t.impl[o] = Blank
      BY <1>7 DEF Bare
    <2>2. Shape(t)
      <3>1. Blank \in MemberType(s.neighbors)
        BY <1>1 DEF Blank, MemberType, Sound, Shape
      <3>2. <<>> \in Seq(FrameType)
        OBVIOUS
      <3>3. t.impl \in [Searches -> MemberType(t.neighbors)]
        BY <1>7, <1>8, <3>1 DEF Bare
      <3>4. DOMAIN t.alloc = {} /\ t.streams = {} /\ t.frames = <<>>
        BY <1>7 DEF Bare
      <3> QED BY <1>1, <1>3, <1>8, <3>2, <3>3, <3>4 DEF Sound, Shape
    <2>3. \A o : ~Uses(t, o) /\ ~Owns(t.frames, o)
      BY <1>7 DEF Bare, Uses, Owns
    <2>4. Ownership(t)
      BY <1>7, <2>1, <2>3 DEF Ownership, Bare
    <2>5. Busy(t)
      BY <1>5, <1>8 DEF Busy
    <2>6. Equipped(t)
      BY <1>7, <2>1 DEF Equipped, Bare, Blank
    <2>7. Facts(t)
      BY <1>7 DEF Facts, Present, Bare
    <2>8. KnnTrue(t)
      BY <2>1 DEF KnnTrue, Blank
    <2> QED BY <2>2, <2>4, <2>5, <2>6, <2>7, <2>8 DEF Sound
  <1>10. Device(c, b)'
    <2>1. content' = content /\ content = [l \in Locations |-> content[l]]
      BY <1>1, <1>2 DEF Device
    <2> QED BY <1>1, <1>2, <1>5, <2>1, DeviceIdle, DeviceStaysIdle
  <1>11. Control(t)'
    BY <1>2, <1>5, <1>7, <1>8, <1>9 DEF Control
  <1>12. HostType' /\ ResultCurrent'
    BY <1>2 DEF IInv, HostType, ResultCurrent
  <1> QED BY <1>4, <1>9, <1>10, <1>11, <1>12 DEF IInv

LEMMA RunsSnoc ==
    ASSUME NEW p, NEW q, NEW x, NEW s, NEW m, NEW t, Runs(p, s, m), Moves(x, m, t), q = p \o <<x>>
    PROVE  Runs(q, s, t)
  BY RunsOne, RunsConcat

LEMMA RunsTwo ==
    ASSUME NEW x1, NEW x2,
           NEW s0, NEW s1, NEW s2,
           Moves(x1, s0, s1), Moves(x2, s1, s2)
    PROVE  Runs(<<x1, x2>>, s0, s2)
  <1>1. Runs(<<x1>>, s0, s1)
    BY RunsOne
  <1>2. <<x1, x2>> = <<x1>> \o <<x2>>
    <2>1. <<x1, x2>> = Append(<<x1>>, x2) /\ <<x1>> \in Seq({x1, x2})
      OBVIOUS
    <2> QED BY <2>1, AppendIsConcat
  <1> QED BY <1>1, <1>2, RunsSnoc

LEMMA RunsThree ==
    ASSUME NEW x1, NEW x2, NEW x3,
           NEW s0, NEW s1, NEW s2, NEW s3,
           Moves(x1, s0, s1), Moves(x2, s1, s2), Moves(x3, s2, s3)
    PROVE  Runs(<<x1, x2, x3>>, s0, s3)
  <1>1. Runs(<<x1, x2>>, s0, s2)
    BY RunsTwo
  <1>2. <<x1, x2, x3>> = <<x1, x2>> \o <<x3>>
    OBVIOUS
  <1> QED BY <1>1, <1>2, RunsSnoc

LEMMA RunsFour ==
    ASSUME NEW x1, NEW x2, NEW x3, NEW x4,
           NEW s0, NEW s1, NEW s2, NEW s3, NEW s4,
           Moves(x1, s0, s1), Moves(x2, s1, s2), Moves(x3, s2, s3), Moves(x4, s3, s4)
    PROVE  Runs(<<x1, x2, x3, x4>>, s0, s4)
  <1>1. Runs(<<x1, x2, x3>>, s0, s3)
    BY RunsThree
  <1>2. <<x1, x2, x3, x4>> = <<x1, x2, x3>> \o <<x4>>
    OBVIOUS
  <1> QED BY <1>1, <1>2, RunsSnoc

LEMMA RunsFive ==
    ASSUME NEW x1, NEW x2, NEW x3, NEW x4, NEW x5,
           NEW s0, NEW s1, NEW s2, NEW s3, NEW s4, NEW s5,
           Moves(x1, s0, s1), Moves(x2, s1, s2), Moves(x3, s2, s3), Moves(x4, s3, s4),
           Moves(x5, s4, s5)
    PROVE  Runs(<<x1, x2, x3, x4, x5>>, s0, s5)
  <1>1. Runs(<<x1, x2, x3, x4>>, s0, s4)
    BY RunsFour
  <1>2. <<x1, x2, x3, x4, x5>> = <<x1, x2, x3, x4>> \o <<x5>>
    OBVIOUS
  <1> QED BY <1>1, <1>2, RunsSnoc

LEMMA RunsSix ==
    ASSUME NEW x1, NEW x2, NEW x3, NEW x4, NEW x5, NEW x6,
           NEW s0, NEW s1, NEW s2, NEW s3, NEW s4, NEW s5, NEW s6,
           Moves(x1, s0, s1), Moves(x2, s1, s2), Moves(x3, s2, s3), Moves(x4, s3, s4),
           Moves(x5, s4, s5), Moves(x6, s5, s6)
    PROVE  Runs(<<x1, x2, x3, x4, x5, x6>>, s0, s6)
  <1>1. Runs(<<x1, x2, x3, x4, x5>>, s0, s5)
    BY RunsFive
  <1>2. <<x1, x2, x3, x4, x5, x6>> = <<x1, x2, x3, x4, x5>> \o <<x6>>
    OBVIOUS
  <1> QED BY <1>1, <1>2, RunsSnoc

LEMMA RunsSeven ==
    ASSUME NEW x1, NEW x2, NEW x3, NEW x4, NEW x5, NEW x6, NEW x7,
           NEW s0, NEW s1, NEW s2, NEW s3, NEW s4, NEW s5, NEW s6, NEW s7,
           Moves(x1, s0, s1), Moves(x2, s1, s2), Moves(x3, s2, s3), Moves(x4, s3, s4),
           Moves(x5, s4, s5), Moves(x6, s5, s6), Moves(x7, s6, s7)
    PROVE  Runs(<<x1, x2, x3, x4, x5, x6, x7>>, s0, s7)
  <1>1. Runs(<<x1, x2, x3, x4, x5, x6>>, s0, s6)
    BY RunsSix
  <1>2. <<x1, x2, x3, x4, x5, x6, x7>> = <<x1, x2, x3, x4, x5, x6>> \o <<x7>>
    OBVIOUS
  <1> QED BY <1>1, <1>2, RunsSnoc

LEMMA RunsEight ==
    ASSUME NEW x1, NEW x2, NEW x3, NEW x4, NEW x5, NEW x6, NEW x7, NEW x8,
           NEW s0, NEW s1, NEW s2, NEW s3, NEW s4, NEW s5, NEW s6, NEW s7, NEW s8,
           Moves(x1, s0, s1), Moves(x2, s1, s2), Moves(x3, s2, s3), Moves(x4, s3, s4),
           Moves(x5, s4, s5), Moves(x6, s5, s6), Moves(x7, s6, s7), Moves(x8, s7, s8)
    PROVE  Runs(<<x1, x2, x3, x4, x5, x6, x7, x8>>, s0, s8)
  <1>1. Runs(<<x1, x2, x3, x4, x5, x6, x7>>, s0, s7)
    BY RunsSeven
  <1>2. <<x1, x2, x3, x4, x5, x6, x7, x8>> = <<x1, x2, x3, x4, x5, x6, x7>> \o <<x8>>
    OBVIOUS
  <1> QED BY <1>1, <1>2, RunsSnoc

LEMMA RunsNine ==
    ASSUME NEW x1, NEW x2, NEW x3, NEW x4, NEW x5, NEW x6, NEW x7, NEW x8, NEW x9,
           NEW s0, NEW s1, NEW s2, NEW s3, NEW s4, NEW s5, NEW s6, NEW s7, NEW s8, NEW s9,
           Moves(x1, s0, s1), Moves(x2, s1, s2), Moves(x3, s2, s3), Moves(x4, s3, s4),
           Moves(x5, s4, s5), Moves(x6, s5, s6), Moves(x7, s6, s7), Moves(x8, s7, s8),
           Moves(x9, s8, s9)
    PROVE  Runs(<<x1, x2, x3, x4, x5, x6, x7, x8, x9>>, s0, s9)
  <1>1. Runs(<<x1, x2, x3, x4, x5, x6, x7, x8>>, s0, s8)
    BY RunsEight
  <1>2. <<x1, x2, x3, x4, x5, x6, x7, x8, x9>> = <<x1, x2, x3, x4, x5, x6, x7, x8>> \o <<x9>>
    OBVIOUS
  <1> QED BY <1>1, <1>2, RunsSnoc

-----------------------------------------------------------------------------
(***************************************************************************)
(* The steps of the methods, where they may be taken                       *)
(***************************************************************************)
Legal(s) == Sound(s) /\ Steady(s)

\* Members, streams and scopes are untouched.
Fixed(s, t) == /\ t.impl = s.impl /\ t.streams = s.streams /\ t.frames = s.frames /\ t.live = s.live
               /\ t.uploaded = s.uploaded /\ t.neighbors = s.neighbors

LEMMA FixedHeld ==
    ASSUME NEW s, NEW t, Fixed(s, t)
    PROVE  /\ \A o : Held(t, o) <=> Held(s, o)
           /\ Present(t) <=> Present(s)
  BY DEF Fixed, Held, Present

\* What a step leaves behind, kind by kind.
Allocated(s, t, o, b, n) == /\ Fixed(s, t) /\ t.busy = s.busy
                            /\ DOMAIN t.alloc = DOMAIN s.alloc \union {<<o, b>>}
                            /\ \A l \in DOMAIN s.alloc : t.alloc[l] = s.alloc[l]
                            /\ t.alloc[<<o, b>>] = n
                            /\ \A l \in Locations : l # <<o, b>> => t.content[l] = s.content[l]
Freed(s, t, o, b) == /\ Fixed(s, t) /\ t.busy = {}
                     /\ DOMAIN t.alloc = DOMAIN s.alloc \ {<<o, b>>}
                     /\ \A l \in DOMAIN t.alloc : t.alloc[l] = s.alloc[l]
                     /\ t.content = s.content
Ready(s, o) == s.frames # <<>> /\ o = Last(s.frames).on
Operands(s, from, to, k) == /\ from \subseteq Locations /\ to \subseteq Locations
                            /\ \A m \in from \union to :
                                 IF m[1] = "host" THEN m[2] \in s.live
                                 ELSE m \in DOMAIN s.alloc /\ (m[2] \in {"knn_indices", "knn_distances"} => s.alloc[m] >= k)
                            /\ Present(s) => \A l \in to : l[1] = "host" \/ ~Settled(s, l)
Written(s, t, o, from, args, to) == /\ Fixed(s, t) /\ t.busy = {o} /\ t.alloc = s.alloc
                                    /\ \A l \in Locations \ to : t.content[l] = s.content[l]
                                    /\ \A l \in to : t.content[l] = args \union UNION {s.content[m] : m \in from}
Waited(s, t) == Fixed(s, t) /\ t.busy = {} /\ t.alloc = s.alloc /\ t.content = s.content
Streamed(s, t, o) == /\ t.streams = s.streams \union {o} /\ t.busy = s.busy
                     /\ t.alloc = s.alloc /\ t.content = s.content /\ t.impl = s.impl /\ t.frames = s.frames
                     /\ t.live = s.live /\ t.uploaded = s.uploaded /\ t.neighbors = s.neighbors
Inside(s, t, o) == t.frames # <<>> /\ Last(t.frames).on = o /\ Front(t.frames) = s.frames
Kept(s, t) == /\ t.alloc = s.alloc /\ t.impl = s.impl /\ t.streams = s.streams
              /\ t.uploaded = s.uploaded /\ t.neighbors = s.neighbors
              /\ \A l \in Searches \X Owned : t.content[l] = s.content[l]
SameOwners(s, t) == /\ \A p : Owns(t.frames, p) <=> Owns(s.frames, p)
                    /\ \A p : Held(t, p) <=> Held(s, p)
                    /\ Present(t) <=> Present(s)
Entered(s, t, o, buffers) == /\ Inside(s, t, o) /\ ~Last(t.frames).owns /\ Kept(s, t) /\ SameOwners(s, t)
                             /\ t.busy = {} /\ t.live = s.live \union DOMAIN buffers
                             /\ \A b \in DOMAIN buffers : t.content[OnHost(b)] = buffers[b]
Constructible(s, o) == /\ ~Uses(s, o) /\ s.impl["self"].scan_search # o
                       /\ \/ /\ o = "self" /\ s.impl["self"].scan_count = 0 /\ s.frames = <<>>
                             /\ s.impl["self"].scan_search = "none" /\ \A p \in Searches : ~Uses(s, p)
                          \/ o # "self" /\ Present(s) /\ Linked(s)
Constructing(s, t, o) == /\ Inside(s, t, o) /\ Last(t.frames).owns /\ Kept(s, t) /\ t.busy = {}
                         /\ \A p : Owns(t.frames, p) <=> Owns(s.frames, p) \/ p = o
Left(s, t) == /\ t.frames = Front(s.frames) /\ t.busy = {} /\ SameOwners(s, t)
              /\ t.alloc = s.alloc /\ t.content = s.content /\ t.impl = s.impl /\ t.streams = s.streams
              /\ t.uploaded = s.uploaded /\ t.neighbors = s.neighbors

LEMMA DoMalloc ==
    ASSUME NEW s, Legal(s), NEW o \in Searches, NEW b \in Owned, NEW n \in Nat, Held(s, o),
           <<o, b>> \notin DOMAIN s.alloc,
           b \in AfterScan => <<o, "scan">> \in DOMAIN s.alloc,
           b = "reference_normals" /\ o = "self" => ~s.impl["self"].resident
    PROVE  \E t : Moves(Malloc(o, b, n), s, t) /\ Legal(t) /\ Allocated(s, t, o, b, n)
  <1>1. PICK x, t : x = Malloc(o, b, n) /\ t = After(x, s)
    OBVIOUS
  <1>2. x.do = "malloc" /\ x.at = <<o, b>> /\ x.size = n
    BY <1>1 DEF Malloc
  <1>3. OkMalloc(x, s)
    <2>1. <<o, b>>[1] = o /\ <<o, b>>[2] = b /\ <<o, b>> \in Searches \X Owned
      OBVIOUS
    <2>2. <<o, b>> = <<"self", "reference_normals">> => b = "reference_normals" /\ o = "self"
      OBVIOUS
    <2> QED BY <1>2, <2>1, <2>2 DEF OkMalloc, Legal
  <1>4. Moves(x, s, t)
    BY <1>1, <1>2, <1>3 DEF Moves, Ok
  <1>5. Sound(t) /\ Steady(t)
    BY <1>2, <1>4, MallocSound DEF Legal, Steady
  <1>6. /\ t.alloc = [l \in DOMAIN s.alloc \union {<<o, b>>} |-> IF l = <<o, b>> THEN n ELSE s.alloc[l]]
        /\ t.content = [l \in Locations |-> IF l = <<o, b>> THEN Garbage ELSE s.content[l]]
        /\ Fixed(s, t) /\ t.busy = s.busy
    BY <1>1, <1>2, MallocFields DEF Fixed
  <1>7. \A l \in DOMAIN s.alloc : l # <<o, b>>
    OBVIOUS
  <1>8. Allocated(s, t, o, b, n)
    BY <1>6, <1>7 DEF Allocated
  <1> QED BY <1>1, <1>4, <1>5, <1>8 DEF Legal

LEMMA DoSubmit ==
    ASSUME NEW s, Legal(s), NEW o, NEW from, NEW args, NEW to, NEW k, Ready(s, o), o \in s.streams,
           Operands(s, from, to, k)
    PROVE  \E t : Moves(Submit(o, from, args, to, k), s, t) /\ Legal(t) /\ Written(s, t, o, from, args, to)
  <1>1. PICK x, t : x = Submit(o, from, args, to, k) /\ t = After(x, s)
    OBVIOUS
  <1>2. x.do = "submit" /\ x.on = o /\ x.from = from /\ x.args = args /\ x.to = to /\ x.k = k
    BY <1>1 DEF Submit
  <1>3. OkSubmit(x, s)
    BY <1>2 DEF OkSubmit, Alive, Legal, Ready, Operands
  <1>4. Moves(x, s, t)
    BY <1>1, <1>2, <1>3 DEF Moves, Ok
  <1>5. Sound(t) /\ Steady(t)
    BY <1>2, <1>4, SubmitSound DEF Legal, Steady
  <1>6. t.content = Effect(x, s.content) /\ t.busy = {o} /\ t.alloc = s.alloc /\ Fixed(s, t)
    BY <1>1, <1>2, SubmitFields DEF Fixed
  <1>7. t.content = [l \in Locations |-> IF l \in to THEN args \union UNION {s.content[m] : m \in from}
                                         ELSE s.content[l]]
    BY <1>2, <1>6 DEF Effect
  <1>8. \A l \in to : l \in Locations
    BY DEF Operands
  <1>9. Written(s, t, o, from, args, to)
    BY <1>6, <1>7, <1>8 DEF Written
  <1> QED BY <1>1, <1>4, <1>5, <1>9 DEF Legal

LEMMA DoSync ==
    ASSUME NEW s, Legal(s), NEW o, Ready(s, o)
    PROVE  \E t : Moves(Sync(o), s, t) /\ Legal(t) /\ Waited(s, t)
  <1>1. PICK x, t : x = Sync(o) /\ t = After(x, s)
    OBVIOUS
  <1>2. x.do = "sync" /\ x.on = o
    BY <1>1 DEF Sync
  <1>3. Moves(x, s, t)
    BY <1>1, <1>2 DEF Moves, Ok, OkSync, Legal, Steady, Ready
  <1>4. Sound(t) /\ Steady(t)
    BY <1>2, <1>3, SyncSound DEF Legal, Steady
  <1>5. t.busy = {} /\ t.alloc = s.alloc /\ t.content = s.content /\ Fixed(s, t)
    BY <1>1, <1>2, SyncFields DEF Fixed
  <1> QED BY <1>1, <1>3, <1>4, <1>5 DEF Legal, Waited

LEMMA DoCheck ==
    ASSUME NEW s, Legal(s)
    PROVE  Moves(Check, s, s)
  BY DEF Legal, Moves, Ok, After, Check

LEMMA DoStream ==
    ASSUME NEW s, Legal(s), NEW o \in Searches, Owns(s.frames, o)
    PROVE  \E t : Moves(CreateStream(o), s, t) /\ Legal(t) /\ Streamed(s, t, o)
  <1>1. PICK x, t : x = CreateStream(o) /\ t = After(x, s)
    OBVIOUS
  <1>2. x.do = "stream" /\ x.on = o
    BY <1>1 DEF CreateStream
  <1>3. Moves(x, s, t)
    BY <1>1, <1>2 DEF Moves, Ok, OkStream, Legal
  <1>4. Sound(t) /\ Steady(t)
    BY <1>2, <1>3, StreamSound DEF Legal, Steady
  <1>5. /\ t.streams = s.streams \union {o} /\ t.busy = s.busy
        /\ t.alloc = s.alloc /\ t.content = s.content /\ t.impl = s.impl /\ t.frames = s.frames
        /\ t.live = s.live /\ t.uploaded = s.uploaded /\ t.neighbors = s.neighbors
    BY <1>1, <1>2, StreamFields
  <1> QED BY <1>1, <1>3, <1>4, <1>5 DEF Legal, Streamed

\* A scope is entered.
LEMMA Pushed ==
    ASSUME NEW g, g \in Seq(FrameType), NEW f \in FrameType, NEW h, h = Append(g, f)
    PROVE  h # <<>> /\ Last(h) = f /\ Front(h) = g
  <1>1. h # <<>> /\ Len(h) = Len(g) + 1 /\ h[Len(g) + 1] = f /\ h \in Seq(FrameType) /\ Len(g) \in Nat
        /\ \A i \in 1 .. Len(g) : h[i] = g[i]
    OBVIOUS
  <1>2. Front(h) \in Seq(FrameType) /\ Len(Front(h)) = Len(g) /\ \A i \in 1 .. Len(g) : Front(h)[i] = g[i]
    BY <1>1 DEF Front
  <1>3. Front(h) = g
    BY <1>2, SeqEqual
  <1> QED BY <1>1, <1>3 DEF Last

\* A handler comes into force, and the host buffers in scope with it.
LEMMA DoTry ==
    ASSUME NEW s, Legal(s), s.busy = {}, NEW o \in Searches, NEW buffers, DOMAIN buffers \subseteq HostBuffers
    PROVE  \E t : Moves(Try(o, buffers), s, t) /\ Legal(t) /\ Entered(s, t, o, buffers)
  <1>1. PICK x, t : x = Try(o, buffers) /\ t = After(x, s)
    OBVIOUS
  <1>2. x.do = "enter" /\ x.on = o /\ x.owns = FALSE /\ x.buffers = buffers
    BY <1>1 DEF Try
  <1>3. Moves(x, s, t)
    BY <1>1, <1>2 DEF Moves, Ok, OkEnter
  <1>4. /\ Sound(t) /\ Steady(t)
        /\ \A p : Owns(t.frames, p) = (Owns(s.frames, p) \/ (x.owns /\ x.on = p))
    BY <1>2, <1>3, EnterSound DEF Legal, Steady
  <1>5. \A p : Owns(t.frames, p) <=> Owns(s.frames, p)
    BY <1>2, <1>4
  <1> DEFINE f == [on |-> x.on, owns |-> x.owns, buffers |-> DOMAIN x.buffers]
  <1>6. /\ t.content = [l \in Locations |-> IF l[1] = "host" /\ l[2] \in DOMAIN buffers
                                            THEN buffers[l[2]] ELSE s.content[l]]
        /\ t.live = s.live \union DOMAIN buffers /\ t.frames = Append(s.frames, f)
        /\ t.busy = s.busy /\ t.alloc = s.alloc /\ t.impl = s.impl /\ t.streams = s.streams
        /\ t.uploaded = s.uploaded /\ t.neighbors = s.neighbors
    BY <1>1, <1>2, EnterFields
  <1>7. t.frames # <<>> /\ Last(t.frames) = f /\ Front(t.frames) = s.frames
    <2>1. s.frames \in Seq(FrameType) /\ f \in FrameType
      BY <1>2 DEF Legal, Sound, Shape, FrameType
    <2>2. t.frames = Append(s.frames, f)
      BY <1>6
    <2> HIDE DEF f
    <2> QED BY <2>1, <2>2, Pushed
  <1>8. \A b \in DOMAIN buffers : t.content[OnHost(b)] = buffers[b]
    <2> TAKE b \in DOMAIN buffers
    <2>1. OnHost(b) \in Locations /\ OnHost(b)[1] = "host" /\ OnHost(b)[2] = b
      BY DEF OnHost, Locations
    <2> QED BY <1>6, <2>1
  <1>9. \A l \in Searches \X Owned : t.content[l] = s.content[l]
    BY <1>6 DEF Locations, Searches
  <1>10. Last(t.frames).on = o /\ ~Last(t.frames).owns
    BY <1>2, <1>7
  <1>11. (\A p : Held(t, p) <=> Held(s, p)) /\ (Present(t) <=> Present(s))
    BY <1>5, <1>6 DEF Held, Present
  <1>12. /\ t.live = s.live \union DOMAIN buffers /\ t.busy = {} /\ t.alloc = s.alloc /\ t.impl = s.impl
         /\ t.streams = s.streams /\ t.uploaded = s.uploaded /\ t.neighbors = s.neighbors
    BY <1>6
  <1>13. t.frames # <<>> /\ Front(t.frames) = s.frames
    BY <1>7
  <1> HIDE DEF f
  <1>14. Entered(s, t, o, buffers)
    BY <1>5, <1>8, <1>9, <1>10, <1>11, <1>12, <1>13 DEF Entered, Inside, Kept, SameOwners
  <1> QED BY <1>1, <1>3, <1>4, <1>14 DEF Legal

\* The scope of a handler ends; l is the step as the script has it.
LEMMA DoLeave ==
    ASSUME NEW s, Sound(s), KnnTrue(s), s.busy = {}, s.frames # <<>>, ~Last(s.frames).owns
    PROVE  \E t : Moves(Leave, s, t) /\ Sound(t) /\ KnnTrue(t) /\ (Linked(s) => Linked(t)) /\ Left(s, t)
  <1>1. PICK x, t : x = Leave /\ t = After(x, s)
    OBVIOUS
  <1>2. x.do = "leave"
    BY <1>1 DEF Leave
  <1>3. Moves(x, s, t)
    BY <1>1, <1>2 DEF Moves, Ok, OkLeave
  <1>4. Sound(t) /\ KnnTrue(t) /\ (Linked(s) => Linked(t))
    BY <1>2, <1>3, LeaveSound
  <1>5. /\ t.frames = Front(s.frames) /\ t.busy = s.busy
        /\ t.alloc = s.alloc /\ t.content = s.content /\ t.impl = s.impl /\ t.streams = s.streams
        /\ t.uploaded = s.uploaded /\ t.neighbors = s.neighbors
    BY <1>1, <1>2, LeaveFields
  <1>6. \A p : Owns(t.frames, p) <=> Owns(s.frames, p)
    <2>1. s.frames \in Seq(FrameType)
      BY DEF Sound, Shape
    <2> QED BY <1>5, <2>1, Popped
  <1>7. (\A p : Held(t, p) <=> Held(s, p)) /\ (Present(t) <=> Present(s))
    BY <1>5, <1>6 DEF Held, Present
  <1>8. Left(s, t)
    BY <1>5, <1>6, <1>7 DEF Left, SameOwners
  <1> QED BY <1>1, <1>3, <1>4, <1>8

LEMMA DoFree ==
    ASSUME NEW s, Sound(s), Linked(s), s.busy = {}, NEW o \in Searches, NEW b \in {"knn_indices", "knn_distances"}
    PROVE  \E t : Moves(Free(o, b), s, t) /\ Sound(t) /\ Linked(t) /\ Freed(s, t, o, b)
  <1>1. PICK x, t : x = Free(o, b) /\ t = After(x, s)
    OBVIOUS
  <1>2. x.do = "free" /\ x.at = <<o, b>>
    BY <1>1 DEF Free
  <1>3. Moves(x, s, t)
    BY <1>1, <1>2 DEF Moves, Ok, OkFree
  <1>4. Sound(t) /\ Linked(t)
    BY <1>2, <1>3, FreeSound
  <1>5. t.alloc = [l \in DOMAIN s.alloc \ {<<o, b>>} |-> s.alloc[l]] /\ t.busy = {} /\ t.content = s.content /\ Fixed(s, t)
    BY <1>1, <1>2, FreeFields DEF Fixed
  <1>6. Freed(s, t, o, b)
    BY <1>5 DEF Freed
  <1> QED BY <1>1, <1>3, <1>4, <1>6

\* An object is under construction from here on.
LEMMA DoOwner ==
    ASSUME NEW s, Sound(s), KnnTrue(s), s.busy = {}, NEW o \in Searches, Constructible(s, o)
    PROVE  \E t : Moves(Owner(o), s, t) /\ Legal(t) /\ Constructing(s, t, o)
  <1>1. PICK x, t : x = Owner(o) /\ t = After(x, s)
    OBVIOUS
  <1>2. x.do = "enter" /\ x.on = o /\ x.owns = TRUE /\ DOMAIN x.buffers = {}
    BY <1>1 DEF Owner
  <1>3. Moves(x, s, t)
    BY <1>1, <1>2 DEF Moves, Ok, OkEnter, Constructible
  <1>4. /\ Sound(t) /\ KnnTrue(t) /\ (Linked(s) => Linked(t))
        /\ \A p : Owns(t.frames, p) = (Owns(s.frames, p) \/ (x.owns /\ x.on = p))
    BY <1>2, <1>3, EnterSound
  <1>5. \A p : Owns(t.frames, p) <=> Owns(s.frames, p) \/ p = o
    BY <1>2, <1>4
  <1> DEFINE f == [on |-> x.on, owns |-> x.owns, buffers |-> DOMAIN x.buffers]
  <1>6. /\ t.content = [l \in Locations |-> IF l[1] = "host" /\ l[2] \in DOMAIN x.buffers
                                            THEN x.buffers[l[2]] ELSE s.content[l]]
        /\ t.frames = Append(s.frames, f)
        /\ t.busy = s.busy /\ t.alloc = s.alloc /\ t.impl = s.impl /\ t.streams = s.streams
        /\ t.uploaded = s.uploaded /\ t.neighbors = s.neighbors
    <2>1. x.do = "enter"
      BY <1>2
    <2> QED BY <1>1, <2>1, EnterFields
  <1>7. t.frames # <<>> /\ Last(t.frames) = f /\ Front(t.frames) = s.frames
    <2>1. s.frames \in Seq(FrameType) /\ f \in FrameType
      BY <1>2 DEF Sound, Shape, FrameType
    <2> HIDE DEF f
    <2> QED BY <1>6, <2>1, Pushed
  <1>8. \A l \in Searches \X Owned : t.content[l] = s.content[l]
    BY <1>6 DEF Locations, Searches
  <1>9. Last(t.frames).on = o /\ Last(t.frames).owns
    BY <1>2, <1>7
  <1>10. Linked(t)
    <2>1. CASE o = "self"
      BY <1>5, <1>6, <2>1 DEF Linked, Owns, Constructible
    <2>2. CASE o # "self"
      BY <1>4, <2>2 DEF Constructible
    <2> QED BY <2>1, <2>2
  <1>11. Legal(t)
    BY <1>4, <1>10 DEF Legal, Steady
  <1>12. /\ t.busy = {} /\ t.alloc = s.alloc /\ t.impl = s.impl /\ t.streams = s.streams
         /\ t.uploaded = s.uploaded /\ t.neighbors = s.neighbors
    BY <1>6
  <1>13. t.frames # <<>> /\ Front(t.frames) = s.frames
    BY <1>7
  <1>14. Moves(Owner(o), s, t)
    BY <1>1, <1>3
  <1> HIDE DEF f
  <1>15. Constructing(s, t, o)
    BY <1>5, <1>8, <1>9, <1>12, <1>13 DEF Constructing, Inside, Kept
  <1> QED BY <1>11, <1>14, <1>15

\* An assignment to the members of o: what is left to show.
LEMMA SetSound ==
    ASSUME NEW s, NEW t, NEW x, NEW o \in Searches, NEW f, NEW v, NEW m,
           x = Set(o, f, v), t = After(x, s), Sound(s), Held(s, o), s.busy = {},
           m = Assigned(s.impl[o], f, v), m \in MemberType(s.neighbors),
           m.scan_search = s.impl[o].scan_search, Equipped(t), Facts(t), KnnTrue(s) => KnnTrue(t)
    PROVE  Moves(x, s, t) /\ Sound(t)
  <1>1. x.do = "set" /\ x.on = o /\ x.field = f /\ x.value = v
    BY DEF Set
  <1>2. /\ t.impl = [s.impl EXCEPT ![o] = m]
        /\ t.alloc = s.alloc /\ t.content = s.content /\ t.streams = s.streams /\ t.live = s.live
        /\ t.frames = s.frames /\ t.busy = s.busy /\ t.uploaded = s.uploaded /\ t.neighbors = s.neighbors
    BY <1>1, SetFields
  <1>3. Shape(t)
    BY <1>2 DEF Sound, Shape
  <1>4. t.impl["self"].scan_search = s.impl["self"].scan_search /\ \A p \in Searches : p # o => t.impl[p] = s.impl[p]
    BY <1>2 DEF Sound, Shape, Searches
  <1>5. Ownership(t)
    <2>1. \A p : (Uses(t, p) <=> Uses(s, p)) /\ (Held(t, p) <=> Held(s, p))
      BY <1>2, <1>4 DEF Uses, Held
    <2> QED BY <1>2, <1>4, <2>1 DEF Sound, Ownership
  <1>6. Busy(t)
    BY <1>2 DEF Busy
  <1>7. Sound(t)
    BY <1>3, <1>5, <1>6 DEF Sound
  <1>8. t = AfterSet(x, s)
    BY <1>1 DEF After
  <1> QED BY <1>1, <1>7, <1>8 DEF Moves, Ok, OkSet

\* Everything but the members of o.
Rest(s, t, o) == /\ t.alloc = s.alloc /\ t.content = s.content /\ t.streams = s.streams /\ t.live = s.live
                 /\ t.frames = s.frames /\ t.busy = s.busy /\ t.uploaded = s.uploaded /\ t.neighbors = s.neighbors
                 /\ \A p \in Searches : p # o => t.impl[p] = s.impl[p]

LEMMA SetRest ==
    ASSUME NEW s, NEW t, NEW x, NEW o \in Searches, NEW f, NEW v, x = Set(o, f, v), t = After(x, s), Sound(s)
    PROVE  Rest(s, t, o) /\ t.impl[o] = Assigned(s.impl[o], f, v)
  <1>1. x.do = "set" /\ x.on = o /\ x.field = f /\ x.value = v
    BY DEF Set
  <1>2. /\ t.impl = [s.impl EXCEPT ![o] = Assigned(s.impl[o], f, v)]
        /\ t.alloc = s.alloc /\ t.content = s.content /\ t.streams = s.streams /\ t.live = s.live
        /\ t.frames = s.frames /\ t.busy = s.busy /\ t.uploaded = s.uploaded /\ t.neighbors = s.neighbors
    BY <1>1, SetFields
  <1> QED BY <1>2 DEF Rest, Sound, Shape

KnnBuffers == {"knn_indices", "knn_distances"}
KnnTrueOf(s, o) == s.impl[o].knn_capacity # 0 =>
                     \A b \in KnnBuffers : <<o, b>> \in DOMAIN s.alloc /\ s.alloc[<<o, b>>] >= s.impl[o].knn_capacity

LEMMA SetCapacity ==
    ASSUME NEW s, Sound(s), Linked(s), s.busy = {}, NEW o \in Searches, Held(s, o), NEW v \in s.neighbors,
           v # 0 => \A b \in KnnBuffers : <<o, b>> \in DOMAIN s.alloc /\ s.alloc[<<o, b>>] >= v,
           \A p \in Searches : p # o => KnnTrueOf(s, p)
    PROVE  \E t : /\ Moves(Set(o, "knn_capacity", v), s, t) /\ Legal(t) /\ Rest(s, t, o)
                  /\ t.impl[o] = Assigned(s.impl[o], "knn_capacity", v)
  <1>1. PICK x, t : x = Set(o, "knn_capacity", v) /\ t = After(x, s)
    OBVIOUS
  <1>2. Rest(s, t, o) /\ t.impl[o] = Assigned(s.impl[o], "knn_capacity", v)
    BY <1>1, SetRest
  <1> DEFINE m == Assigned(s.impl[o], "knn_capacity", v)
  <1>3. s.impl[o] \in MemberType(s.neighbors)
    BY DEF Sound, Shape
  <1>4. /\ m = [strategy |-> s.impl[o].strategy, resident |-> s.impl[o].resident, knn_capacity |-> v,
                covariance_neighbors |-> s.impl[o].covariance_neighbors, scan_count |-> s.impl[o].scan_count,
                has_scan_normals |-> s.impl[o].has_scan_normals, scan_search |-> s.impl[o].scan_search]
    BY AssignedFields
  <1>5. /\ m \in MemberType(s.neighbors) /\ m.knn_capacity = v
        /\ m.scan_search = s.impl[o].scan_search /\ m.resident = s.impl[o].resident
        /\ m.covariance_neighbors = s.impl[o].covariance_neighbors /\ m.strategy = s.impl[o].strategy
        /\ m.scan_count = s.impl[o].scan_count /\ m.has_scan_normals = s.impl[o].has_scan_normals
    BY <1>3, <1>4 DEF MemberType
  <1> HIDE DEF m
  <1>6. t.impl[o] = m
    BY <1>2 DEF m
  <1>7. \A p \in Searches : /\ t.impl[p].resident = s.impl[p].resident
                            /\ t.impl[p].covariance_neighbors = s.impl[p].covariance_neighbors
                            /\ t.impl[p].strategy = s.impl[p].strategy
                            /\ t.impl[p].scan_count = s.impl[p].scan_count
                            /\ t.impl[p].has_scan_normals = s.impl[p].has_scan_normals
                            /\ t.impl[p].scan_search = s.impl[p].scan_search
    BY <1>2, <1>5, <1>6 DEF Rest
  <1>8. Equipped(t)
    BY <1>2, <1>7 DEF Sound, Equipped, Rest
  <1>9. "self" \in Searches
    BY DEF Searches
  <1>10. Facts(t)
    <2>1. Present(t) <=> Present(s)
      BY <1>2 DEF Present, Rest
    <2>2. \A l : Settled(t, l) <=> Settled(s, l)
      BY <1>2, <1>7, <1>9 DEF Settled, Rest
    <2>3. \A l : Expected(t, l) = Expected(s, l)
      BY <1>2, <1>7, <1>9 DEF Expected, Rest
    <2> QED BY <1>2, <1>7, <1>9, <2>1, <2>2, <2>3 DEF Sound, Facts, Rest
  <1>11. KnnTrue(t)
    BY <1>2, <1>5, <1>6 DEF KnnTrue, KnnTrueOf, KnnBuffers, Rest
  <1>12. Moves(x, s, t) /\ Sound(t)
    BY <1>1, <1>5, <1>8, <1>10, <1>11, SetSound DEF m
  <1>13. Linked(t)
    BY <1>2, <1>7, <1>9 DEF Linked, Present, Rest
  <1> QED BY <1>1, <1>2, <1>11, <1>12, <1>13 DEF Legal, Steady

LEMMA AssignedTyped ==
    ASSUME NEW ks, NEW m \in MemberType(ks)
    PROVE  /\ \A v \in BOOLEAN : /\ Assigned(m, "resident", v) \in MemberType(ks)
                               /\ Assigned(m, "has_scan_normals", v) \in MemberType(ks)
           /\ \A k \in ks : /\ Assigned(m, "knn_capacity", k) \in MemberType(ks)
                          /\ Assigned(m, "covariance_neighbors", k) \in MemberType(ks)
           /\ \A n \in Nat : Assigned(m, "scan_count", n) \in MemberType(ks)
  <1>1. /\ m.strategy \in {"indexed", "tiled"} /\ m.resident \in BOOLEAN /\ m.knn_capacity \in ks
        /\ m.covariance_neighbors \in ks /\ m.scan_count \in Nat /\ m.has_scan_normals \in BOOLEAN
        /\ m.scan_search \in {"none", "a", "b"}
    BY DEF MemberType
  <1> QED BY <1>1, AssignedFields DEF MemberType

\* The workspace of o holds what it should.
Complete(s, o) == /\ \A b \in Workspace : <<o, b>> \in DOMAIN s.alloc
                  /\ o = "self" => /\ s.content[<<"self", "original_reference">>] = Origin
                                   /\ <<"self", "reference_normals">> \in DOMAIN s.alloc =>
                                        s.content[<<"self", "reference_normals">>] = {<<"reference_normals", 0>>}

LEMMA SetResident ==
    ASSUME NEW s, NEW o \in Searches, Sound(s), KnnTrue(s), s.busy = {}, Held(s, o), Complete(s, o)
    PROVE  \E t : /\ Moves(Set(o, "resident", TRUE), s, t) /\ Sound(t) /\ KnnTrue(t) /\ Rest(s, t, o)
                  /\ t.impl[o] = Assigned(s.impl[o], "resident", TRUE) /\ (Linked(s) => Linked(t))
  <1>1. PICK x, t : x = Set(o, "resident", TRUE) /\ t = After(x, s)
    OBVIOUS
  <1>2. "self" \in Searches
    BY DEF Searches
  <1>3. Rest(s, t, o) /\ t.impl[o] = Assigned(s.impl[o], "resident", TRUE)
    <2>1. x.do = "set" /\ x.on = o /\ x.field = "resident" /\ x.value = TRUE
      BY <1>1 DEF Set
    <2>2. x.do = "set" /\ t = After(x, s)
      BY <1>1, <2>1
    <2>3. /\ t.impl = [s.impl EXCEPT ![x.on] = Assigned(s.impl[x.on], x.field, x.value)]
          /\ t.alloc = s.alloc /\ t.content = s.content /\ t.streams = s.streams /\ t.live = s.live
          /\ t.frames = s.frames /\ t.busy = s.busy /\ t.uploaded = s.uploaded /\ t.neighbors = s.neighbors
      BY <2>2, SetFields
    <2> QED BY <2>1, <2>3 DEF Rest, Sound, Shape
  <1> DEFINE m == Assigned(s.impl[o], "resident", TRUE)
  <1>4. s.impl[o] \in MemberType(s.neighbors) /\ s.neighbors \subseteq Nat /\ 0 \in s.neighbors
    BY <1>2 DEF Sound, Shape
  <1>5. m = [strategy |-> s.impl[o].strategy, resident |-> TRUE,
                knn_capacity |-> s.impl[o].knn_capacity, covariance_neighbors |-> s.impl[o].covariance_neighbors,
                scan_count |-> s.impl[o].scan_count, has_scan_normals |-> s.impl[o].has_scan_normals,
                scan_search |-> s.impl[o].scan_search]
    BY AssignedFields
  <1>6. /\ m \in MemberType(s.neighbors) /\ m.resident = TRUE
        /\ m.strategy = s.impl[o].strategy /\ m.knn_capacity = s.impl[o].knn_capacity
        /\ m.covariance_neighbors = s.impl[o].covariance_neighbors /\ m.scan_count = s.impl[o].scan_count
        /\ m.has_scan_normals = s.impl[o].has_scan_normals /\ m.scan_search = s.impl[o].scan_search
    <2>1. m \in MemberType(s.neighbors)
      BY <1>4, AssignedTyped
    <2> HIDE DEF m
    <2> QED BY <1>5, <2>1
  <1> HIDE DEF m
  <1>7. t.impl[o] = m
    BY <1>3 DEF m
  <1>8. \A p \in Searches :
          /\ t.impl[p].strategy = s.impl[p].strategy
          /\ t.impl[p].knn_capacity = s.impl[p].knn_capacity
          /\ t.impl[p].covariance_neighbors = s.impl[p].covariance_neighbors
          /\ t.impl[p].scan_count = s.impl[p].scan_count
          /\ t.impl[p].has_scan_normals = s.impl[p].has_scan_normals
          /\ t.impl[p].scan_search = s.impl[p].scan_search
    BY <1>3, <1>6, <1>7 DEF Rest
  <1>9. KnnTrue(t)
    BY <1>3, <1>8 DEF KnnTrue, Rest
  <1>10. Present(t) <=> Present(s)
    BY <1>3 DEF Present, Rest
  <1>11. Equipped(t)
    BY <1>3, <1>6, <1>7, <1>8 DEF Sound, Equipped, Rest, Complete
  <1>12. Facts(t)
    <2> SUFFICES ASSUME Present(t) PROVE
          /\ <<"self", "queries">> \in DOMAIN t.alloc /\ <<"self", "indices">> \in DOMAIN t.alloc
          /\ \A l \in Searches \X Owned : Settled(t, l) => l \in DOMAIN t.alloc /\ t.content[l] = Expected(t, l)
          /\ t.impl["self"].scan_count # 0 => t.impl["self"].resident
          /\ t.impl["self"].covariance_neighbors = 0 => t.impl["self"].scan_search = "none"
          /\ t.impl["self"].covariance_neighbors # 0 /\ t.impl["self"].scan_count # 0 =>
               t.impl["self"].scan_search # "none"
      BY DEF Facts
    <2>1. Facts(s) /\ Present(s)
      BY <1>10 DEF Sound
    <2>2. \A l : Expected(t, l) = Expected(s, l)
      BY <1>2, <1>8 DEF Expected
    <2>3. ASSUME NEW l \in Searches \X Owned, Settled(t, l)
          PROVE  l \in DOMAIN t.alloc /\ t.content[l] = Expected(t, l)
      <3>1. CASE Settled(s, l)
        BY <1>3, <2>1, <2>2, <3>1 DEF Facts, Rest
      <3>2. CASE ~Settled(s, l)
        <4>1. /\ o = "self" /\ l[1] = "self"
              /\ l[2] = "original_reference" \/ (l[2] = "reference_normals" /\ l \in DOMAIN s.alloc)
          BY <1>2, <1>3, <1>8, <2>3, <3>2 DEF Settled, Rest
        <4>2. l = <<l[1], l[2]>>
          OBVIOUS
        <4>3. l \in DOMAIN s.alloc /\ s.content[l] = Expected(s, l)
          BY <4>1, <4>2 DEF Expected, Workspace, Complete
        <4> QED BY <1>3, <2>2, <4>3 DEF Rest
      <3> QED BY <3>1, <3>2
    <2>4. t.impl["self"].scan_count # 0 => t.impl["self"].resident
      BY <1>2, <1>3, <1>6, <1>7, <1>8, <2>1 DEF Facts, Rest
    <2> QED BY <1>2, <1>3, <1>8, <2>1, <2>3, <2>4 DEF Facts, Rest
  <1>13. Moves(x, s, t) /\ Sound(t)
    BY <1>1, <1>2, <1>6, <1>9, <1>11, <1>12, SetSound DEF m
  <1>14. Linked(s) => Linked(t)
    BY <1>2, <1>3, <1>8, <1>10 DEF Linked, Rest
  <1> QED BY <1>1, <1>3, <1>9, <1>13, <1>14

\* The covariances of o are complete.
LEMMA SetCovariance ==
    ASSUME NEW s, NEW o \in Searches, Sound(s), KnnTrue(s), s.busy = {}, Held(s, o), NEW k \in s.neighbors, k # 0,
           <<o, "covariances">> \in DOMAIN s.alloc, s.impl["self"].scan_count = 0,
           o = "self" => s.content[<<"self", "covariances">>] = Origin \union {<<"neighbors", k>>}
    PROVE  \E t : /\ Moves(Set(o, "covariance_neighbors", k), s, t) /\ Sound(t) /\ KnnTrue(t) /\ Rest(s, t, o)
                  /\ t.impl[o] = Assigned(s.impl[o], "covariance_neighbors", k) /\ (Linked(s) => Linked(t))
  <1>1. PICK x, t : x = Set(o, "covariance_neighbors", k) /\ t = After(x, s)
    OBVIOUS
  <1>2. "self" \in Searches
    BY DEF Searches
  <1>3. Rest(s, t, o) /\ t.impl[o] = Assigned(s.impl[o], "covariance_neighbors", k)
    BY <1>1, <1>2, SetRest
  <1> DEFINE m == Assigned(s.impl[o], "covariance_neighbors", k)
  <1>4. s.impl[o] \in MemberType(s.neighbors) /\ s.neighbors \subseteq Nat /\ 0 \in s.neighbors
    BY <1>2 DEF Sound, Shape
  <1>5. m = [strategy |-> s.impl[o].strategy, resident |-> s.impl[o].resident,
                knn_capacity |-> s.impl[o].knn_capacity, covariance_neighbors |-> k,
                scan_count |-> s.impl[o].scan_count, has_scan_normals |-> s.impl[o].has_scan_normals,
                scan_search |-> s.impl[o].scan_search]
    BY AssignedFields
  <1>6. /\ m \in MemberType(s.neighbors) /\ m.covariance_neighbors = k
        /\ m.strategy = s.impl[o].strategy /\ m.resident = s.impl[o].resident
        /\ m.knn_capacity = s.impl[o].knn_capacity /\ m.scan_count = s.impl[o].scan_count
        /\ m.has_scan_normals = s.impl[o].has_scan_normals /\ m.scan_search = s.impl[o].scan_search
    <2>1. m \in MemberType(s.neighbors)
      BY <1>4, AssignedTyped
    <2> HIDE DEF m
    <2> QED BY <1>5, <2>1
  <1> HIDE DEF m
  <1>7. t.impl[o] = m
    BY <1>3 DEF m
  <1>8. \A p \in Searches :
          /\ t.impl[p].strategy = s.impl[p].strategy
          /\ t.impl[p].resident = s.impl[p].resident
          /\ t.impl[p].knn_capacity = s.impl[p].knn_capacity
          /\ t.impl[p].scan_count = s.impl[p].scan_count
          /\ t.impl[p].has_scan_normals = s.impl[p].has_scan_normals
          /\ t.impl[p].scan_search = s.impl[p].scan_search
    BY <1>3, <1>6, <1>7 DEF Rest
  <1>9. KnnTrue(t)
    BY <1>3, <1>8 DEF KnnTrue, Rest
  <1>10. Present(t) <=> Present(s)
    BY <1>3 DEF Present, Rest
  <1>11. Equipped(t)
    BY <1>3, <1>6, <1>7, <1>8 DEF Sound, Equipped, Rest
  <1>12. Facts(t)
    <2> SUFFICES ASSUME Present(t) PROVE
          /\ <<"self", "queries">> \in DOMAIN t.alloc /\ <<"self", "indices">> \in DOMAIN t.alloc
          /\ \A l \in Searches \X Owned : Settled(t, l) => l \in DOMAIN t.alloc /\ t.content[l] = Expected(t, l)
          /\ t.impl["self"].scan_count # 0 => t.impl["self"].resident
          /\ t.impl["self"].covariance_neighbors = 0 => t.impl["self"].scan_search = "none"
          /\ t.impl["self"].covariance_neighbors # 0 /\ t.impl["self"].scan_count # 0 =>
               t.impl["self"].scan_search # "none"
      BY DEF Facts
    <2>1. Facts(s) /\ Present(s)
      BY <1>10 DEF Sound
    <2>2. t.impl["self"].scan_count = 0
      BY <1>2, <1>8
    <2>3. ASSUME NEW l \in Searches \X Owned, Settled(t, l)
          PROVE  l \in DOMAIN t.alloc /\ t.content[l] = Expected(t, l)
      <3>1. l[1] = "self" /\ l = <<l[1], l[2]>>
        BY <2>2, <2>3 DEF Settled
      <3>2. CASE o = "self" /\ l[2] = "covariances"
        <4>1. l \in DOMAIN s.alloc /\ s.content[l] = Origin \union {<<"neighbors", k>>}
          BY <3>1, <3>2
        <4>2. Expected(t, l) = Origin \union {<<"neighbors", k>>}
          BY <1>6, <1>7, <3>1, <3>2 DEF Expected
        <4> QED BY <1>3, <4>1, <4>2 DEF Rest
      <3>3. CASE o # "self"
        <4>1. t.impl["self"] = s.impl["self"]
          BY <1>2, <1>3, <3>3 DEF Rest
        <4>2. Settled(s, l) /\ Expected(t, l) = Expected(s, l)
          BY <1>3, <2>3, <4>1 DEF Settled, Expected, Rest
        <4> QED BY <1>3, <2>1, <4>2 DEF Facts, Rest
      <3>4. CASE l[2] # "covariances"
        <4>1. Settled(s, l) /\ Expected(t, l) = Expected(s, l)
          BY <1>2, <1>3, <1>8, <2>2, <2>3, <3>1, <3>4 DEF Settled, Expected, Rest
        <4> QED BY <1>3, <2>1, <4>1 DEF Facts, Rest
      <3> QED BY <3>2, <3>3, <3>4
    <2>4. t.impl["self"].covariance_neighbors = 0 => t.impl["self"].scan_search = "none"
      BY <1>2, <1>3, <1>6, <1>7, <1>8, <2>1 DEF Facts, Rest
    <2> QED BY <1>3, <2>1, <2>2, <2>3, <2>4 DEF Facts, Rest
  <1>13. Moves(x, s, t) /\ Sound(t)
    BY <1>1, <1>2, <1>6, <1>9, <1>11, <1>12, SetSound DEF m
  <1>14. Linked(s) => Linked(t)
    BY <1>2, <1>3, <1>8, <1>10 DEF Linked, Rest
  <1> QED BY <1>1, <1>3, <1>9, <1>13, <1>14

\* No scan counts.
LEMMA SetNoScan ==
    ASSUME NEW s, Sound(s), KnnTrue(s), s.busy = {}, Held(s, "self")
    PROVE  \E t : /\ Moves(Set("self", "scan_count", 0), s, t) /\ Sound(t) /\ KnnTrue(t) /\ Rest(s, t, "self")
                  /\ t.impl["self"] = Assigned(s.impl["self"], "scan_count", 0)
                  /\ Present(s) => Linked(t)
  <1>1. PICK x, t : x = Set("self", "scan_count", 0) /\ t = After(x, s)
    OBVIOUS
  <1>2. "self" \in Searches
    BY DEF Searches
  <1>3. Rest(s, t, "self") /\ t.impl["self"] = Assigned(s.impl["self"], "scan_count", 0)
    BY <1>1, <1>2, SetRest
  <1> DEFINE m == Assigned(s.impl["self"], "scan_count", 0)
  <1>4. s.impl["self"] \in MemberType(s.neighbors) /\ s.neighbors \subseteq Nat /\ 0 \in s.neighbors
    BY <1>2 DEF Sound, Shape
  <1>5. m = [strategy |-> s.impl["self"].strategy, resident |-> s.impl["self"].resident,
                knn_capacity |-> s.impl["self"].knn_capacity, covariance_neighbors |-> s.impl["self"].covariance_neighbors,
                scan_count |-> 0, has_scan_normals |-> s.impl["self"].has_scan_normals,
                scan_search |-> s.impl["self"].scan_search]
    BY AssignedFields
  <1>6. /\ m \in MemberType(s.neighbors) /\ m.scan_count = 0
        /\ m.strategy = s.impl["self"].strategy /\ m.resident = s.impl["self"].resident
        /\ m.knn_capacity = s.impl["self"].knn_capacity /\ m.covariance_neighbors = s.impl["self"].covariance_neighbors
        /\ m.has_scan_normals = s.impl["self"].has_scan_normals /\ m.scan_search = s.impl["self"].scan_search
    <2>1. m \in MemberType(s.neighbors)
      BY <1>4, AssignedTyped
    <2> HIDE DEF m
    <2> QED BY <1>5, <2>1
  <1> HIDE DEF m
  <1>7. t.impl["self"] = m
    BY <1>3 DEF m
  <1>8. \A p \in Searches :
          /\ t.impl[p].strategy = s.impl[p].strategy
          /\ t.impl[p].resident = s.impl[p].resident
          /\ t.impl[p].knn_capacity = s.impl[p].knn_capacity
          /\ t.impl[p].covariance_neighbors = s.impl[p].covariance_neighbors
          /\ t.impl[p].has_scan_normals = s.impl[p].has_scan_normals
          /\ t.impl[p].scan_search = s.impl[p].scan_search
    BY <1>3, <1>6, <1>7 DEF Rest
  <1>9. KnnTrue(t)
    BY <1>3, <1>8 DEF KnnTrue, Rest
  <1>10. Present(t) <=> Present(s)
    BY <1>3 DEF Present, Rest
  <1>11. Equipped(t)
    BY <1>3, <1>6, <1>7, <1>8 DEF Sound, Equipped, Rest
  <1>12. Facts(t)
    <2> SUFFICES ASSUME Present(t) PROVE
          /\ <<"self", "queries">> \in DOMAIN t.alloc /\ <<"self", "indices">> \in DOMAIN t.alloc
          /\ \A l \in Searches \X Owned : Settled(t, l) => l \in DOMAIN t.alloc /\ t.content[l] = Expected(t, l)
          /\ t.impl["self"].scan_count # 0 => t.impl["self"].resident
          /\ t.impl["self"].covariance_neighbors = 0 => t.impl["self"].scan_search = "none"
          /\ t.impl["self"].covariance_neighbors # 0 /\ t.impl["self"].scan_count # 0 =>
               t.impl["self"].scan_search # "none"
      BY DEF Facts
    <2>1. Facts(s) /\ Present(s)
      BY <1>10 DEF Sound
    <2>2. t.impl["self"].scan_count = 0
      BY <1>6, <1>7
    <2>3. ASSUME NEW l \in Searches \X Owned, Settled(t, l)
          PROVE  l \in DOMAIN t.alloc /\ t.content[l] = Expected(t, l)
      <3>1. Settled(s, l) /\ Expected(t, l) = Expected(s, l)
        BY <1>2, <1>3, <1>8, <2>2, <2>3 DEF Settled, Expected, Rest
      <3> QED BY <1>3, <2>1, <3>1 DEF Facts, Rest
    <2> QED BY <1>2, <1>3, <1>8, <2>1, <2>2, <2>3 DEF Facts, Rest
  <1>13. Moves(x, s, t) /\ Sound(t)
    BY <1>1, <1>2, <1>6, <1>9, <1>11, <1>12, SetSound DEF m
  <1>14. Present(s) => Linked(t)
    BY <1>6, <1>7, <1>10 DEF Linked
  <1> QED BY <1>1, <1>3, <1>9, <1>13, <1>14

\* Whether the scan has normals; none counts yet.
LEMMA SetNormals ==
    ASSUME NEW s, Sound(s), KnnTrue(s), s.busy = {}, Held(s, "self"), NEW v \in BOOLEAN,
           s.impl["self"].scan_count = 0
    PROVE  \E t : /\ Moves(Set("self", "has_scan_normals", v), s, t) /\ Sound(t) /\ KnnTrue(t) /\ Rest(s, t, "self")
                  /\ t.impl["self"] = Assigned(s.impl["self"], "has_scan_normals", v) /\ (Linked(s) => Linked(t))
  <1>1. PICK x, t : x = Set("self", "has_scan_normals", v) /\ t = After(x, s)
    OBVIOUS
  <1>2. "self" \in Searches
    BY DEF Searches
  <1>3. Rest(s, t, "self") /\ t.impl["self"] = Assigned(s.impl["self"], "has_scan_normals", v)
    BY <1>1, <1>2, SetRest
  <1> DEFINE m == Assigned(s.impl["self"], "has_scan_normals", v)
  <1>4. s.impl["self"] \in MemberType(s.neighbors) /\ s.neighbors \subseteq Nat /\ 0 \in s.neighbors
    BY <1>2 DEF Sound, Shape
  <1>5. m = [strategy |-> s.impl["self"].strategy, resident |-> s.impl["self"].resident,
                knn_capacity |-> s.impl["self"].knn_capacity, covariance_neighbors |-> s.impl["self"].covariance_neighbors,
                scan_count |-> s.impl["self"].scan_count, has_scan_normals |-> v,
                scan_search |-> s.impl["self"].scan_search]
    BY AssignedFields
  <1>6. /\ m \in MemberType(s.neighbors) /\ m.has_scan_normals = v
        /\ m.strategy = s.impl["self"].strategy /\ m.resident = s.impl["self"].resident
        /\ m.knn_capacity = s.impl["self"].knn_capacity /\ m.covariance_neighbors = s.impl["self"].covariance_neighbors
        /\ m.scan_count = s.impl["self"].scan_count /\ m.scan_search = s.impl["self"].scan_search
    <2>1. m \in MemberType(s.neighbors)
      BY <1>4, AssignedTyped
    <2> HIDE DEF m
    <2> QED BY <1>5, <2>1
  <1> HIDE DEF m
  <1>7. t.impl["self"] = m
    BY <1>3 DEF m
  <1>8. \A p \in Searches :
          /\ t.impl[p].strategy = s.impl[p].strategy
          /\ t.impl[p].resident = s.impl[p].resident
          /\ t.impl[p].knn_capacity = s.impl[p].knn_capacity
          /\ t.impl[p].covariance_neighbors = s.impl[p].covariance_neighbors
          /\ t.impl[p].scan_count = s.impl[p].scan_count
          /\ t.impl[p].scan_search = s.impl[p].scan_search
    BY <1>3, <1>6, <1>7 DEF Rest
  <1>9. KnnTrue(t)
    BY <1>3, <1>8 DEF KnnTrue, Rest
  <1>10. Present(t) <=> Present(s)
    BY <1>3 DEF Present, Rest
  <1>11. Equipped(t)
    BY <1>3, <1>6, <1>7, <1>8 DEF Sound, Equipped, Rest
  <1>12. Facts(t)
    <2> SUFFICES ASSUME Present(t) PROVE
          /\ <<"self", "queries">> \in DOMAIN t.alloc /\ <<"self", "indices">> \in DOMAIN t.alloc
          /\ \A l \in Searches \X Owned : Settled(t, l) => l \in DOMAIN t.alloc /\ t.content[l] = Expected(t, l)
          /\ t.impl["self"].scan_count # 0 => t.impl["self"].resident
          /\ t.impl["self"].covariance_neighbors = 0 => t.impl["self"].scan_search = "none"
          /\ t.impl["self"].covariance_neighbors # 0 /\ t.impl["self"].scan_count # 0 =>
               t.impl["self"].scan_search # "none"
      BY DEF Facts
    <2>1. Facts(s) /\ Present(s)
      BY <1>10 DEF Sound
    <2>2. t.impl["self"].scan_count = 0
      BY <1>2, <1>8
    <2>3. ASSUME NEW l \in Searches \X Owned, Settled(t, l)
          PROVE  l \in DOMAIN t.alloc /\ t.content[l] = Expected(t, l)
      <3>1. Settled(s, l) /\ Expected(t, l) = Expected(s, l)
        BY <1>2, <1>3, <1>8, <2>2, <2>3 DEF Settled, Expected, Rest
      <3> QED BY <1>3, <2>1, <3>1 DEF Facts, Rest
    <2> QED BY <1>2, <1>3, <1>8, <2>1, <2>2, <2>3 DEF Facts, Rest
  <1>13. Moves(x, s, t) /\ Sound(t)
    BY <1>1, <1>2, <1>6, <1>9, <1>11, <1>12, SetSound DEF m
  <1>14. Linked(s) => Linked(t)
    BY <1>2, <1>3, <1>8, <1>10 DEF Linked, Rest
  <1> QED BY <1>1, <1>3, <1>9, <1>13, <1>14

\* The scan uploaded last counts from here on.
LEMMA SetScan ==
    ASSUME NEW s, Sound(s), KnnTrue(s), s.busy = {}, Held(s, "self"), NEW n \in Nat,
           s.impl["self"].resident, s.content[<<"self", "scan">>] = {<<"scan", n>>},
           s.impl["self"].has_scan_normals => s.content[<<"self", "scan_normals">>] = {<<"normals", n>>},
           s.impl["self"].covariance_neighbors # 0 =>
             /\ s.impl["self"].scan_search # "none"
             /\ <<s.impl["self"].scan_search, "covariances">> \in DOMAIN s.alloc
             /\ s.content[<<s.impl["self"].scan_search, "covariances">>] =
                  {<<"scan", n>>, <<"neighbors", s.impl["self"].covariance_neighbors>>},
           s.impl["self"].scan_count = 0
    PROVE  \E t : /\ Moves(Set("self", "scan_count", n), s, t) /\ Sound(t) /\ KnnTrue(t) /\ Rest(s, t, "self")
                  /\ t.impl["self"] = Assigned(s.impl["self"], "scan_count", n)
  <1>1. PICK x, t : x = Set("self", "scan_count", n) /\ t = After(x, s)
    OBVIOUS
  <1>2. "self" \in Searches
    BY DEF Searches
  <1>3. Rest(s, t, "self") /\ t.impl["self"] = Assigned(s.impl["self"], "scan_count", n)
    BY <1>1, <1>2, SetRest
  <1> DEFINE m == Assigned(s.impl["self"], "scan_count", n)
  <1>4. s.impl["self"] \in MemberType(s.neighbors) /\ s.neighbors \subseteq Nat /\ 0 \in s.neighbors
    BY <1>2 DEF Sound, Shape
  <1>5. m = [strategy |-> s.impl["self"].strategy, resident |-> s.impl["self"].resident,
                knn_capacity |-> s.impl["self"].knn_capacity, covariance_neighbors |-> s.impl["self"].covariance_neighbors,
                scan_count |-> n, has_scan_normals |-> s.impl["self"].has_scan_normals,
                scan_search |-> s.impl["self"].scan_search]
    BY AssignedFields
  <1>6. /\ m \in MemberType(s.neighbors) /\ m.scan_count = n
        /\ m.strategy = s.impl["self"].strategy /\ m.resident = s.impl["self"].resident
        /\ m.knn_capacity = s.impl["self"].knn_capacity /\ m.covariance_neighbors = s.impl["self"].covariance_neighbors
        /\ m.has_scan_normals = s.impl["self"].has_scan_normals /\ m.scan_search = s.impl["self"].scan_search
    <2>1. m \in MemberType(s.neighbors)
      BY <1>4, AssignedTyped
    <2> HIDE DEF m
    <2> QED BY <1>5, <2>1
  <1> HIDE DEF m
  <1>7. t.impl["self"] = m
    BY <1>3 DEF m
  <1>8. \A p \in Searches :
          /\ t.impl[p].strategy = s.impl[p].strategy
          /\ t.impl[p].resident = s.impl[p].resident
          /\ t.impl[p].knn_capacity = s.impl[p].knn_capacity
          /\ t.impl[p].covariance_neighbors = s.impl[p].covariance_neighbors
          /\ t.impl[p].has_scan_normals = s.impl[p].has_scan_normals
          /\ t.impl[p].scan_search = s.impl[p].scan_search
    BY <1>3, <1>6, <1>7 DEF Rest
  <1>9. KnnTrue(t)
    BY <1>3, <1>8 DEF KnnTrue, Rest
  <1>10. Present(t) <=> Present(s)
    BY <1>3 DEF Present, Rest
  <1>11. Equipped(t)
    BY <1>3, <1>6, <1>7, <1>8 DEF Sound, Equipped, Rest
  <1>12. Facts(t)
    <2> SUFFICES ASSUME Present(t) PROVE
          /\ <<"self", "queries">> \in DOMAIN t.alloc /\ <<"self", "indices">> \in DOMAIN t.alloc
          /\ \A l \in Searches \X Owned : Settled(t, l) => l \in DOMAIN t.alloc /\ t.content[l] = Expected(t, l)
          /\ t.impl["self"].scan_count # 0 => t.impl["self"].resident
          /\ t.impl["self"].covariance_neighbors = 0 => t.impl["self"].scan_search = "none"
          /\ t.impl["self"].covariance_neighbors # 0 /\ t.impl["self"].scan_count # 0 =>
               t.impl["self"].scan_search # "none"
      BY DEF Facts
    <2>1. Facts(s) /\ Present(s)
      BY <1>10 DEF Sound
    <2>2. t.impl["self"].scan_count = n
      BY <1>6, <1>7
    <2>3. <<"self", "scan">> \in DOMAIN s.alloc /\ <<"self", "scan_normals">> \in DOMAIN s.alloc
      BY <1>2 DEF Sound, Equipped, Workspace
    <2>5. t.impl["self"].scan_search # "self"
      <3>1. s.impl["self"].scan_search \in {"none", "a", "b"}
        BY <1>2 DEF Sound, Shape, MemberType
      <3> QED BY <1>2, <1>8, <3>1
    <2>4. ASSUME NEW l \in Searches \X Owned, Settled(t, l)
          PROVE  l \in DOMAIN t.alloc /\ t.content[l] = Expected(t, l)
      <3>1. l = <<l[1], l[2]>>
        OBVIOUS
      <3>2. CASE l[1] = "self" /\ l[2] = "scan"
        <4>1. Expected(t, l) = {<<"scan", n>>}
          BY <2>2, <3>2 DEF Expected
        <4> QED BY <1>3, <2>3, <3>1, <3>2, <4>1 DEF Rest
      <3>3. CASE l[1] = "self" /\ l[2] = "scan_normals"
        <4>1. Expected(t, l) = {<<"normals", n>>}
          BY <2>2, <3>3 DEF Expected
        <4>2. s.impl["self"].has_scan_normals
          <5>1. t.impl["self"].has_scan_normals \/ l[1] # "self"
            BY <2>4, <3>3, <2>5 DEF Settled
          <5> QED BY <1>2, <1>8, <3>3, <5>1
        <4> QED BY <1>3, <2>3, <3>1, <3>3, <4>1, <4>2 DEF Rest
      <3>4. CASE l[1] # "self"
        <4>1. l = <<s.impl["self"].scan_search, "covariances">> /\ s.impl["self"].scan_search # "none"
          BY <1>2, <1>8, <2>4, <3>4 DEF Settled
        <4>2. s.impl["self"].covariance_neighbors # 0
          BY <2>1, <4>1 DEF Facts
        <4>3. Expected(t, l) = {<<"scan", n>>, <<"neighbors", s.impl["self"].covariance_neighbors>>}
          BY <1>2, <1>8, <2>2, <3>4 DEF Expected
        <4> QED BY <1>3, <4>1, <4>2, <4>3 DEF Rest
      <3>5. CASE l[1] = "self" /\ l[2] \notin {"scan", "scan_normals"}
        <4>1. Settled(s, l)
          <5>1. l # <<t.impl["self"].scan_search, "covariances">>
            BY <2>5, <3>5
          <5> QED BY <1>2, <1>3, <1>8, <2>4, <3>5, <5>1 DEF Settled, Rest
        <4>2. Expected(t, l) = Expected(s, l)
          BY <1>2, <1>8, <3>5 DEF Expected
        <4> QED BY <1>3, <2>1, <4>1, <4>2 DEF Facts, Rest
      <3> QED BY <3>2, <3>3, <3>4, <3>5
    <2> QED BY <1>2, <1>3, <1>6, <1>7, <1>8, <2>1, <2>4 DEF Facts, Rest
  <1>13. Moves(x, s, t) /\ Sound(t)
    BY <1>1, <1>2, <1>6, <1>9, <1>11, <1>12, SetSound DEF m
  <1> QED BY <1>1, <1>3, <1>9, <1>13

\* The scope that owns the next scan_search hands it over.
Adopted(s, t, o) ==
    /\ t.busy = {} /\ t.frames = Front(s.frames) /\ Present(t)
    /\ t.impl["self"] = Assigned(s.impl["self"], "scan_search", o) /\ t.impl[o] = s.impl[o]
    /\ \A l \in DOMAIN s.alloc : l[1] # s.impl["self"].scan_search => l \in DOMAIN t.alloc /\ t.alloc[l] = s.alloc[l]
    /\ \A l \in DOMAIN t.alloc : l \in DOMAIN s.alloc
    /\ t.content = s.content /\ t.uploaded = s.uploaded /\ t.neighbors = s.neighbors
    /\ s.impl["self"].scan_search # o

LEMMA DoAdopt ==
    ASSUME NEW s, Legal(s), s.busy = {}, NEW o \in {"a", "b"}, s.frames # <<>>, Last(s.frames).owns,
           Last(s.frames).on = o, ~Owns(Front(s.frames), o), Present(s),
           s.impl["self"].scan_count = 0, s.impl["self"].covariance_neighbors # 0
    PROVE  \E t : Moves(Adopt(o), s, t) /\ Legal(t) /\ Adopted(s, t, o)
  <1>1. PICK x, t : x = Adopt(o) /\ t = After(x, s)
    OBVIOUS
  <1>2. x.do = "adopt" /\ x.on = o
    BY <1>1 DEF Adopt
  <1>3. Moves(x, s, t)
    BY <1>1, <1>2 DEF Moves, Ok, OkAdopt
  <1>4. /\ Legal(t) /\ t.impl["self"] = Assigned(s.impl["self"], "scan_search", o) /\ t.impl[o] = s.impl[o]
    BY <1>2, <1>3, AdoptSound DEF Legal, Steady
  <1> DEFINE old == s.impl["self"].scan_search
  <1>5. /\ t.alloc = [l \in {m \in DOMAIN s.alloc : m[1] # old} |-> s.alloc[l]]
        /\ t.streams = s.streams \ {old}
        /\ t.frames = Front(s.frames) /\ t.busy = s.busy /\ t.content = s.content
        /\ t.uploaded = s.uploaded /\ t.neighbors = s.neighbors
    <2> HIDE DEF old
    <2>1. x.do = "adopt" /\ t = After(x, s)
      BY <1>1, <1>2
    <2>2. /\ t.alloc = [l \in {m \in DOMAIN s.alloc : m[1] # s.impl["self"].scan_search} |-> s.alloc[l]]
          /\ t.streams = s.streams \ {s.impl["self"].scan_search}
      BY <2>1 DEF After, AfterAdopt, Machine
    <2>3. /\ t.frames = Front(s.frames) /\ t.busy = s.busy /\ t.content = s.content
          /\ t.uploaded = s.uploaded /\ t.neighbors = s.neighbors
      BY <2>1 DEF After, AfterAdopt, Machine
    <2> QED BY <2>2, <2>3 DEF old
  <1>6. s.frames \in Seq(FrameType) /\ old \in {"none", "a", "b"}
    BY DEF Legal, Sound, Shape, MemberType, Searches
  <1>7. old # o
    <2>1. Owns(s.frames, o)
      BY <1>6, Popped
    <2> QED BY <2>1 DEF Legal, Sound, Ownership, Searches
  <1>8. Present(t)
    <2>1. ~Owns(t.frames, "self")
      BY <1>5, <1>6, Popped DEF Present
    <2> QED BY <1>5, <1>6, <2>1 DEF Present
  <1> HIDE DEF old
  <1>9. /\ \A l \in DOMAIN s.alloc : l[1] # old => l \in DOMAIN t.alloc /\ t.alloc[l] = s.alloc[l]
        /\ \A l \in DOMAIN t.alloc : l \in DOMAIN s.alloc
    BY <1>5
  <1>10. /\ \A l \in DOMAIN s.alloc : l[1] # s.impl["self"].scan_search => l \in DOMAIN t.alloc /\ t.alloc[l] = s.alloc[l]
         /\ s.impl["self"].scan_search # o
    BY <1>7, <1>9 DEF old
  <1>11. Adopted(s, t, o)
    BY <1>4, <1>5, <1>8, <1>9, <1>10 DEF Adopted
  <1> QED BY <1>1, <1>3, <1>4, <1>11

LEMMA DoCopy ==
    ASSUME NEW s, Legal(s), s.busy = {}, NEW from \in Locations, NEW b \in HostBuffers
    PROVE  \E t : /\ Moves(Copy(from, OnHost(b)), s, t) /\ Legal(t) /\ Fixed(s, t) /\ Kept(s, t) /\ t.busy = {}
                  /\ t.content[OnHost(b)] = s.content[from]
  <1>1. PICK x, t : x = Copy(from, OnHost(b)) /\ t = After(x, s)
    OBVIOUS
  <1>2. x.do = "copy" /\ x.from = from /\ x.to = OnHost(b)
    BY <1>1 DEF Copy
  <1>3. OnHost(b) \in {"host"} \X HostBuffers /\ OnHost(b) \in Locations
    BY DEF OnHost, Locations
  <1>4. Moves(x, s, t)
    BY <1>1, <1>2, <1>3 DEF Moves, Ok, OkCopy, Legal
  <1>5. Sound(t) /\ Steady(t)
    BY <1>2, <1>4, CopySound DEF Legal, Steady
  <1>6. /\ t.content = [l \in Locations |-> IF l = x.to THEN s.content[x.from] ELSE s.content[l]]
        /\ Fixed(s, t) /\ t.busy = {} /\ t.alloc = s.alloc
    BY <1>1, <1>2, CopyFields DEF Fixed
  <1>7. \A l \in Searches \X Owned : l \in Locations /\ l # OnHost(b)
    BY DEF Locations, OnHost, Searches
  <1>8. t.content[OnHost(b)] = s.content[from] /\ \A l \in Searches \X Owned : t.content[l] = s.content[l]
    BY <1>2, <1>3, <1>6, <1>7
  <1>9. Kept(s, t)
    BY <1>6, <1>8 DEF Kept, Fixed
  <1> QED BY <1>1, <1>4, <1>5, <1>6, <1>8, <1>9 DEF Legal

\* The constructor of self returns: from here on the search is there.
Constructed(s) ==
    LET m == s.impl["self"] IN
    /\ s.frames # <<>> /\ Last(s.frames).owns /\ Last(s.frames).on = "self" /\ Front(s.frames) = <<>>
    /\ "self" \in s.streams /\ m.scan_search = "none" /\ m.covariance_neighbors = 0 /\ m.scan_count = 0 /\ ~m.resident
    /\ <<"self", "queries">> \in DOMAIN s.alloc /\ <<"self", "indices">> \in DOMAIN s.alloc
    /\ \A b \in {"reference"} \union (IF m.strategy = "indexed" THEN {"nodes", "original_indices"} ELSE {}) :
         <<"self", b>> \in DOMAIN s.alloc /\ s.content[<<"self", b>>] = Origin

LEMMA LeaveConstructor ==
    ASSUME NEW s, Legal(s), s.busy = {}, Constructed(s)
    PROVE  \E t : /\ Moves(Leave, s, t) /\ Legal(t) /\ Present(t) /\ t.busy = {} /\ t.frames = <<>>
                  /\ t.impl = s.impl
  <1>1. PICK x, t : x = Leave /\ t = After(x, s)
    OBVIOUS
  <1>2. x.do = "leave"
    BY <1>1 DEF Leave
  <1>3. /\ t.live = s.live \ Last(s.frames).buffers /\ t.frames = <<>>
        /\ t.content = s.content /\ t.busy = s.busy /\ t.alloc = s.alloc /\ t.impl = s.impl
        /\ t.streams = s.streams /\ t.neighbors = s.neighbors /\ t.uploaded = s.uploaded
    BY <1>1, <1>2, LeaveFields DEF Constructed
  <1>4. \A o : ~Owns(t.frames, o)
    BY <1>3 DEF Owns
  <1>5. Present(t)
    BY <1>3, <1>4 DEF Present, Constructed
  <1>6. s.frames \in Seq(FrameType)
    BY DEF Legal, Sound, Shape
  <1>7. \A o : Owns(s.frames, o) => o = "self"
    <2>1. \A o : ~Owns(Front(s.frames), o)
      BY DEF Owns, Constructed
    <2> QED BY <1>6, <2>1, Popped DEF Constructed
  <1>8. Owns(s.frames, "self")
    BY <1>6, Popped DEF Constructed
  <1>9. Shape(t)
    <2>1. <<>> \in Seq(FrameType)
      OBVIOUS
    <2> QED BY <1>3, <2>1 DEF Legal, Sound, Shape
  <1>10. Ownership(t)
    <2>1. \A o \in Searches : Held(t, o) <=> o = "self"
      BY <1>3, <1>4 DEF Held, Searches, Constructed
    <2>2. \A o \in Searches : Held(s, o) <=> o = "self"
      BY <1>7, <1>8 DEF Held
    <2>3. \A o \in Searches : Uses(t, o) => Held(t, o)
      BY <1>3, <2>1, <2>2 DEF Legal, Sound, Ownership, Uses
    <2>4. \A o \in Searches : ~Held(t, o) => t.impl[o] = Blank
      BY <1>3, <2>1, <2>2 DEF Legal, Sound, Ownership
    <2> QED BY <1>3, <1>4, <2>3, <2>4 DEF Ownership
  <1>11. Busy(t) /\ Equipped(t) /\ KnnTrue(t)
    BY <1>3 DEF Legal, Steady, Sound, Busy, Equipped, KnnTrue
  <1>12. Facts(t)
    <2>1. ASSUME NEW l \in Searches \X Owned, Settled(t, l)
          PROVE  l \in DOMAIN t.alloc /\ t.content[l] = Expected(t, l)
      <3>1. l = <<"self", l[2]>> /\ (l[2] = "reference" \/ (l[2] \in {"nodes", "original_indices"} /\ s.impl["self"].strategy = "indexed"))
        BY <1>3, <2>1 DEF Settled, Constructed
      <3>2. l \in DOMAIN s.alloc /\ s.content[l] = Origin
        BY <3>1 DEF Constructed
      <3>3. Expected(t, l) = Origin
        BY <3>1 DEF Expected
      <3> QED BY <1>3, <3>2, <3>3
    <2> QED BY <1>3, <2>1 DEF Facts, Constructed
  <1>13. Sound(t)
    BY <1>9, <1>10, <1>11, <1>12 DEF Sound
  <1>14. OkLeave(x, s)
    <2>1. t = AfterLeave(x, s)
      BY <1>1, <1>2 DEF After
    <2> QED BY <1>13, <2>1 DEF OkLeave, Constructed
  <1>15. Moves(Leave, s, t)
    BY <1>1, <1>2, <1>14 DEF Moves, Ok
  <1>16. Legal(t)
    BY <1>3, <1>5, <1>11, <1>13 DEF Legal, Steady, Linked, Constructed
  <1> QED BY <1>3, <1>5, <1>15, <1>16

\* A script whose steps before or after some point ask the device.
LEMMA RunsWorks ==
    ASSUME NEW p, NEW q, NEW s, NEW m, NEW t, Runs(p, s, m), Runs(q, m, t), Works(p) \/ Works(q)
    PROVE  Runs(p \o q, s, t) /\ Works(p \o q)
  <1>1. PICK S : p \in Seq(S)
    BY DEF Runs
  <1>2. PICK T : q \in Seq(T)
    BY DEF Runs
  <1>3. Works(p \o q)
    BY <1>1, <1>2, WorksConcat
  <1> QED BY <1>3, RunsConcat

LEMMA RunsSequence ==
    ASSUME NEW p, NEW s, NEW t, Runs(p, s, t)
    PROVE  \E S : p \in Seq(S)
  BY DEF Runs

LEMMA UnionSame ==
    ASSUME NEW c, NEW F, F # {}, NEW B, \A m \in F : c[m] = B
    PROVE  UNION {c[m] : m \in F} = B
  OBVIOUS

LEMMA UnionOne ==
    ASSUME NEW c, NEW l
    PROVE  UNION {c[m] : m \in {l}} = c[l]
  OBVIOUS

LEMMA UnionBoth ==
    ASSUME NEW c, NEW F, NEW G
    PROVE  UNION {c[m] : m \in F \union G} = (UNION {c[m] : m \in F}) \union (UNION {c[m] : m \in G})
  OBVIOUS

LEMMA Places ==
    /\ \A o \in Searches, b \in Owned : /\ <<o, b>> \in Locations /\ <<o, b>> \in Searches \X Owned
                                        /\ <<o, b>>[1] = o /\ <<o, b>>[2] = b /\ o # "host"
    /\ \A b \in HostBuffers : /\ OnHost(b) \in Locations /\ OnHost(b)[1] = "host" /\ OnHost(b)[2] = b
                              /\ OnHost(b) \notin Searches \X Owned
    /\ \A l \in Locations : l \in Searches \X Owned \/ l[1] = "host"
  BY DEF Locations, OnHost, Searches

\* Machines that have come out of a submission or a wait are equal if their
\* fields are.
LEMMA SameMachine ==
    ASSUME NEW x, NEW y, NEW s, NEW t, NEW u, NEW v, Moves(x, s, t), Moves(y, u, v),
           x.do \in {"submit", "sync"}, y.do \in {"submit", "sync"},
           Fixed(t, v), t.alloc = v.alloc, t.busy = v.busy, Sound(t), Sound(v),
           \A l \in Locations : t.content[l] = v.content[l]
    PROVE  t = v
  <1>1. t = Machine(t.alloc, t.content, t.streams, t.impl, t.live, t.frames, t.busy, t.uploaded, t.neighbors)
    BY DEF Moves, After, AfterSubmit, AfterSync, Machine
  <1>2. v = Machine(v.alloc, v.content, v.streams, v.impl, v.live, v.frames, v.busy, v.uploaded, v.neighbors)
    BY DEF Moves, After, AfterSubmit, AfterSync, Machine
  <1>3. t.content = v.content
    BY DEF Sound, Shape
  <1> QED BY <1>1, <1>2, <1>3 DEF Fixed

-----------------------------------------------------------------------------
(***************************************************************************)
(* Batches                                                                 *)
(***************************************************************************)
Flattens(q, g) == g = [i \in 1 .. Len(q) |-> IF i = 1 THEN q[i] ELSE g[i - 1] \o q[i]]

LEMMA FlattenUnfolds ==
    ASSUME NEW q, Len(q) # 0
    PROVE  FlattenSeq(q) = (CHOOSE g : Flattens(q, g))[Len(q)]
  BY DEF FlattenSeq, Flattens

LEMMA FlattenExists ==
    ASSUME NEW q, Len(q) \in Nat
    PROVE  \E g : Flattens(q, g)
  <1> DEFINE n == Len(q)
             upto(m, g) == \A i \in 1 .. n : i <= m => g[i] = IF i = 1 THEN q[i] ELSE g[i - 1] \o q[i]
             Reached == {m \in Nat : \E g : g = [i \in 1 .. n |-> g[i]] /\ upto(m, g)}
  <1>1. 0 \in Reached
    <2> DEFINE g == [i \in 1 .. n |-> 0]
    <2>1. g = [i \in 1 .. n |-> g[i]]
      OBVIOUS
    <2>2. upto(0, g)
      <3>1. \A i \in 1 .. n : ~(i <= 0)
        OBVIOUS
      <3> QED BY <3>1
    <2> HIDE DEF g, upto
    <2> QED BY <2>1, <2>2
  <1>2. ASSUME NEW m \in Reached PROVE m + 1 \in Reached
    <2>1. PICK g : g = [i \in 1 .. n |-> g[i]] /\ upto(m, g)
      OBVIOUS
    <2>2. m \in Nat
      OBVIOUS
    <2> DEFINE h == [i \in 1 .. n |-> IF i <= m THEN g[i] ELSE IF i = 1 THEN q[i] ELSE g[i - 1] \o q[i]]
    <2>3. ASSUME NEW i \in 1 .. n, i <= m + 1
          PROVE  h[i] = IF i = 1 THEN q[i] ELSE h[i - 1] \o q[i]
      <3>1. h[i] = IF i = 1 THEN q[i] ELSE g[i - 1] \o q[i]
        BY <2>1
      <3>2. CASE i # 1
        <4>1. i - 1 \in 1 .. n /\ i - 1 <= m
          BY <2>2, <2>3, <3>2
        <4>2. h[i - 1] = g[i - 1]
          BY <4>1
        <4> QED BY <3>1, <3>2, <4>2
      <3> QED BY <3>1, <3>2
    <2>4. h = [i \in 1 .. n |-> h[i]]
      OBVIOUS
    <2> HIDE DEF h
    <2>5. upto(m + 1, h)
      BY <2>3
    <2> HIDE DEF upto
    <2> QED BY <2>2, <2>4, <2>5
  <1>3. Reached = Nat
    <2>1. Reached \in SUBSET Nat
      OBVIOUS
    <2> HIDE DEF Reached
    <2> QED BY <1>1, <1>2, <2>1, NaturalsReached
  <1>4. n \in Reached
    BY <1>3
  <1>5. PICK g : g = [i \in 1 .. n |-> g[i]] /\ upto(n, g)
    BY <1>4
  <1>6. \A i \in 1 .. n : g[i] = IF i = 1 THEN q[i] ELSE g[i - 1] \o q[i]
    <2>1. \A i \in 1 .. n : i <= n
      OBVIOUS
    <2> QED BY <1>5, <2>1
  <1>7. Flattens(q, g)
    BY <1>5, <1>6 DEF Flattens
  <1> QED BY <1>7

\* Steps that change nothing the second time run once for every batch.
LEMMA BatchesRun ==
    ASSUME NEW steps, NEW s, NEW t, Runs(steps, s, t), Runs(steps, t, t), Works(steps),
           call.session.batches \in Nat \ {0}
    PROVE  Runs(InBatches(steps), s, t) /\ Works(InBatches(steps))
  <1> DEFINE n == call.session.batches
             q == [b \in 1 .. n |-> steps]
  <1>1. PICK S : steps \in Seq(S)
    BY DEF Runs
  <1>2. n \in Nat /\ n >= 1
    OBVIOUS
  <1>3. Len(q) = n
    <2>1. q \in Seq(Seq(S))
      BY <1>1, <1>2
    <2> QED BY <1>2, <2>1
  <1> HIDE DEF n
  <1>4. PICK g : Flattens(q, g)
    <2>1. Len(q) \in Nat
      BY <1>2, <1>3
    <2> HIDE DEF q
    <2> QED BY <2>1, FlattenExists
  <1> DEFINE c == CHOOSE h : Flattens(q, h)
  <1>5. Flattens(q, c)
    BY <1>4
  <1> HIDE DEF c
  <1>6. \A i \in 1 .. n : c[i] = IF i = 1 THEN steps ELSE c[i - 1] \o steps
    BY <1>3, <1>5 DEF Flattens
  <1> DEFINE T == {i \in Nat : i + 1 <= n => Runs(c[i + 1], s, t) /\ Works(c[i + 1])}
  <1>7. 0 \in T
    <2>1. 0 + 1 = 1 /\ 1 \in 1 .. n
      BY <1>2
    <2>2. c[1] = steps
      BY <1>6, <2>1
    <2> QED BY <2>1, <2>2
  <1>8. ASSUME NEW i \in T PROVE i + 1 \in T
    <2> SUFFICES ASSUME (i + 1) + 1 <= n PROVE Runs(c[(i + 1) + 1], s, t) /\ Works(c[(i + 1) + 1])
      OBVIOUS
    <2>1. i \in Nat /\ i + 1 <= n /\ (i + 1) + 1 \in 1 .. n /\ (i + 1) + 1 # 1 /\ ((i + 1) + 1) - 1 = i + 1
      BY <1>2
    <2>2. Runs(c[i + 1], s, t)
      BY <2>1
    <2>3. c[(i + 1) + 1] = c[i + 1] \o steps
      BY <1>6, <2>1
    <2> QED BY <2>2, <2>3, RunsWorks
  <1>9. T = Nat
    <2> HIDE DEF T
    <2>1. T \in SUBSET Nat
      BY DEF T
    <2> QED BY <1>7, <1>8, <2>1, NaturalsReached
  <1>10. n - 1 \in Nat /\ (n - 1) + 1 = n
    BY <1>2
  <1>11. Runs(c[n], s, t) /\ Works(c[n])
    BY <1>9, <1>10
  <1>12. InBatches(steps) = c[n]
    <2>1. InBatches(steps) = FlattenSeq(q)
      BY DEF InBatches, n
    <2>2. Len(q) # 0
      BY <1>2, <1>3
    <2> HIDE DEF q
    <2>3. FlattenSeq(q) = c[Len(q)]
      BY <2>2, FlattenUnfolds DEF c
    <2> QED BY <1>3, <2>1, <2>3
  <1> QED BY <1>11, <1>12

LEMMA ScopeFields ==
    /\ \A b, v : DOMAIN Scope(b, v) = {b} /\ Scope(b, v)[b] = v
    /\ \A b, v, c, w : /\ DOMAIN Scopes(b, v, c, w) = {b, c} /\ Scopes(b, v, c, w)[b] = v
                       /\ b # c => Scopes(b, v, c, w)[c] = w
  BY DEF Scope, Scopes

\* What a call may write without spoiling what later calls read.
Scratch == {"queries", "indices", "transformed", "equations", "equation", "knn_indices", "knn_distances",
            "invalid_covariance"}

LEMMA Unsettled ==
    ASSUME NEW s, NEW o \in Searches, NEW b \in Owned,
           b # "covariances" \/ o # s.impl["self"].scan_search \/ s.impl["self"].scan_count = 0,
           \/ o # "self"
           \/ b \in Scratch
           \/ b \in {"original_reference", "reference_normals"} /\ ~s.impl["self"].resident
           \/ b = "covariances" /\ s.impl["self"].covariance_neighbors = 0
           \/ b \in {"scan", "scan_normals"} /\ s.impl["self"].scan_count = 0
    PROVE  ~Settled(s, <<o, b>>)
  <1>1. <<o, b>>[1] = o /\ <<o, b>>[2] = b
    OBVIOUS
  <1>2. <<o, b>> # <<s.impl["self"].scan_search, "covariances">> \/ s.impl["self"].scan_count = 0
    OBVIOUS
  <1> QED BY <1>1, <1>2 DEF Settled, Scratch

\* What a constructor allocates, and which of it holds the reference.
Packed(strategy) == {"reference"} \union (IF strategy = "indexed" THEN {"nodes", "original_indices"} ELSE {})

\* u is s with the buffers N of o allocated.
Grown(s, u, o, N) == /\ Fixed(s, u) /\ u.busy = s.busy
                     /\ DOMAIN u.alloc = DOMAIN s.alloc \union {<<o, b>> : b \in N}
                     /\ \A l \in DOMAIN s.alloc : u.alloc[l] = s.alloc[l]
                     /\ \A l \in Locations : l \notin {<<o, b>> : b \in N} => u.content[l] = s.content[l]

LEMMA GrownNone ==
    ASSUME NEW s, NEW o
    PROVE  Grown(s, s, o, {})
  BY DEF Grown, Fixed

LEMMA Grow ==
    ASSUME NEW s, NEW u, NEW o \in Searches, NEW N, Legal(u), Grown(s, u, o, N), Held(s, o),
           NEW b \in Owned, b \notin N, <<o, b>> \notin DOMAIN s.alloc,
           b \in AfterScan => "scan" \in N \/ <<o, "scan">> \in DOMAIN s.alloc,
           b = "reference_normals" /\ o = "self" => ~s.impl["self"].resident
    PROVE  \E v : Moves(Malloc(o, b, 1), u, v) /\ Legal(v) /\ Grown(s, v, o, N \union {b})
  <1>1. Fixed(s, u) /\ DOMAIN u.alloc = DOMAIN s.alloc \union {<<o, c>> : c \in N}
    BY DEF Grown
  <1>2. Held(u, o)
    BY <1>1, FixedHeld
  <1>3. <<o, b>> \notin DOMAIN u.alloc
    BY <1>1
  <1>4. b \in AfterScan => <<o, "scan">> \in DOMAIN u.alloc
    BY <1>1
  <1>5. b = "reference_normals" /\ o = "self" => ~u.impl["self"].resident
    BY <1>1 DEF Fixed
  <1>6. 1 \in Nat
    OBVIOUS
  <1>7. PICK v : Moves(Malloc(o, b, 1), u, v) /\ Legal(v) /\ Allocated(u, v, o, b, 1)
    BY <1>2, <1>3, <1>4, <1>5, <1>6, DoMalloc
  <1>8. Grown(s, v, o, N \union {b})
    <2>1. Fixed(s, v) /\ v.busy = s.busy
      BY <1>7 DEF Grown, Allocated, Fixed
    <2>2. DOMAIN v.alloc = DOMAIN s.alloc \union {<<o, c>> : c \in N \union {b}}
      BY <1>1, <1>7 DEF Allocated
    <2>3. \A l \in DOMAIN s.alloc : v.alloc[l] = s.alloc[l]
      BY <1>1, <1>7 DEF Grown, Allocated
    <2>4. \A l \in Locations : l \notin {<<o, c>> : c \in N \union {b}} => v.content[l] = s.content[l]
      BY <1>7 DEF Grown, Allocated
    <2> QED BY <2>1, <2>2, <2>3, <2>4 DEF Grown
  <1> QED BY <1>7, <1>8

Built(s, t, o, strategy, B) ==
    /\ Inside(s, t, o) /\ Last(t.frames).owns /\ t.busy = {}
    /\ \A p : Owns(t.frames, p) <=> Owns(s.frames, p) \/ p = o
    /\ DOMAIN t.alloc = DOMAIN s.alloc \union {<<o, b>> : b \in Packed(strategy) \union {"queries", "indices"}}
    /\ \A b \in Packed(strategy) : t.content[<<o, b>>] = B
    /\ \A l \in Searches \X Owned : l[1] # o => t.content[l] = s.content[l]
    /\ t.streams = s.streams \union {o} /\ t.impl = s.impl
    /\ t.uploaded = s.uploaded /\ t.neighbors = s.neighbors

LEMMA ConstructorRuns ==
    ASSUME NEW s, Sound(s), KnnTrue(s), s.busy = {}, NEW o \in Searches, Constructible(s, o),
           NEW strategy \in {"indexed", "tiled"}, NEW B
    PROVE  \E t : /\ Runs(Constructor(o, strategy, B), s, t) /\ Works(Constructor(o, strategy, B))
                  /\ Legal(t) /\ Built(s, t, o, strategy, B)
  <1>1. PICK s1 : Moves(Owner(o), s, s1) /\ Legal(s1) /\ Constructing(s, s1, o)
    BY DoOwner
  <1> DEFINE packed == Scope("packed", B)
  <1>2. DOMAIN packed = {"packed"} /\ packed["packed"] = B /\ DOMAIN packed \subseteq HostBuffers
    <2>1. DOMAIN packed = {"packed"} /\ packed["packed"] = B
      BY ScopeFields
    <2> QED BY <2>1 DEF HostBuffers
  <1> HIDE DEF packed
  <1>3. PICK s2 : Moves(Try(o, packed), s1, s2) /\ Legal(s2) /\ Entered(s1, s2, o, packed)
    <2>1. s1.busy = {}
      BY <1>1 DEF Constructing
    <2> QED BY <1>1, <1>2, <2>1, DoTry
  <1>4. Owns(s2.frames, o)
    BY <1>1, <1>3 DEF Entered, SameOwners, Constructing
  <1>5. PICK s3 : Moves(CreateStream(o), s2, s3) /\ Legal(s3) /\ Streamed(s2, s3, o)
    BY <1>3, <1>4, DoStream
  <1> DEFINE B1 == OnHost("packed")
  <1>6. /\ s3.content[B1] = B /\ "packed" \in s3.live /\ o \in s3.streams
        /\ Ready(s3, o) /\ Front(s3.frames) = s1.frames /\ ~Last(s3.frames).owns
        /\ \A l \in Searches \X Owned : s3.content[l] = s.content[l]
        /\ s3.alloc = s.alloc /\ s3.streams = s.streams \union {o} /\ s3.impl = s.impl
        /\ s3.uploaded = s.uploaded /\ s3.neighbors = s.neighbors /\ s3.busy = {}
    <2>1. s2.content[B1] = B /\ "packed" \in s2.live
      BY <1>2, <1>3 DEF Entered
    <2>2. \A l \in Searches \X Owned : s3.content[l] = s.content[l]
      BY <1>1, <1>3, <1>5 DEF Constructing, Entered, Streamed, Kept
    <2> QED BY <1>1, <1>3, <1>5, <2>1, <2>2 DEF Constructing, Entered, Streamed, Ready, Inside, Kept
  <1>7. Held(s3, o)
    BY <1>4, <1>5 DEF Held, Streamed
  <1>8. \A b : <<o, b>> \notin DOMAIN s3.alloc
    BY <1>6 DEF Constructible, Uses
  <1>9. ASSUME NEW u, Fixed(s3, u) PROVE Held(u, o) /\ (Present(u) => \A b \in Packed(strategy) : ~Settled(u, <<o, b>>))
    <2>1. Held(u, o)
      BY <1>7, <1>9, FixedHeld
    <2>2. CASE o = "self"
      <3>1. Owns(u.frames, "self")
        BY <1>4, <1>5, <1>9, <2>2 DEF Streamed, Fixed
      <3> QED BY <2>1, <3>1 DEF Present
    <2>3. CASE o # "self"
      <3>1. ASSUME NEW b \in Packed(strategy) PROVE ~Settled(u, <<o, b>>)
        <4>1. b \in Owned /\ b # "covariances"
          BY DEF Packed, Owned
        <4> QED BY <2>3, <4>1, Unsettled
      <3> QED BY <2>1, <3>1
    <2> QED BY <2>2, <2>3
  <1>10. {"reference", "queries", "indices", "nodes", "original_indices"} \subseteq Owned
         /\ ~(\E b \in {"reference", "queries", "indices", "nodes", "original_indices"} : b \in AfterScan)
    BY DEF Owned, AfterScan
  <1>11. PICK s4 : Moves(Malloc(o, "reference", 1), s3, s4) /\ Legal(s4) /\ Grown(s3, s4, o, {} \union {"reference"})
    BY <1>5, <1>7, <1>8, <1>10, GrownNone, Grow
  <1>12. PICK s5 : Moves(Malloc(o, "queries", 1), s4, s5) /\ Legal(s5) /\ Grown(s3, s5, o, {"reference"} \union {"queries"})
    BY ZenonT(40), <1>7, <1>8, <1>10, <1>11, Grow
  <1>13. PICK s6 : /\ Moves(Malloc(o, "indices", 1), s5, s6) /\ Legal(s6)
                   /\ Grown(s3, s6, o, {"reference", "queries"} \union {"indices"})
    BY ZenonT(40), <1>7, <1>8, <1>10, <1>12, Grow
  <1>14. /\ Fixed(s3, s6) /\ Ready(s6, o) /\ o \in s6.streams /\ s6.content[B1] = B /\ "packed" \in s6.live
         /\ <<o, "reference">> \in DOMAIN s6.alloc
    BY <1>6, <1>13, Places DEF Grown, Fixed, Ready, HostBuffers
  <1> DEFINE packing(b) == Submit(o, {B1}, {}, {<<o, b>>}, 0)
  <1>15. ASSUME NEW u, Legal(u), Fixed(s3, u), u.content[B1] = B, NEW b \in Packed(strategy),
                <<o, b>> \in DOMAIN u.alloc
         PROVE  \E v : /\ Moves(packing(b), u, v) /\ Legal(v) /\ Fixed(s3, v) /\ v.alloc = u.alloc /\ v.busy = {o}
                       /\ v.content[<<o, b>>] = B
                       /\ \A l \in Locations : l # <<o, b>> => v.content[l] = u.content[l]
    <2>1. b \in Owned /\ b \notin {"knn_indices", "knn_distances"}
      BY DEF Packed, Owned
    <2>2. "packed" \in HostBuffers /\ B1 \in Locations /\ B1[1] = "host" /\ B1[2] = "packed"
      BY Places DEF HostBuffers
    <2>3. <<o, b>> \in Locations /\ <<o, b>>[1] # "host" /\ <<o, b>>[2] = b
      BY <2>1, Places
    <2>4. Operands(u, {B1}, {<<o, b>>}, 0)
      <3>1. "packed" \in u.live
        BY <1>6, <1>15 DEF Fixed
      <3>2. Present(u) => ~Settled(u, <<o, b>>)
        BY <1>9, <1>15
      <3> QED BY <1>15, <2>1, <2>2, <2>3, <3>1, <3>2 DEF Operands
    <2>5. Ready(u, o) /\ o \in u.streams
      BY <1>6, <1>15 DEF Ready, Fixed
    <2>6. PICK v : Moves(packing(b), u, v) /\ Legal(v) /\ Written(u, v, o, {B1}, {}, {<<o, b>>})
      BY <1>15, <2>4, <2>5, DoSubmit
    <2>7. v.content[<<o, b>>] = B
      <3>1. v.content[<<o, b>>] = {} \union UNION {u.content[m] : m \in {B1}}
        BY <2>6 DEF Written
      <3> QED BY <1>15, <3>1, UnionOne
    <2>8. Fixed(s3, v) /\ v.alloc = u.alloc /\ v.busy = {o} /\ \A l \in Locations : l # <<o, b>> => v.content[l] = u.content[l]
      BY <1>15, <2>6 DEF Written, Fixed
    <2> QED BY <2>6, <2>7, <2>8
  <1>16. "reference" \in Packed(strategy)
    BY DEF Packed
  <1>17. PICK s7 : /\ Moves(packing("reference"), s6, s7) /\ Legal(s7) /\ Fixed(s3, s7) /\ s7.alloc = s6.alloc
                   /\ s7.busy = {o} /\ s7.content[<<o, "reference">>] = B
                   /\ \A l \in Locations : l # <<o, "reference">> => s7.content[l] = s6.content[l]
    <2> HIDE DEF packing, B1
    <2> QED BY <1>13, <1>14, <1>15, <1>16
  <1>18. /\ DOMAIN s7.alloc = DOMAIN s.alloc \union {<<o, b>> : b \in {"reference", "queries", "indices"}}
         /\ s7.content[B1] = B
         /\ \A l \in Searches \X Owned : l[1] # o => s7.content[l] = s.content[l]
    <2>1. {"reference", "queries"} \union {"indices"} = {"reference", "queries", "indices"}
      OBVIOUS
    <2>2. DOMAIN s7.alloc = DOMAIN s.alloc \union {<<o, b>> : b \in {"reference", "queries", "indices"}}
      BY <1>6, <1>13, <1>17, <2>1 DEF Grown
    <2>3. B1 \in Locations /\ B1 # <<o, "reference">>
      BY <1>10, Places DEF HostBuffers
    <2>4. s7.content[B1] = B
      BY <1>14, <1>17, <2>3
    <2>5. ASSUME NEW l \in Searches \X Owned, l[1] # o PROVE s7.content[l] = s.content[l]
      <3>1. l \in Locations /\ \A b : l # <<o, b>>
        BY <2>5 DEF Locations
      <3> QED BY <1>6, <1>13, <1>17, <3>1 DEF Grown
    <2> QED BY <2>2, <2>4, <2>5
  <1> DEFINE p1 == <<Owner(o), Try(o, packed), CreateStream(o), Malloc(o, "reference", 1), Malloc(o, "queries", 1),
                     Malloc(o, "indices", 1), packing("reference")>>
             p2 == <<Malloc(o, "nodes", 1), Malloc(o, "original_indices", 1), packing("nodes"), packing("original_indices")>>
             Done(v) == /\ Legal(v) /\ Fixed(s3, v) /\ v.busy = {o}
                        /\ DOMAIN v.alloc = DOMAIN s.alloc \union {<<o, b>> : b \in Packed(strategy) \union {"queries", "indices"}}
                        /\ \A b \in Packed(strategy) : v.content[<<o, b>>] = B
                        /\ \A l \in Searches \X Owned : l[1] # o => v.content[l] = s.content[l]
  <1>19. Runs(p1, s, s7) /\ Works(p1)
    <2> HIDE DEF packing
    <2>1. Runs(p1, s, s7)
      BY <1>1, <1>3, <1>5, <1>11, <1>12, <1>13, <1>17, RunsSeven
    <2>2. 4 \in DOMAIN p1 /\ p1[4].do = "malloc"
      BY DEF Malloc
    <2> QED BY <2>1, <2>2 DEF Works
  <1>20. \E v : Runs(Optional(strategy = "indexed", p2), s7, v) /\ Done(v)
    <2>1. CASE strategy # "indexed"
      <3>1. Packed(strategy) = {"reference"}
        BY <2>1 DEF Packed
      <3>2. {"reference"} \union {"queries", "indices"} = {"reference", "queries", "indices"}
        OBVIOUS
      <3>3. Done(s7)
        BY <1>17, <1>18, <3>1, <3>2
      <3>4. Optional(strategy = "indexed", p2) = <<>>
        BY <2>1 DEF Optional
      <3> QED BY <3>3, <3>4, RunsNone
    <2>2. CASE strategy = "indexed"
      <3>1. Packed(strategy) = {"reference", "nodes", "original_indices"}
        BY <2>2 DEF Packed
      <3>2. /\ Held(s7, o) /\ <<o, "nodes">> \notin DOMAIN s7.alloc /\ <<o, "original_indices">> \notin DOMAIN s7.alloc
        BY <1>6, <1>8, <1>9, <1>17, <1>18
      <3>3. PICK s8 : Moves(Malloc(o, "nodes", 1), s7, s8) /\ Legal(s8) /\ Grown(s7, s8, o, {} \union {"nodes"})
        BY <1>10, <1>17, <3>2, GrownNone, Grow
      <3>4. PICK s9 : /\ Moves(Malloc(o, "original_indices", 1), s8, s9) /\ Legal(s9)
                      /\ Grown(s7, s9, o, {"nodes"} \union {"original_indices"})
        BY ZenonT(40), <1>10, <3>2, <3>3, Grow
      <3>5. /\ Fixed(s3, s9) /\ s9.content[B1] = B /\ s9.content[<<o, "reference">>] = B
            /\ DOMAIN s9.alloc = DOMAIN s7.alloc \union {<<o, b>> : b \in {"nodes", "original_indices"}}
            /\ \A l \in Searches \X Owned : l[1] # o => s9.content[l] = s.content[l]
        <4>1. {"nodes"} \union {"original_indices"} = {"nodes", "original_indices"}
          OBVIOUS
        <4>2. Fixed(s3, s9)
          BY <1>17, <3>4 DEF Grown, Fixed
        <4>3. B1 \in Locations /\ \A b \in Owned : B1 # <<o, b>>
          BY Places DEF HostBuffers
        <4>4. s9.content[B1] = B
          BY <1>10, <1>18, <3>4, <4>1, <4>3 DEF Grown
        <4>5. <<o, "reference">> \in Locations /\ <<o, "reference">> \notin {<<o, b>> : b \in {"nodes", "original_indices"}}
          BY <1>10, Places
        <4>6. s9.content[<<o, "reference">>] = B
          BY <1>17, <3>4, <4>1, <4>5 DEF Grown
        <4>7. ASSUME NEW l \in Searches \X Owned, l[1] # o PROVE s9.content[l] = s.content[l]
          <5>1. l \in Locations /\ \A b : l # <<o, b>>
            BY <4>7 DEF Locations
          <5> QED BY <1>18, <3>4, <4>7, <5>1 DEF Grown
        <4> QED BY <3>4, <4>1, <4>2, <4>4, <4>6, <4>7 DEF Grown
      <3>6. PICK s10 : /\ Moves(packing("nodes"), s9, s10) /\ Legal(s10) /\ Fixed(s3, s10) /\ s10.alloc = s9.alloc
                       /\ s10.busy = {o} /\ s10.content[<<o, "nodes">>] = B
                       /\ \A l \in Locations : l # <<o, "nodes">> => s10.content[l] = s9.content[l]
        <4>1. "nodes" \in Packed(strategy) /\ <<o, "nodes">> \in DOMAIN s9.alloc
          BY <3>1, <3>5
        <4>2. Legal(s9) /\ Fixed(s3, s9) /\ s9.content[B1] = B
          BY <3>4, <3>5
        <4> HIDE DEF packing, B1
        <4> QED BY <1>15, <4>1, <4>2
      <3>7. B1 \in Locations /\ B1 # <<o, "nodes">> /\ B1 # <<o, "original_indices">>
        BY <1>10, Places DEF HostBuffers
      <3>8. s10.content[B1] = B
        BY <3>5, <3>6, <3>7
      <3>9. PICK s11 : /\ Moves(packing("original_indices"), s10, s11) /\ Legal(s11) /\ Fixed(s3, s11)
                       /\ s11.alloc = s10.alloc /\ s11.busy = {o} /\ s11.content[<<o, "original_indices">>] = B
                       /\ \A l \in Locations : l # <<o, "original_indices">> => s11.content[l] = s10.content[l]
        <4>1. "original_indices" \in Packed(strategy) /\ <<o, "original_indices">> \in DOMAIN s10.alloc
          BY <3>1, <3>5, <3>6
        <4> HIDE DEF packing, B1
        <4> QED BY <1>15, <3>6, <3>8, <4>1
      <3>10. Done(s11)
        <4>1. DOMAIN s11.alloc = DOMAIN s.alloc \union {<<o, b>> : b \in Packed(strategy) \union {"queries", "indices"}}
          BY <1>18, <3>1, <3>5, <3>6, <3>9
        <4>2. \A b, c \in Owned : <<o, b>> \in Locations /\ (b # c => <<o, b>> # <<o, c>>)
          BY Places
        <4>3. \A b \in Packed(strategy) : s11.content[<<o, b>>] = B
          BY <1>10, <3>1, <3>5, <3>6, <3>9, <4>2
        <4>4. ASSUME NEW l \in Searches \X Owned, l[1] # o PROVE s11.content[l] = s.content[l]
          <5>1. l \in Locations /\ \A b : l # <<o, b>>
            BY <4>4 DEF Locations
          <5> QED BY <3>5, <3>6, <3>9, <4>4, <5>1
        <4> QED BY <3>9, <4>1, <4>3, <4>4
      <3>11. Runs(p2, s7, s11)
        BY <3>3, <3>4, <3>6, <3>9, RunsFour
      <3>12. Optional(strategy = "indexed", p2) = p2
        BY <2>2 DEF Optional
      <3> QED BY <3>10, <3>11, <3>12
    <2> QED BY <2>1, <2>2
  <1>21. PICK v : Runs(Optional(strategy = "indexed", p2), s7, v) /\ Done(v)
    BY <1>20
  <1>22. Ready(v, o)
    BY <1>6, <1>21 DEF Ready, Fixed
  <1>23. PICK w : Moves(Sync(o), v, w) /\ Legal(w) /\ Waited(v, w)
    BY <1>21, <1>22, DoSync
  <1>24. w.frames = s3.frames /\ w.busy = {}
    BY <1>21, <1>23 DEF Waited, Fixed
  <1>25. PICK t : Moves(Leave, w, t) /\ Sound(t) /\ KnnTrue(t) /\ (Linked(w) => Linked(t)) /\ Left(w, t)
    <2>1. w.frames # <<>> /\ ~Last(w.frames).owns
      BY <1>6, <1>24 DEF Ready
    <2> QED BY <1>23, <1>24, <2>1, DoLeave DEF Legal, Steady
  <1>26. Legal(t)
    BY <1>23, <1>25 DEF Legal, Steady
  <1>27. Built(s, t, o, strategy, B)
    <2>1. t.frames = s1.frames /\ t.busy = {} /\ t.streams = s.streams \union {o} /\ t.impl = s.impl
          /\ t.uploaded = s.uploaded /\ t.neighbors = s.neighbors /\ t.alloc = v.alloc /\ t.content = v.content
      BY <1>6, <1>21, <1>23, <1>24, <1>25 DEF Left, Waited, Fixed
    <2> QED BY <1>1, <1>21, <2>1 DEF Built, Constructing, Inside
  <1>28. Runs(<<Sync(o), Leave>>, v, t)
    BY <1>23, <1>25, RunsTwo
  <1>29. Constructor(o, strategy, B) = (p1 \o Optional(strategy = "indexed", p2)) \o <<Sync(o), Leave>>
    BY DEF Constructor, packed, B1
  <1> HIDE DEF p1, p2
  <1>30. Runs(p1 \o Optional(strategy = "indexed", p2), s, v) /\ Works(p1 \o Optional(strategy = "indexed", p2))
    BY <1>19, <1>21, RunsWorks
  <1>31. Runs(Constructor(o, strategy, B), s, t) /\ Works(Constructor(o, strategy, B))
    BY <1>28, <1>29, <1>30, RunsWorks
  <1> QED BY <1>26, <1>27, <1>31

\* o is packed and idle, and its workspace is still to be allocated.
Unprepared(s, o, strategy, B) ==
    /\ Legal(s) /\ s.busy = {} /\ o \in Searches /\ o \in s.streams /\ Held(s, o) /\ ~s.impl[o].resident
    /\ strategy \in {"indexed", "tiled"}
    /\ \A b \in Workspace \union {"reference_normals"} : <<o, b>> \notin DOMAIN s.alloc
    /\ \A b \in Packed(strategy) : <<o, b>> \in DOMAIN s.alloc /\ s.content[<<o, b>>] = B
    /\ o = "self" => B = Origin

NormalsOf(normals) == IF normals THEN {"reference_normals"} ELSE {}

Prepared(s, t, o, normals, B) ==
    /\ t.busy = {} /\ t.frames = s.frames /\ SameOwners(s, t) /\ t.streams = s.streams
    /\ t.uploaded = s.uploaded /\ t.neighbors = s.neighbors
    /\ t.impl[o] = Assigned(s.impl[o], "resident", TRUE)
    /\ \A p \in Searches : p # o => t.impl[p] = s.impl[p]
    /\ DOMAIN t.alloc = DOMAIN s.alloc \union {<<o, b>> : b \in Workspace \union NormalsOf(normals)}
    /\ t.content[<<o, "original_reference">>] = B
    /\ \A l \in Searches \X Owned :
         l \notin {<<o, b>> : b \in Workspace \union {"reference_normals"}} => t.content[l] = s.content[l]

LEMMA PrepareResidentRuns ==
    ASSUME NEW s, NEW o, NEW strategy, NEW B, Unprepared(s, o, strategy, B), NEW normals \in BOOLEAN
    PROVE  \E t : /\ Runs(PrepareResident(o, strategy, normals), s, t) /\ Works(PrepareResident(o, strategy, normals))
                  /\ Legal(t) /\ Prepared(s, t, o, normals, B)
  <1> DEFINE N == {<<"reference_normals", 0>>}
             held == Scope("normals", N)
             H == OnHost("normals")
             O == <<o, "original_reference">>
  <1>1. /\ Legal(s) /\ s.busy = {} /\ o \in Searches /\ o \in s.streams /\ Held(s, o) /\ ~s.impl[o].resident
        /\ strategy \in {"indexed", "tiled"}
    BY DEF Unprepared
  <1>2. DOMAIN held = {"normals"} /\ held["normals"] = N /\ DOMAIN held \subseteq HostBuffers
    <2>1. DOMAIN held = {"normals"} /\ held["normals"] = N
      BY ScopeFields
    <2> QED BY <2>1 DEF HostBuffers
  <1>3. Workspace \union {"reference_normals", "original_indices", "reference"} \subseteq Owned
        /\ {"original_reference", "reference_normals", "scan"} \intersect AfterScan = {}
        /\ Workspace = {"original_reference", "scan", "scan_normals", "transformed", "equations", "equation"}
    BY DEF Workspace, Owned, AfterScan
  <1> HIDE DEF held
  <1>4. PICK s1 : Moves(Try(o, held), s, s1) /\ Legal(s1) /\ Entered(s, s1, o, held)
    BY <1>1, <1>2, DoTry
  <1>5. /\ Ready(s1, o) /\ Front(s1.frames) = s.frames /\ ~Last(s1.frames).owns
        /\ \A p : Held(s1, p) <=> Held(s, p)
        /\ s1.alloc = s.alloc /\ s1.impl = s.impl /\ s1.streams = s.streams /\ s1.uploaded = s.uploaded
        /\ s1.neighbors = s.neighbors /\ s1.busy = {} /\ "normals" \in s1.live /\ s1.content[H] = N
        /\ \A l \in Searches \X Owned : s1.content[l] = s.content[l]
    <2>1. "normals" \in s1.live /\ s1.content[H] = N
      BY <1>2, <1>4 DEF Entered
    <2> QED BY <1>4, <2>1 DEF Entered, Inside, Kept, SameOwners, Ready
  <1>6. /\ \A b \in Workspace \union {"reference_normals"} : <<o, b>> \notin DOMAIN s1.alloc
        /\ \A b \in Packed(strategy) : <<o, b>> \in DOMAIN s1.alloc /\ s1.content[<<o, b>>] = B
        /\ Held(s1, o) /\ ~s1.impl[o].resident
    <2>1. Packed(strategy) \subseteq Owned
      BY DEF Packed, Owned
    <2>2. \A b \in Packed(strategy) : <<o, b>> \in DOMAIN s.alloc /\ s.content[<<o, b>>] = B
      BY DEF Unprepared
    <2>3. \A b \in Workspace \union {"reference_normals"} : <<o, b>> \notin DOMAIN s.alloc
      BY DEF Unprepared
    <2>4. \A b \in Packed(strategy) : <<o, b>> \in Searches \X Owned
      BY <1>1, <2>1
    <2> QED BY <1>1, <1>5, <2>2, <2>3, <2>4
  <1>7. PICK s2 : /\ Moves(Malloc(o, "original_reference", 1), s1, s2) /\ Legal(s2)
                  /\ Grown(s1, s2, o, {} \union {"original_reference"})
    <2>1. "original_reference" \in Owned /\ "original_reference" \notin AfterScan /\ "original_reference" \in Workspace
      BY <1>3
    <2> QED BY <1>1, <1>4, <1>6, <2>1, GrownNone, Grow
  <1> DEFINE from == {<<o, "reference">>} \union (IF strategy = "indexed" THEN {<<o, "original_indices">>} ELSE {})
  <1>8. /\ from # {} /\ \A m \in from : m \in Searches \X Owned /\ m \in DOMAIN s1.alloc /\ s1.content[m] = B /\ m # O
                                        /\ m[2] \in {"reference", "original_indices"}
    <2>1. "reference" \in Packed(strategy) /\ (strategy = "indexed" => "original_indices" \in Packed(strategy))
      BY DEF Packed
    <2>2. \A m \in from : \E b \in Packed(strategy) \intersect {"reference", "original_indices"} : m = <<o, b>>
      BY <2>1
    <2>3. ASSUME NEW b \in Packed(strategy) \intersect {"reference", "original_indices"}
          PROVE  /\ <<o, b>> \in Searches \X Owned /\ <<o, b>> \in DOMAIN s1.alloc /\ s1.content[<<o, b>>] = B
                 /\ <<o, b>> # O /\ <<o, b>>[2] \in {"reference", "original_indices"}
      BY <1>1, <1>3, <1>6
    <2>4. from # {}
      OBVIOUS
    <2> HIDE DEF from, O
    <2>5. ASSUME NEW m \in from
          PROVE  /\ m \in Searches \X Owned /\ m \in DOMAIN s1.alloc /\ s1.content[m] = B
                 /\ m # O /\ m[2] \in {"reference", "original_indices"}
      <3>1. PICK b \in Packed(strategy) \intersect {"reference", "original_indices"} : m = <<o, b>>
        BY <2>2
      <3> QED BY <2>3, <3>1
    <2> QED BY <2>4, <2>5
  <1>9. RestoreOrder(o, strategy) = Submit(o, from, {}, {O}, 0)
    BY DEF RestoreOrder
  <1> HIDE DEF from
  <1>10. /\ Fixed(s1, s2) /\ s2.busy = {} /\ DOMAIN s2.alloc = DOMAIN s1.alloc \union {O}
         /\ \A l \in Locations : l # O => s2.content[l] = s1.content[l]
    <2>1. {} \union {"original_reference"} = {"original_reference"}
      OBVIOUS
    <2> QED BY <1>5, <1>7, <2>1 DEF Grown
  <1>11. O \in Locations /\ O \in Searches \X Owned /\ O[1] # "host" /\ O[2] = "original_reference"
    BY <1>1, <1>3, Places
  <1>12. PICK s3 : Moves(RestoreOrder(o, strategy), s2, s3) /\ Legal(s3) /\ Written(s2, s3, o, from, {}, {O})
    <2>1. Ready(s2, o) /\ o \in s2.streams
      BY <1>1, <1>5, <1>10 DEF Ready, Fixed
    <2>2. \A m \in from : m \in Locations /\ m[1] # "host" /\ m \in DOMAIN s2.alloc
                          /\ m[2] \notin {"knn_indices", "knn_distances"}
      BY <1>8, <1>10, Places DEF Locations, Searches
    <2>3. ~Settled(s2, O)
      <3>1. s2.impl = s.impl /\ (o = "self" => ~s2.impl["self"].resident)
        BY <1>1, <1>5, <1>10 DEF Fixed
      <3> QED BY <1>1, <1>3, <3>1, Unsettled
    <2>4. Operands(s2, from, {O}, 0)
      BY <1>10, <1>11, <2>2, <2>3 DEF Operands
    <2> QED BY <1>7, <1>9, <2>1, <2>4, DoSubmit
  <1>13. /\ Fixed(s1, s3) /\ s3.busy = {o} /\ DOMAIN s3.alloc = DOMAIN s.alloc \union {O} /\ s3.content[O] = B
         /\ \A l \in Locations : l # O => s3.content[l] = s1.content[l]
    <2>1. s3.content[O] = B
      <3>1. s3.content[O] = {} \union UNION {s2.content[m] : m \in from}
        BY <1>12 DEF Written
      <3>2. \A m \in from : s2.content[m] = B
        BY <1>8, <1>10, Places DEF Locations
      <3> QED BY <1>8, <3>1, <3>2, UnionSame
    <2> QED BY <1>5, <1>10, <1>12, <2>1 DEF Written, Fixed
  <1> DEFINE W == NormalsOf(normals)
             R == <<o, "reference_normals">>
             p1 == <<Try(o, held), Malloc(o, "original_reference", 1), RestoreOrder(o, strategy)>>
             load == Submit(o, {H}, {}, {R}, 0)
             p2 == <<Malloc(o, "reference_normals", 1), load>>
             Done(v) == /\ Legal(v) /\ Fixed(s1, v) /\ v.busy = {o} /\ v.content[O] = B
                        /\ DOMAIN v.alloc = DOMAIN s.alloc \union {O} \union {<<o, b>> : b \in W}
                        /\ R \in DOMAIN v.alloc => v.content[R] = N
                        /\ \A l \in Locations : l \notin {O, R} => v.content[l] = s1.content[l]
  <1>14. Runs(p1, s, s3) /\ Works(p1)
    <2>1. Runs(p1, s, s3)
      BY <1>4, <1>7, <1>12, RunsThree
    <2>2. 2 \in DOMAIN p1 /\ p1[2].do = "malloc"
      BY DEF Malloc
    <2> QED BY <2>1, <2>2 DEF Works
  <1>15. R \notin DOMAIN s3.alloc /\ R # O /\ R \in Locations /\ R \in Searches \X Owned /\ Held(s3, o)
    <2>1. "reference_normals" # "original_reference" /\ R \in Locations /\ R \in Searches \X Owned
      BY <1>1, <1>3, Places
    <2> QED BY <1>5, <1>6, <1>13, <2>1, FixedHeld
  <1>16. \E v : Runs(Optional(normals, p2), s3, v) /\ Done(v)
    <2>1. CASE ~normals
      <3>1. W = {} /\ {<<o, b>> : b \in W} = {}
        BY <2>1 DEF NormalsOf
      <3>2. Done(s3)
        BY <1>12, <1>13, <1>15, <3>1
      <3>3. Optional(normals, p2) = <<>>
        BY <2>1 DEF Optional
      <3> QED BY <3>2, <3>3, RunsNone
    <2>2. CASE normals
      <3>1. W = {"reference_normals"} /\ {<<o, b>> : b \in W} = {R}
        BY <2>2 DEF NormalsOf
      <3>2. PICK s4 : /\ Moves(Malloc(o, "reference_normals", 1), s3, s4) /\ Legal(s4)
                      /\ Grown(s3, s4, o, {} \union {"reference_normals"})
        <4>1. "reference_normals" \in Owned /\ "reference_normals" \notin AfterScan
          BY <1>3
        <4>2. o = "self" => ~s3.impl["self"].resident
          BY <1>6, <1>13 DEF Fixed
        <4> QED BY <1>1, <1>12, <1>15, <4>1, <4>2, GrownNone, Grow
      <3>3. /\ Fixed(s1, s4) /\ DOMAIN s4.alloc = DOMAIN s3.alloc \union {R}
            /\ \A l \in Locations : l # R => s4.content[l] = s3.content[l]
        <4>1. {} \union {"reference_normals"} = {"reference_normals"}
          OBVIOUS
        <4> QED BY <1>13, <3>2, <4>1 DEF Grown, Fixed
      <3>4. H \in Locations /\ H[1] = "host" /\ H[2] = "normals" /\ H # R /\ H # O
        BY <1>11, <1>15, Places DEF HostBuffers
      <3>5. Operands(s4, {H}, {R}, 0)
        <4>1. "normals" \in s4.live
          BY <1>5, <3>3 DEF Fixed
        <4>2. ~Settled(s4, R)
          <5>1. o = "self" => ~s4.impl["self"].resident
            BY <1>6, <3>3 DEF Fixed
          <5> QED BY <1>1, <1>3, <5>1, Unsettled
        <4>3. R[1] # "host" /\ R[2] = "reference_normals"
          <5>1. "reference_normals" \in Owned
            BY <1>3
          <5> QED BY <1>1, <5>1, Places
        <4> QED BY <1>15, <3>3, <3>4, <4>1, <4>2, <4>3 DEF Operands
      <3>6. Ready(s4, o) /\ o \in s4.streams
        BY <1>1, <1>5, <3>3 DEF Ready, Fixed
      <3>7. PICK v : Moves(load, s4, v) /\ Legal(v) /\ Written(s4, v, o, {H}, {}, {R})
        BY <3>2, <3>5, <3>6, DoSubmit
      <3>8. v.content[R] = N
        <4>1. v.content[R] = {} \union UNION {s4.content[m] : m \in {H}}
          BY <3>7 DEF Written
        <4>2. s4.content[H] = N
          BY <1>5, <1>13, <3>3, <3>4
        <4> QED BY <4>1, <4>2, UnionOne
      <3>9. Done(v)
        <4>1. Fixed(s1, v) /\ v.busy = {o} /\ DOMAIN v.alloc = DOMAIN s.alloc \union {O} \union {R}
          BY <1>13, <3>3, <3>7 DEF Written, Fixed
        <4>2. v.content[O] = B
          BY <1>11, <1>13, <1>15, <3>3, <3>7 DEF Written
        <4>3. \A l \in Locations : l \notin {O, R} => v.content[l] = s1.content[l]
          BY <1>13, <3>3, <3>7 DEF Written
        <4> QED BY <3>1, <3>7, <3>8, <4>1, <4>2, <4>3
      <3>10. Runs(p2, s3, v)
        BY <3>2, <3>7, RunsTwo
      <3>11. Optional(normals, p2) = p2
        BY <2>2 DEF Optional
      <3> QED BY <3>9, <3>10, <3>11
    <2> QED BY <2>1, <2>2
  <1>17. PICK s5 : Runs(Optional(normals, p2), s3, s5) /\ Done(s5)
    BY <1>16
  <1>18. /\ Legal(s5) /\ Fixed(s1, s5) /\ s5.busy = {o} /\ s5.content[O] = B
         /\ DOMAIN s5.alloc = DOMAIN s.alloc \union {O} \union {<<o, b>> : b \in W}
         /\ R \in DOMAIN s5.alloc => s5.content[R] = N
         /\ \A l \in Locations : l \notin {O, R} => s5.content[l] = s1.content[l]
    BY <1>17
  <1>19. /\ "scan" \in Owned /\ "scan_normals" \in Owned /\ "transformed" \in Owned
         /\ "equations" \in Owned /\ "equation" \in Owned
         /\ "scan" \notin AfterScan /\ Held(s5, o)
    BY <1>5, <1>6, <1>18, FixedHeld DEF Owned, AfterScan
  <1>20. \A b \in Workspace : b # "original_reference" => <<o, b>> \notin DOMAIN s5.alloc
    <2>1. ASSUME NEW b \in Workspace, b # "original_reference" PROVE <<o, b>> \notin DOMAIN s5.alloc
      <3>1. <<o, b>> \notin DOMAIN s.alloc
        BY DEF Unprepared
      <3>2. <<o, b>> # O
        BY <2>1
      <3>3. b \notin W
        BY DEF NormalsOf, Workspace
      <3> QED BY <1>18, <3>1, <3>2, <3>3
    <2> QED BY <2>1
  <1>21. /\ <<o, "scan">> \notin DOMAIN s5.alloc /\ <<o, "scan_normals">> \notin DOMAIN s5.alloc
         /\ <<o, "transformed">> \notin DOMAIN s5.alloc /\ <<o, "equations">> \notin DOMAIN s5.alloc
         /\ <<o, "equation">> \notin DOMAIN s5.alloc
    BY <1>20 DEF Workspace
  <1>22. PICK s6 : Moves(Malloc(o, "scan", 1), s5, s6) /\ Legal(s6) /\ Grown(s5, s6, o, {} \union {"scan"})
    BY <1>1, <1>18, <1>19, <1>21, GrownNone, Grow
  <1>23. PICK s7 : /\ Moves(Malloc(o, "scan_normals", 1), s6, s7) /\ Legal(s7)
                   /\ Grown(s5, s7, o, {"scan"} \union {"scan_normals"})
    BY <1>1, <1>19, <1>21, <1>22, Grow
  <1>24. PICK s8 : /\ Moves(Malloc(o, "transformed", 1), s7, s8) /\ Legal(s8)
                   /\ Grown(s5, s8, o, {"scan", "scan_normals"} \union {"transformed"})
    BY <1>1, <1>19, <1>21, <1>23, Grow
  <1>25. PICK s9 : /\ Moves(Malloc(o, "equations", 1), s8, s9) /\ Legal(s9)
                   /\ Grown(s5, s9, o, {"scan", "scan_normals", "transformed"} \union {"equations"})
    BY <1>1, <1>19, <1>21, <1>24, Grow
  <1> DEFINE A == {"scan", "scan_normals", "transformed", "equations", "equation"}
  <1>26. PICK s10 : Moves(Malloc(o, "equation", 1), s9, s10) /\ Legal(s10) /\ Grown(s5, s10, o, A)
    <2>1. {"scan", "scan_normals", "transformed", "equations"} \union {"equation"} = A
      OBVIOUS
    <2> HIDE DEF A
    <2> QED BY <1>1, <1>19, <1>21, <1>25, <2>1, Grow
  <1>27. Ready(s10, o) /\ s10.busy = {o} /\ Fixed(s1, s10)
    BY <1>5, <1>18, <1>26 DEF Grown, Fixed, Ready
  <1>28. PICK s11 : Moves(Sync(o), s10, s11) /\ Legal(s11) /\ Waited(s10, s11)
    BY <1>26, <1>27, DoSync
  <1>29. Fixed(s1, s11) /\ s11.busy = {} /\ s11.alloc = s10.alloc /\ s11.content = s10.content
    BY <1>27, <1>28 DEF Waited, Fixed
  <1>30. \A l \in Searches \X Owned : l \notin {<<o, b>> : b \in A} => s10.content[l] = s5.content[l]
    BY <1>26, Places DEF Grown, Locations
  <1>31. O \notin {<<o, b>> : b \in A} /\ R \notin {<<o, b>> : b \in A}
    OBVIOUS
  <1>32. /\ DOMAIN s11.alloc = DOMAIN s.alloc \union {<<o, b>> : b \in Workspace \union W}
         /\ s11.content[O] = B /\ (R \in DOMAIN s11.alloc => s11.content[R] = N)
    <2>1. DOMAIN s11.alloc = DOMAIN s5.alloc \union {<<o, b>> : b \in A}
      BY <1>26, <1>29 DEF Grown
    <2>2. Workspace = {"original_reference"} \union A
      BY DEF Workspace
    <2>3. R \in DOMAIN s11.alloc => R \in DOMAIN s5.alloc
      BY <1>31, <2>1
    <2>4. DOMAIN s11.alloc = DOMAIN s.alloc \union {<<o, b>> : b \in Workspace \union W}
      <3> HIDE DEF A, W
      <3> QED BY <1>18, <2>1, <2>2
    <2> QED BY <1>11, <1>15, <1>18, <1>29, <1>30, <1>31, <2>3, <2>4
  <1>33. PICK s12 : /\ Moves(Set(o, "resident", TRUE), s11, s12) /\ Sound(s12) /\ KnnTrue(s12)
                    /\ Rest(s11, s12, o) /\ s12.impl[o] = Assigned(s11.impl[o], "resident", TRUE)
                    /\ (Linked(s11) => Linked(s12))
    <2>1. Held(s11, o)
      BY <1>6, <1>29, FixedHeld
    <2>2. o = "self" => B = Origin
      BY DEF Unprepared
    <2>3. Complete(s11, o)
      BY <1>32, <2>2 DEF Complete
    <2>4. Sound(s11) /\ KnnTrue(s11)
      BY <1>28 DEF Legal, Steady
    <2> QED BY <1>1, <1>29, <2>1, <2>3, <2>4, SetResident
  <1>34. s12.frames = s1.frames /\ s12.busy = {} /\ Linked(s12)
    BY <1>28, <1>29, <1>33 DEF Rest, Fixed, Legal, Steady
  <1>35. PICK t : Moves(Leave, s12, t) /\ Sound(t) /\ KnnTrue(t) /\ (Linked(s12) => Linked(t)) /\ Left(s12, t)
    <2>1. s12.frames # <<>> /\ ~Last(s12.frames).owns
      BY <1>5, <1>34 DEF Ready
    <2> QED BY <1>33, <1>34, <2>1, DoLeave
  <1>36. Legal(t)
    BY <1>34, <1>35 DEF Legal, Steady
  <1>37. Prepared(s, t, o, normals, B)
    <2>1. /\ t.frames = s.frames /\ t.busy = {} /\ t.alloc = s11.alloc /\ t.content = s11.content /\ t.streams = s.streams
          /\ t.uploaded = s.uploaded /\ t.neighbors = s.neighbors /\ t.impl = s12.impl
      BY <1>5, <1>29, <1>33, <1>34, <1>35 DEF Left, Rest, Fixed
    <2>2. s11.impl = s.impl
      BY <1>5, <1>29 DEF Fixed
    <2>3. \A p \in Searches : p # o => t.impl[p] = s.impl[p]
      BY <1>33, <2>1, <2>2 DEF Rest
    <2>4. t.impl[o] = Assigned(s.impl[o], "resident", TRUE)
      BY <1>33, <2>1, <2>2
    <2>5. \A l \in Searches \X Owned :
            l \notin {<<o, b>> : b \in Workspace \union {"reference_normals"}} => t.content[l] = s.content[l]
      <3>1. ASSUME NEW l \in Searches \X Owned, l \notin {<<o, b>> : b \in Workspace \union {"reference_normals"}}
            PROVE  t.content[l] = s.content[l]
        <4>1. l # O /\ l # R /\ l \notin {<<o, b>> : b \in A} /\ l \in Locations
          BY <3>1 DEF Workspace, Locations
        <4>2. s10.content[l] = s5.content[l] /\ s5.content[l] = s1.content[l] /\ s1.content[l] = s.content[l]
          BY <1>5, <1>18, <1>30, <4>1
        <4> QED BY <1>29, <2>1, <4>2
      <3> QED BY <3>1
    <2>6. SameOwners(s, t)
      <3>1. t.impl["self"].scan_search = s.impl["self"].scan_search
        <4>1. Assigned(s.impl[o], "resident", TRUE).scan_search = s.impl[o].scan_search
          BY DEF Assigned
        <4> QED BY <2>3, <2>4, <4>1 DEF Searches
      <3> QED BY <2>1, <3>1 DEF SameOwners, Owns, Held, Present
    <2> QED BY <1>32, <2>1, <2>3, <2>4, <2>5, <2>6 DEF Prepared
  <1> DEFINE p3 == <<Malloc(o, "scan", 1), Malloc(o, "scan_normals", 1), Malloc(o, "transformed", 1),
                     Malloc(o, "equations", 1), Malloc(o, "equation", 1), Sync(o), Set(o, "resident", TRUE), Leave>>
  <1>38. Runs(p3, s5, t)
    BY <1>22, <1>23, <1>24, <1>25, <1>26, <1>28, <1>33, <1>35, RunsEight
  <1>39. PrepareResident(o, strategy, normals) = (p1 \o Optional(normals, p2)) \o p3
    BY DEF PrepareResident, held
  <1> HIDE DEF p1, p2, p3
  <1>40. Runs(p1 \o Optional(normals, p2), s, s5) /\ Works(p1 \o Optional(normals, p2))
    BY <1>14, <1>17, RunsWorks
  <1>41. Runs(PrepareResident(o, strategy, normals), s, t) /\ Works(PrepareResident(o, strategy, normals))
    BY <1>38, <1>39, <1>40, RunsWorks
  <1> QED BY <1>36, <1>37, <1>41

\* Members that differ in the KNN capacity at most.
Likewise(m, n) == /\ m.strategy = n.strategy /\ m.resident = n.resident
                  /\ m.covariance_neighbors = n.covariance_neighbors /\ m.scan_count = n.scan_count
                  /\ m.has_scan_normals = n.has_scan_normals /\ m.scan_search = n.scan_search

\* t is s with KNN buffers of o for rows of length k.
Widened(s, t, o, k) ==
    /\ t.busy = {} /\ t.frames = s.frames /\ t.streams = s.streams /\ t.live = s.live
    /\ t.uploaded = s.uploaded /\ t.neighbors = s.neighbors
    /\ Likewise(t.impl[o], s.impl[o]) /\ \A p \in Searches : p # o => t.impl[p] = s.impl[p]
    /\ DOMAIN t.alloc = DOMAIN s.alloc \union {<<o, b>> : b \in KnnBuffers}
    /\ \A b \in KnnBuffers : t.alloc[<<o, b>>] >= k
    /\ \A l \in Searches \X Owned : l \notin {<<o, b>> : b \in KnnBuffers} => t.content[l] = s.content[l]

\* o may be given wider KNN buffers.
Widens(s, o, k) == /\ Legal(s) /\ s.busy = {} /\ o \in Searches /\ Held(s, o) /\ k \in s.neighbors /\ k # 0

LEMMA KnnTrueParts ==
    ASSUME NEW s
    PROVE  KnnTrue(s) <=> \A p \in Searches : KnnTrueOf(s, p)
  BY DEF KnnTrue, KnnTrueOf, KnnBuffers

LEMMA PrepareKnnRuns ==
    ASSUME NEW s, NEW o, NEW k, Widens(s, o, k), NEW capacity, capacity = s.impl[o].knn_capacity
    PROVE  \E t : Runs(PrepareKnn(o, capacity, k), s, t) /\ Legal(t) /\ Widened(s, t, o, k)
  <1>1. /\ Legal(s) /\ s.busy = {} /\ o \in Searches /\ Held(s, o) /\ k \in s.neighbors /\ k # 0
        /\ Sound(s) /\ KnnTrue(s) /\ Linked(s)
    BY DEF Widens, Legal, Steady
  <1>2. /\ s.neighbors \subseteq Nat /\ 0 \in s.neighbors /\ capacity \in s.neighbors /\ capacity \in Nat /\ k \in Nat
        /\ s.impl[o] \in MemberType(s.neighbors)
    BY <1>1 DEF Sound, Shape, MemberType
  <1>3. CASE ~(k > capacity)
    <2>1. PrepareKnn(o, capacity, k) = <<>>
      BY <1>3 DEF PrepareKnn, Optional
    <2>2. KnnTrueOf(s, o) /\ capacity # 0 /\ capacity >= k
      BY <1>1, <1>2, <1>3, KnnTrueParts
    <2>3. \A b \in KnnBuffers : <<o, b>> \in DOMAIN s.alloc /\ s.alloc[<<o, b>>] >= capacity
      BY <2>2 DEF KnnTrueOf
    <2>4. \A b \in KnnBuffers : s.alloc[<<o, b>>] >= k
      <3>1. ASSUME NEW b \in KnnBuffers PROVE s.alloc[<<o, b>>] >= k
        <4>1. s.alloc[<<o, b>>] \in Nat /\ s.alloc[<<o, b>>] >= capacity
          BY <1>1, <2>3 DEF Sound, Shape
        <4> QED BY <1>2, <2>2, <4>1
      <3> QED BY <3>1
    <2>5. DOMAIN s.alloc = DOMAIN s.alloc \union {<<o, b>> : b \in KnnBuffers}
      BY <2>3
    <2>6. Widened(s, s, o, k)
      BY <1>1, <2>4, <2>5 DEF Widened, Likewise
    <2> QED BY <1>1, <2>1, <2>6, RunsNone
  <1>4. CASE k > capacity
    <2> DEFINE I == <<o, "knn_indices">>
               D == <<o, "knn_distances">>
    <2>1. PICK s1 : Moves(Free(o, "knn_indices"), s, s1) /\ Sound(s1) /\ Linked(s1) /\ Freed(s, s1, o, "knn_indices")
      BY <1>1, DoFree
    <2>2. s1.busy = {}
      BY <2>1 DEF Freed
    <2>3. PICK s2 : Moves(Free(o, "knn_distances"), s1, s2) /\ Sound(s2) /\ Linked(s2) /\ Freed(s1, s2, o, "knn_distances")
      BY <1>1, <2>1, <2>2, DoFree
    <2>4. /\ Fixed(s, s2) /\ s2.busy = {} /\ DOMAIN s2.alloc = DOMAIN s.alloc \ {I, D}
          /\ s2.content = s.content /\ \A l \in DOMAIN s2.alloc : s2.alloc[l] = s.alloc[l]
      BY <2>1, <2>3 DEF Freed, Fixed
    <2>5. \A p \in Searches : p # o => KnnTrueOf(s2, p)
      <3>1. ASSUME NEW p \in Searches, p # o PROVE KnnTrueOf(s2, p)
        <4>1. KnnTrueOf(s, p) /\ s2.impl = s.impl
          BY <1>1, <2>4, KnnTrueParts DEF Fixed
        <4>2. \A b : <<p, b>> # I /\ <<p, b>> # D
          BY <3>1
        <4> QED BY <2>4, <4>1, <4>2 DEF KnnTrueOf
      <3> QED BY <3>1
    <2>6. Held(s2, o) /\ s2.neighbors = s.neighbors
      BY <1>1, <2>4, FixedHeld DEF Fixed
    <2>7. PICK s3 : /\ Moves(Set(o, "knn_capacity", 0), s2, s3) /\ Legal(s3) /\ Rest(s2, s3, o)
                    /\ s3.impl[o] = Assigned(s2.impl[o], "knn_capacity", 0)
      BY <1>1, <1>2, <2>3, <2>4, <2>5, <2>6, SetCapacity
    <2>8. s3.busy = {} /\ DOMAIN s3.alloc = DOMAIN s.alloc \ {I, D} /\ Held(s3, o)
      <3>1. o = "self" => s3.impl["self"].scan_search = s2.impl["self"].scan_search
        BY <2>7 DEF Assigned
      <3>2. s3.impl["self"].scan_search = s2.impl["self"].scan_search
        BY <2>7, <3>1 DEF Rest, Searches
      <3> QED BY <2>4, <2>6, <2>7, <3>2 DEF Rest, Held, Owns
    <2>9. /\ "knn_indices" \in Owned /\ "knn_distances" \in Owned
          /\ "knn_indices" \notin AfterScan /\ "knn_distances" \notin AfterScan
      BY DEF Owned, AfterScan
    <2>10. PICK s4 : Moves(Malloc(o, "knn_indices", k), s3, s4) /\ Legal(s4) /\ Allocated(s3, s4, o, "knn_indices", k)
      <3>1. <<o, "knn_indices">> \notin DOMAIN s3.alloc
        BY <2>8
      <3> QED BY <1>1, <1>2, <2>7, <2>8, <2>9, <3>1, DoMalloc
    <2>11. Held(s4, o) /\ s4.busy = {} /\ <<o, "knn_distances">> \notin DOMAIN s4.alloc
      <3>1. Fixed(s3, s4) /\ s4.busy = {} /\ <<o, "knn_distances">> \notin DOMAIN s4.alloc
        BY <2>8, <2>10 DEF Allocated
      <3> QED BY <2>8, <3>1, FixedHeld
    <2>12. PICK s5 : Moves(Malloc(o, "knn_distances", k), s4, s5) /\ Legal(s5) /\ Allocated(s4, s5, o, "knn_distances", k)
      BY <1>1, <1>2, <2>9, <2>10, <2>11, DoMalloc
    <2>13. /\ Fixed(s3, s5) /\ s5.busy = {} /\ DOMAIN s5.alloc = DOMAIN s3.alloc \union {I, D}
           /\ s5.alloc[I] = k /\ s5.alloc[D] = k
           /\ \A l \in Locations : l # I /\ l # D => s5.content[l] = s3.content[l]
      BY <2>10, <2>11, <2>12 DEF Allocated, Fixed
    <2>14. PICK t : /\ Moves(Set(o, "knn_capacity", k), s5, t) /\ Legal(t) /\ Rest(s5, t, o)
                    /\ t.impl[o] = Assigned(s5.impl[o], "knn_capacity", k)
      <3>1. Sound(s5) /\ Linked(s5) /\ KnnTrue(s5)
        BY <2>12 DEF Legal, Steady
      <3>2. Held(s5, o) /\ k \in s5.neighbors
        BY <1>1, <2>6, <2>7, <2>8, <2>13, FixedHeld DEF Fixed, Rest
      <3>3. \A b \in KnnBuffers : <<o, b>> \in DOMAIN s5.alloc /\ s5.alloc[<<o, b>>] >= k
        BY <1>2, <2>13 DEF KnnBuffers
      <3>4. \A p \in Searches : KnnTrueOf(s5, p)
        BY <3>1, KnnTrueParts
      <3> QED BY <1>1, <2>13, <3>1, <3>2, <3>3, <3>4, SetCapacity
    <2>15. Widened(s, t, o, k)
      <3>1. /\ t.busy = {} /\ t.frames = s.frames /\ t.streams = s.streams /\ t.live = s.live
            /\ t.uploaded = s.uploaded /\ t.neighbors = s.neighbors /\ t.alloc = s5.alloc /\ t.content = s5.content
            /\ s5.impl = s3.impl /\ s2.impl = s.impl /\ s3.content = s.content
        BY <2>4, <2>7, <2>13, <2>14 DEF Rest, Fixed
      <3>2. Likewise(t.impl[o], s.impl[o])
        <4>1. t.impl[o] = Assigned(Assigned(s.impl[o], "knn_capacity", 0), "knn_capacity", k)
          BY <2>7, <2>14, <3>1
        <4> QED BY <4>1 DEF Likewise, Assigned
      <3>3. \A p \in Searches : p # o => t.impl[p] = s.impl[p]
        BY <2>7, <2>14, <3>1 DEF Rest
      <3>4. {<<o, b>> : b \in KnnBuffers} = {I, D}
        BY DEF KnnBuffers
      <3>5. DOMAIN t.alloc = DOMAIN s.alloc \union {<<o, b>> : b \in KnnBuffers}
        BY <2>8, <2>13, <3>1, <3>4
      <3>6. \A b \in KnnBuffers : t.alloc[<<o, b>>] >= k
        BY <1>2, <2>13, <3>1 DEF KnnBuffers
      <3>7. \A l \in Searches \X Owned : l \notin {<<o, b>> : b \in KnnBuffers} => t.content[l] = s.content[l]
        BY <2>13, <3>1, <3>4 DEF Locations
      <3> QED BY <3>1, <3>2, <3>3, <3>5, <3>6, <3>7 DEF Widened
    <2>16. PrepareKnn(o, capacity, k) =
             <<Free(o, "knn_indices"), Free(o, "knn_distances"), Set(o, "knn_capacity", 0),
               Malloc(o, "knn_indices", k), Malloc(o, "knn_distances", k), Set(o, "knn_capacity", k)>>
      BY <1>4 DEF PrepareKnn, Optional
    <2>17. Runs(PrepareKnn(o, capacity, k), s, t)
      BY <2>1, <2>3, <2>7, <2>10, <2>12, <2>14, <2>16, RunsSix
    <2> QED BY <2>14, <2>15, <2>17
  <1> QED BY <1>3, <1>4

\* The KNN kernels of o find their inputs, which come from B, and room for
\* rows of length k.
KnnInputs == {"reference", "original_indices", "nodes", "original_reference"}
Rows(k) == {<<"neighbors", k>>}
Knowing(u, o, k, B) ==
    /\ Legal(u) /\ o \in Searches /\ Ready(u, o) /\ o \in u.streams /\ k \in Nat
    /\ \A b \in KnnInputs : <<o, b>> \in DOMAIN u.alloc /\ u.content[<<o, b>>] = B
    /\ \A b \in KnnBuffers : <<o, b>> \in DOMAIN u.alloc /\ u.alloc[<<o, b>>] >= k

LEMMA KnowingKept ==
    ASSUME NEW u, NEW v, NEW o, NEW k, NEW B, Knowing(u, o, k, B), Legal(v), Fixed(u, v), v.alloc = u.alloc,
           \A b \in KnnInputs : v.content[<<o, b>>] = u.content[<<o, b>>]
    PROVE  Knowing(v, o, k, B)
  BY DEF Knowing, Fixed, Ready

\* The nearest k of each row.
Searched(u, v, o, k, B) ==
    /\ Fixed(u, v) /\ v.alloc = u.alloc /\ v.busy = {o}
    /\ \A b \in KnnBuffers : v.content[<<o, b>>] = B \union Rows(k)
    /\ \A l \in Locations : l \notin {<<o, b>> : b \in KnnBuffers} => v.content[l] = u.content[l]

LEMMA KnnNames ==
    /\ KnnInputs \subseteq Owned /\ KnnBuffers \subseteq Owned /\ KnnBuffers \subseteq Scratch
    /\ KnnInputs \intersect KnnBuffers = {} /\ KnnInputs # {} /\ "covariances" \in Owned
    /\ "invalid_covariance" \in Owned /\ "invalid_covariance" \in Scratch /\ "covariances" \notin Scratch
  BY DEF KnnInputs, KnnBuffers, Owned, Scratch

LEMMA DoExactKnn ==
    ASSUME NEW u, NEW o, NEW k, NEW B, Knowing(u, o, k, B)
    PROVE  \E v : Moves(ExactKnn(o, k), u, v) /\ Searched(u, v, o, k, B) /\ Knowing(v, o, k, B)
  <1> DEFINE F == {<<o, "reference">>, <<o, "original_indices">>, <<o, "nodes">>, <<o, "original_reference">>}
             T == {<<o, "knn_indices">>, <<o, "knn_distances">>}
  <1>1. Legal(u) /\ o \in Searches /\ Ready(u, o) /\ o \in u.streams /\ k \in Nat
    BY DEF Knowing
  <1>2. F # {} /\ \A m \in F : \E b \in KnnInputs : m = <<o, b>>
    BY DEF KnnInputs
  <1>3. T = {<<o, b>> : b \in KnnBuffers}
    BY DEF KnnBuffers
  <1> HIDE DEF F, T
  <1>4. ASSUME NEW m \in F
        PROVE  /\ m \in Locations /\ m[1] # "host" /\ m \in DOMAIN u.alloc /\ m[2] \notin {"knn_indices", "knn_distances"}
               /\ u.content[m] = B
    <2>1. PICK b \in KnnInputs : m = <<o, b>>
      BY <1>2
    <2>2. <<o, b>> \in Locations /\ <<o, b>>[1] # "host" /\ <<o, b>>[2] = b
      BY <1>1, KnnNames, Places
    <2>3. b \notin {"knn_indices", "knn_distances"}
      BY DEF KnnInputs
    <2> QED BY <2>1, <2>2, <2>3 DEF Knowing
  <1>5. ASSUME NEW m \in T
        PROVE  /\ m \in Locations /\ m[1] # "host" /\ m \in DOMAIN u.alloc /\ u.alloc[m] >= k /\ ~Settled(u, m)
    <2>1. PICK b \in KnnBuffers : m = <<o, b>>
      BY <1>3
    <2>2. <<o, b>> \in Locations /\ <<o, b>>[1] # "host"
      BY <1>1, KnnNames, Places
    <2>3. b \in Owned /\ b # "covariances" /\ b \in Scratch
      BY KnnNames
    <2>4. ~Settled(u, <<o, b>>)
      BY <1>1, <2>3, Unsettled
    <2> QED BY <2>1, <2>2, <2>4 DEF Knowing
  <1>6. Operands(u, F, T, k)
    BY <1>4, <1>5 DEF Operands
  <1>7. PICK v : Moves(Submit(o, F, Rows(k), T, k), u, v) /\ Legal(v) /\ Written(u, v, o, F, Rows(k), T)
    BY <1>1, <1>6, DoSubmit
  <1>8. UNION {u.content[m] : m \in F} = B
    BY <1>2, <1>4, UnionSame
  <1>9. Searched(u, v, o, k, B)
    <2>1. \A l \in T : v.content[l] = B \union Rows(k)
      BY <1>7, <1>8 DEF Written
    <2> QED BY <1>3, <1>7, <2>1 DEF Written, Searched
  <1>10. Knowing(v, o, k, B)
    <2>1. ASSUME NEW b \in KnnInputs PROVE v.content[<<o, b>>] = u.content[<<o, b>>]
      <3>1. <<o, b>> \in Locations /\ <<o, b>> \notin T
        BY <1>1, <1>3, KnnNames, Places
      <3> QED BY <1>7, <3>1 DEF Written
    <2> QED BY <1>7, <2>1, KnowingKept DEF Written
  <1>11. ExactKnn(o, k) = Submit(o, F, Rows(k), T, k)
    BY DEF ExactKnn, F, T, Rows
  <1> QED BY <1>7, <1>9, <1>10, <1>11

-----------------------------------------------------------------------------
(***************************************************************************)
(* knn                                                                     *)
(***************************************************************************)

\* One batch: neighbours, their transfer, and the wait for it.
KnnBatch(o, k) == <<ExactKnn(o, k), Submit(o, {<<o, "knn_indices">>}, {}, {OnHost("result")}, k), Sync(o)>>

\* t is u after a batch.
Batched(u, t, o, k, B) ==
    /\ Fixed(u, t) /\ t.alloc = u.alloc /\ t.busy = {}
    /\ \A b \in KnnBuffers : t.content[<<o, b>>] = B \union Rows(k)
    /\ t.content[OnHost("result")] = B \union Rows(k)
    /\ \A l \in Locations : l \notin {<<o, b>> : b \in KnnBuffers} \union {OnHost("result")} => t.content[l] = u.content[l]

LEMMA KnnBatchOnce ==
    ASSUME NEW u, NEW o, NEW k, NEW B, Knowing(u, o, k, B), "result" \in u.live
    PROVE  \E w, t : /\ Moves(ExactKnn(o, k), u, w)
                     /\ \E v : Moves(Submit(o, {<<o, "knn_indices">>}, {}, {OnHost("result")}, k), w, v) /\ Moves(Sync(o), v, t)
                     /\ Knowing(t, o, k, B) /\ Batched(u, t, o, k, B)
  <1> DEFINE I == <<o, "knn_indices">>
             H == OnHost("result")
  <1>1. PICK w : Moves(ExactKnn(o, k), u, w) /\ Searched(u, w, o, k, B) /\ Knowing(w, o, k, B)
    BY DoExactKnn
  <1>2. Legal(w) /\ o \in Searches /\ Ready(w, o) /\ o \in w.streams /\ "result" \in w.live
    BY <1>1 DEF Knowing, Searched, Fixed
  <1>3. "knn_indices" \in KnnBuffers /\ "knn_indices" \in Owned /\ "result" \in HostBuffers
    BY KnnNames DEF KnnBuffers, HostBuffers
  <1>4. /\ I \in Locations /\ I[1] # "host" /\ H \in Locations /\ H[1] = "host" /\ H[2] = "result"
        /\ \A b \in Owned : <<o, b>> \in Locations /\ <<o, b>> # H
    BY <1>2, <1>3, Places
  <1>5. Operands(w, {I}, {H}, k)
    <2>1. I \in DOMAIN w.alloc /\ w.alloc[I] >= k
      BY <1>1, <1>3 DEF Knowing
    <2> QED BY <1>2, <1>4, <2>1 DEF Operands
  <1>6. PICK v : Moves(Submit(o, {I}, {}, {H}, k), w, v) /\ Legal(v) /\ Written(w, v, o, {I}, {}, {H})
    BY <1>2, <1>5, DoSubmit
  <1>7. PICK t : Moves(Sync(o), v, t) /\ Legal(t) /\ Waited(v, t)
    <2>1. Ready(v, o)
      BY <1>2, <1>6 DEF Written, Fixed, Ready
    <2> QED BY <1>6, <2>1, DoSync
  <1>8. /\ Fixed(u, t) /\ t.alloc = u.alloc /\ t.busy = {} /\ t.content = v.content
        /\ Fixed(w, t) /\ t.alloc = w.alloc
    BY <1>1, <1>6, <1>7 DEF Written, Waited, Searched, Fixed
  <1>9. v.content[H] = B \union Rows(k)
    <2>1. v.content[H] = {} \union UNION {w.content[m] : m \in {I}}
      BY <1>6 DEF Written
    <2>2. w.content[I] = B \union Rows(k)
      BY <1>1, <1>3 DEF Searched
    <2> QED BY <2>1, <2>2, UnionOne
  <1>10. \A l \in Locations : l # H => v.content[l] = w.content[l]
    BY <1>6 DEF Written
  <1>11. Batched(u, t, o, k, B)
    <2>1. \A b \in KnnBuffers : t.content[<<o, b>>] = B \union Rows(k)
      <3>1. \A b \in KnnBuffers : b \in Owned
        BY KnnNames
      <3> QED BY <1>1, <1>4, <1>8, <1>10, <3>1 DEF Searched
    <2>2. \A l \in Locations : l \notin {<<o, b>> : b \in KnnBuffers} \union {H} => t.content[l] = u.content[l]
      BY <1>1, <1>8, <1>10 DEF Searched
    <2> QED BY <1>8, <1>9, <2>1, <2>2 DEF Batched
  <1>12. Knowing(t, o, k, B)
    <2>1. \A b \in KnnInputs : t.content[<<o, b>>] = w.content[<<o, b>>]
      BY <1>4, <1>8, <1>10, KnnNames
    <2> QED BY <1>1, <1>7, <1>8, <2>1, KnowingKept
  <1> QED BY <1>1, <1>6, <1>7, <1>11, <1>12

\* Later batches find what the first one left.
LEMMA KnnBatchesRun ==
    ASSUME NEW u, NEW o, NEW k, NEW B, Knowing(u, o, k, B), "result" \in u.live, call.session.batches \in Nat \ {0}
    PROVE  \E t : /\ Runs(InBatches(KnnBatch(o, k)), u, t) /\ Works(InBatches(KnnBatch(o, k)))
                  /\ Knowing(t, o, k, B) /\ Batched(u, t, o, k, B)
  <1> DEFINE x == Submit(o, {<<o, "knn_indices">>}, {}, {OnHost("result")}, k)
  <1>1. PICK w, t : /\ Moves(ExactKnn(o, k), u, w) /\ (\E v : Moves(x, w, v) /\ Moves(Sync(o), v, t))
                    /\ Knowing(t, o, k, B) /\ Batched(u, t, o, k, B)
    BY KnnBatchOnce
  <1>2. PICK v : Moves(x, w, v) /\ Moves(Sync(o), v, t)
    BY <1>1
  <1>3. "result" \in t.live
    BY <1>1 DEF Batched, Fixed
  <1>4. PICK w2, t2 : /\ Moves(ExactKnn(o, k), t, w2) /\ (\E v2 : Moves(x, w2, v2) /\ Moves(Sync(o), v2, t2))
                      /\ Knowing(t2, o, k, B) /\ Batched(t, t2, o, k, B)
    BY <1>1, <1>3, KnnBatchOnce
  <1>5. PICK v2 : Moves(x, w2, v2) /\ Moves(Sync(o), v2, t2)
    BY <1>4
  <1>6. t = t2
    <2>1. \A l \in Locations : t.content[l] = t2.content[l]
      BY <1>1, <1>4 DEF Batched
    <2>2. Fixed(t, t2) /\ t.alloc = t2.alloc /\ t.busy = t2.busy
      BY <1>1, <1>4 DEF Batched
    <2>3. Sound(t) /\ Sound(t2)
      BY <1>1, <1>4 DEF Knowing, Legal
    <2>4. Sync(o).do = "sync"
      BY DEF Sync
    <2> QED BY <1>2, <1>5, <2>1, <2>2, <2>3, <2>4, SameMachine
  <1> HIDE DEF x
  <1>7. Runs(<<ExactKnn(o, k), x, Sync(o)>>, u, t)
    BY <1>1, <1>2, RunsThree
  <1>8. Runs(<<ExactKnn(o, k), x, Sync(o)>>, t, t)
    BY <1>4, <1>5, <1>6, RunsThree
  <1>9. Works(<<ExactKnn(o, k), x, Sync(o)>>)
    <2> DEFINE p == <<ExactKnn(o, k), x, Sync(o)>>
    <2>1. 3 \in DOMAIN p /\ p[3].do = "sync"
      BY DEF Sync
    <2> QED BY <2>1 DEF Works
  <1>10. KnnBatch(o, k) = <<ExactKnn(o, k), x, Sync(o)>>
    BY DEF KnnBatch, x
  <1> QED BY <1>1, <1>7, <1>8, <1>9, <1>10, BatchesRun

-----------------------------------------------------------------------------
(***************************************************************************)
(* Between two calls                                                       *)
(***************************************************************************)
Idle(s) == Legal(s) /\ s.busy = {} /\ s.frames = <<>> /\ Present(s)

\* What the search of the context has between two calls.
Stocked(s) ==
    LET m == s.impl["self"] IN
    /\ <<"self", "queries">> \in DOMAIN s.alloc /\ <<"self", "indices">> \in DOMAIN s.alloc
    /\ \A b \in Packed(m.strategy) : <<"self", b>> \in DOMAIN s.alloc /\ s.content[<<"self", b>>] = Origin
    /\ m.resident => /\ \A b \in Workspace : <<"self", b>> \in DOMAIN s.alloc
                     /\ s.content[<<"self", "original_reference">>] = Origin
                     /\ <<"self", "reference_normals">> \in DOMAIN s.alloc =>
                          s.content[<<"self", "reference_normals">>] = {<<"reference_normals", 0>>}
    /\ m.covariance_neighbors # 0 =>
         /\ <<"self", "covariances">> \in DOMAIN s.alloc
         /\ s.content[<<"self", "covariances">>] = Origin \union Rows(m.covariance_neighbors)
    /\ m.scan_count # 0 =>
         /\ m.resident /\ s.content[<<"self", "scan">>] = {<<"scan", m.scan_count>>}
         /\ m.has_scan_normals => s.content[<<"self", "scan_normals">>] = {<<"normals", m.scan_count>>}
         /\ m.covariance_neighbors # 0 =>
              /\ m.scan_search \in {"a", "b"} /\ <<m.scan_search, "covariances">> \in DOMAIN s.alloc
              /\ s.content[<<m.scan_search, "covariances">>] = {<<"scan", m.scan_count>>} \union Rows(m.covariance_neighbors)

LEMMA IdleStocked ==
    ASSUME NEW s, Sound(s), Present(s)
    PROVE  Stocked(s)
  <1> DEFINE m == s.impl["self"]
             at(b) == <<"self", b>>
  <1>1. "self" \in Searches /\ m \in MemberType(s.neighbors)
    BY DEF Sound, Shape, Searches
  <1>2. \A b \in Owned : at(b) \in Searches \X Owned /\ at(b)[1] = "self" /\ at(b)[2] = b
    BY <1>1
  <1>3. \A l \in Searches \X Owned : Settled(s, l) => l \in DOMAIN s.alloc /\ s.content[l] = Expected(s, l)
    BY DEF Sound, Facts
  <1>4. /\ "reference" \in Owned /\ "nodes" \in Owned /\ "original_indices" \in Owned /\ "original_reference" \in Owned
        /\ "reference_normals" \in Owned /\ "covariances" \in Owned /\ "scan" \in Owned /\ "scan_normals" \in Owned
    BY DEF Owned
  <1>5. ASSUME NEW b \in Owned, Settled(s, at(b))
        PROVE  at(b) \in DOMAIN s.alloc /\ s.content[at(b)] = Expected(s, at(b))
    BY <1>2, <1>3, <1>5
  <1>6. ASSUME NEW b \in Packed(m.strategy) PROVE at(b) \in DOMAIN s.alloc /\ s.content[at(b)] = Origin
    <2>1. b \in Owned /\ b \in {"reference", "nodes", "original_indices"} /\ (b # "reference" => m.strategy = "indexed")
      BY <1>4, <1>6 DEF Packed
    <2>2. Settled(s, at(b))
      BY <1>2, <2>1 DEF Settled
    <2>3. Expected(s, at(b)) = Origin
      BY <1>2, <2>1 DEF Expected
    <2> QED BY <1>5, <2>1, <2>2, <2>3
  <1>7. ASSUME m.resident
        PROVE  /\ \A b \in Workspace : at(b) \in DOMAIN s.alloc
               /\ s.content[at("original_reference")] = Origin
               /\ at("reference_normals") \in DOMAIN s.alloc => s.content[at("reference_normals")] = {<<"reference_normals", 0>>}
    <2>1. \A b \in Workspace : at(b) \in DOMAIN s.alloc
      BY <1>1, <1>7 DEF Sound, Equipped
    <2>2. Settled(s, at("original_reference")) /\ Expected(s, at("original_reference")) = Origin
      BY <1>7 DEF Settled, Expected
    <2>3. at("reference_normals") \in DOMAIN s.alloc => Settled(s, at("reference_normals"))
      BY <1>7 DEF Settled
    <2>4. Expected(s, at("reference_normals")) = {<<"reference_normals", 0>>}
      BY DEF Expected
    <2> HIDE DEF at, m
    <2> QED BY <1>4, <1>5, <2>1, <2>2, <2>3, <2>4
  <1>8. ASSUME m.covariance_neighbors # 0
        PROVE  /\ at("covariances") \in DOMAIN s.alloc
               /\ s.content[at("covariances")] = Origin \union Rows(m.covariance_neighbors)
    <2>1. Settled(s, at("covariances"))
      BY <1>8 DEF Settled
    <2>2. Expected(s, at("covariances")) = Origin \union Rows(m.covariance_neighbors)
      BY DEF Expected, Rows
    <2> HIDE DEF at, m
    <2> QED BY <1>4, <1>5, <2>1, <2>2
  <1>9. ASSUME m.scan_count # 0
        PROVE  /\ m.resident /\ s.content[at("scan")] = {<<"scan", m.scan_count>>}
               /\ m.has_scan_normals => s.content[at("scan_normals")] = {<<"normals", m.scan_count>>}
    <2>1. m.resident
      BY <1>9 DEF Sound, Facts
    <2>2. Settled(s, at("scan")) /\ Expected(s, at("scan")) = {<<"scan", m.scan_count>>}
      BY <1>9 DEF Settled, Expected
    <2>3. m.has_scan_normals => Settled(s, at("scan_normals"))
      BY <1>9 DEF Settled
    <2>4. Expected(s, at("scan_normals")) = {<<"normals", m.scan_count>>}
      BY DEF Expected
    <2> HIDE DEF at, m
    <2> QED BY <1>4, <1>5, <2>1, <2>2, <2>3, <2>4
  <1>10. ASSUME m.scan_count # 0, m.covariance_neighbors # 0
         PROVE  /\ m.scan_search \in {"a", "b"} /\ <<m.scan_search, "covariances">> \in DOMAIN s.alloc
                /\ s.content[<<m.scan_search, "covariances">>] = {<<"scan", m.scan_count>>} \union Rows(m.covariance_neighbors)
    <2>1. m.scan_search \in {"a", "b"}
      <3>1. m.scan_search # "none"
        BY <1>10 DEF Sound, Facts
      <3> QED BY <1>1, <3>1 DEF MemberType
    <2>2. <<m.scan_search, "covariances">> \in Searches \X Owned
      BY <1>4, <2>1 DEF Searches
    <2>3. Settled(s, <<m.scan_search, "covariances">>)
      BY <1>10, <2>1 DEF Settled
    <2>4. Expected(s, <<m.scan_search, "covariances">>) = {<<"scan", m.scan_count>>, <<"neighbors", m.covariance_neighbors>>}
      BY <2>1 DEF Expected
    <2>5. {<<"scan", m.scan_count>>, <<"neighbors", m.covariance_neighbors>>} = {<<"scan", m.scan_count>>} \union Rows(m.covariance_neighbors)
      BY DEF Rows
    <2> QED BY <1>3, <2>1, <2>2, <2>3, <2>4, <2>5
  <1>11. <<"self", "queries">> \in DOMAIN s.alloc /\ <<"self", "indices">> \in DOMAIN s.alloc
    BY DEF Sound, Facts
  <1> QED BY <1>6, <1>7, <1>8, <1>9, <1>10, <1>11 DEF Stocked

\* A call that leaves the search idle.
LEMMA IdleFinal ==
    ASSUME NEW t, NEW c, Idle(t), Post(t, c)
    PROVE  Final(t, c)
  BY DEF Idle, Final, Legal, Steady

\* The caller's result buffer enters scope with the handler.
LEMMA IdleTry ==
    ASSUME NEW s, Idle(s), NEW buffers, DOMAIN buffers \subseteq HostBuffers
    PROVE  \E t : /\ Moves(Try("self", buffers), s, t) /\ Legal(t) /\ Entered(s, t, "self", buffers)
                  /\ Ready(t, "self") /\ "self" \in t.streams /\ Present(t) /\ t.busy = {} /\ Stocked(t)
                  /\ t.frames # <<>> /\ ~Last(t.frames).owns /\ Front(t.frames) = <<>>
                  /\ t.impl = s.impl /\ t.alloc = s.alloc /\ t.uploaded = s.uploaded /\ t.neighbors = s.neighbors
                  /\ DOMAIN buffers \subseteq t.live
  <1>1. Legal(s) /\ s.busy = {} /\ s.frames = <<>> /\ Present(s) /\ "self" \in Searches
    BY DEF Idle, Searches
  <1>2. PICK t : Moves(Try("self", buffers), s, t) /\ Legal(t) /\ Entered(s, t, "self", buffers)
    BY <1>1, DoTry
  <1>3. Present(t) /\ Sound(t)
    BY <1>1, <1>2 DEF Entered, SameOwners, Legal
  <1>4. Stocked(t)
    BY <1>3, IdleStocked
  <1> QED BY <1>1, <1>2, <1>3, <1>4 DEF Entered, Ready, Inside, Kept, Present

\* The handler's scope ends, and with it the call.
LEMMA IdleLeave ==
    ASSUME NEW s, Legal(s), s.busy = {}, s.frames # <<>>, ~Last(s.frames).owns, Front(s.frames) = <<>>, Present(s)
    PROVE  \E t : /\ Moves(Leave, s, t) /\ Idle(t) /\ t.content = s.content /\ t.alloc = s.alloc /\ t.impl = s.impl
                  /\ t.uploaded = s.uploaded /\ t.neighbors = s.neighbors
  <1>1. Sound(s) /\ KnnTrue(s) /\ Linked(s)
    BY DEF Legal, Steady
  <1>2. PICK t : Moves(Leave, s, t) /\ Sound(t) /\ KnnTrue(t) /\ (Linked(s) => Linked(t)) /\ Left(s, t)
    BY <1>1, DoLeave
  <1>3. Present(t)
    BY <1>2 DEF Left, SameOwners
  <1> QED BY <1>1, <1>2, <1>3 DEF Left, Idle, Legal, Steady

\* A resident search finds what its KNN kernels read.
LEMMA ResidentKnowing ==
    ASSUME NEW s, NEW k \in Nat, Legal(s), Stocked(s), Ready(s, "self"), "self" \in s.streams,
           s.impl["self"].resident, s.impl["self"].strategy = "indexed",
           \A b \in KnnBuffers : <<"self", b>> \in DOMAIN s.alloc /\ s.alloc[<<"self", b>>] >= k
    PROVE  Knowing(s, "self", k, Origin)
  <1>1. \A b \in KnnInputs : b \in Packed("indexed") \/ b = "original_reference"
    BY DEF KnnInputs, Packed
  <1>2. \A b \in Packed("indexed") : <<"self", b>> \in DOMAIN s.alloc /\ s.content[<<"self", b>>] = Origin
    BY DEF Stocked
  <1>3. <<"self", "original_reference">> \in DOMAIN s.alloc /\ s.content[<<"self", "original_reference">>] = Origin
    BY DEF Stocked, Workspace
  <1> QED BY <1>1, <1>2, <1>3 DEF Knowing, Searches

LEMMA WidenedIdle ==
    ASSUME NEW s, NEW t, NEW k, Idle(s), Legal(t), Widened(s, t, "self", k)
    PROVE  Idle(t)
  BY DEF Idle, Widened, Present

LEMMA KnnRuns ==
    ASSUME NEW s, Idle(s), NEW k \in s.neighbors, k # 0, s.impl["self"].resident, s.impl["self"].strategy = "indexed",
           NEW c, c.method = "knn", c.k = k, call.session.batches \in Nat \ {0},
           NEW capacity, capacity = s.impl["self"].knn_capacity
    PROVE  \E t : Runs(Knn("self", capacity, k), s, t) /\ Works(Knn("self", capacity, k)) /\ Final(t, c)
  <1>1. /\ "self" \in Searches /\ Legal(s) /\ s.busy = {} /\ k \in Nat /\ Widens(s, "self", k)
    <2>1. Legal(s) /\ s.busy = {} /\ Present(s) /\ "self" \in Searches
      BY DEF Idle, Searches
    <2>2. s.neighbors \subseteq Nat
      BY <2>1 DEF Legal, Sound, Shape
    <2>3. Held(s, "self")
      BY <2>1 DEF Held, Present
    <2> QED BY <2>1, <2>2, <2>3 DEF Widens
  <1>2. PICK s1 : Runs(PrepareKnn("self", capacity, k), s, s1) /\ Legal(s1) /\ Widened(s, s1, "self", k)
    BY <1>1, PrepareKnnRuns
  <1>3. Idle(s1)
    BY <1>2, WidenedIdle
  <1> DEFINE buffers == Scope("result", {})
  <1>4. DOMAIN buffers = {"result"} /\ DOMAIN buffers \subseteq HostBuffers
    <2>1. DOMAIN buffers = {"result"}
      BY ScopeFields
    <2> QED BY <2>1 DEF HostBuffers
  <1> HIDE DEF buffers
  <1>5. PICK s2 : /\ Moves(Try("self", buffers), s1, s2) /\ Legal(s2) /\ Ready(s2, "self") /\ "self" \in s2.streams
                  /\ Present(s2) /\ Stocked(s2) /\ s2.frames # <<>> /\ ~Last(s2.frames).owns /\ Front(s2.frames) = <<>>
                  /\ s2.impl = s1.impl /\ s2.alloc = s1.alloc /\ DOMAIN buffers \subseteq s2.live
    BY <1>3, <1>4, IdleTry
  <1>6. Knowing(s2, "self", k, Origin)
    <2>1. \A b \in KnnBuffers : <<"self", b>> \in DOMAIN s2.alloc /\ s2.alloc[<<"self", b>>] >= k
      BY <1>2, <1>5 DEF Widened
    <2>2. s2.impl["self"].resident /\ s2.impl["self"].strategy = "indexed"
      BY <1>2, <1>5 DEF Widened, Likewise
    <2> QED BY <1>1, <1>5, <2>1, <2>2, ResidentKnowing
  <1>7. PICK s3 : /\ Runs(InBatches(KnnBatch("self", k)), s2, s3) /\ Works(InBatches(KnnBatch("self", k)))
                  /\ Knowing(s3, "self", k, Origin) /\ Batched(s2, s3, "self", k, Origin)
    BY <1>4, <1>5, <1>6, KnnBatchesRun
  <1>8. /\ Legal(s3) /\ s3.busy = {} /\ s3.frames = s2.frames /\ Present(s3)
        /\ s3.content[OnHost("result")] = Origin \union Rows(k)
    BY <1>5, <1>7, FixedHeld DEF Knowing, Batched, Fixed
  <1>9. PICK t : Moves(Leave, s3, t) /\ Idle(t) /\ t.content = s3.content
    BY <1>5, <1>8, IdleLeave
  <1>10. Final(t, c)
    <2>1. t.content[OnHost("result")] = {<<"reference", 0>>, <<"neighbors", c.k>>}
      BY <1>8, <1>9 DEF Origin, Rows
    <2>2. Post(t, c)
      BY <2>1 DEF Post
    <2> QED BY <1>9, <2>2, IdleFinal
  <1>11. Knn("self", capacity, k) =
           ((PrepareKnn("self", capacity, k) \o <<Try("self", buffers)>>) \o InBatches(KnnBatch("self", k))) \o <<Leave>>
    BY DEF Knn, KnnBatch, buffers
  <1>12. Runs(PrepareKnn("self", capacity, k) \o <<Try("self", buffers)>>, s, s2)
    BY <1>2, <1>5, RunsOne, RunsConcat
  <1>13. Runs(<<Leave>>, s3, t)
    BY <1>9, RunsOne
  <1> DEFINE p == PrepareKnn("self", capacity, k) \o <<Try("self", buffers)>>
             q == InBatches(KnnBatch("self", k))
  <1>14. Runs(p, s, s2) /\ Runs(q, s2, s3) /\ Works(q) /\ Runs(<<Leave>>, s3, t)
         /\ Knn("self", capacity, k) = (p \o q) \o <<Leave>>
    BY <1>7, <1>11, <1>12, <1>13
  <1> HIDE DEF p, q
  <1>15. Runs(p \o q, s, s3) /\ Works(p \o q)
    BY <1>14, RunsWorks
  <1>16. Runs(Knn("self", capacity, k), s, t) /\ Works(Knn("self", capacity, k))
    BY <1>14, <1>15, RunsWorks
  <1> QED BY <1>10, <1>16

-----------------------------------------------------------------------------
(***************************************************************************)
(* query_into                                                              *)
(***************************************************************************)

\* A call on the search of the context is under way, inside its handler.
Serving(s) == Legal(s) /\ Present(s) /\ Ready(s, "self") /\ "self" \in s.streams

\* What a kernel or a transfer of such a call may read and write.
Source(s, l) == /\ l \in Locations /\ l[2] \notin KnnBuffers
                /\ IF l[1] = "host" THEN l[2] \in s.live ELSE l \in DOMAIN s.alloc
Target(s, l) == Source(s, l) /\ (l[1] = "host" \/ l \in {<<"self", b>> : b \in Scratch})

\* It wrote the value v there, and nothing else.
Wrote(s, t, to, v) == /\ Fixed(s, t) /\ t.alloc = s.alloc /\ t.busy = {"self"}
                      /\ \A l \in to : t.content[l] = v
                      /\ \A l \in Locations : l \notin to => t.content[l] = s.content[l]

LEMMA Serve ==
    ASSUME NEW s, Serving(s), NEW from, \A l \in from : Source(s, l), NEW to, \A l \in to : Target(s, l),
           NEW args, NEW v, v = args \union UNION {s.content[m] : m \in from}
    PROVE  \E t : /\ Moves(Submit("self", from, args, to, 0), s, t) /\ Serving(t)
                  /\ Wrote(s, t, to, v)
  <1>1. Legal(s) /\ Present(s) /\ Ready(s, "self") /\ "self" \in s.streams /\ "self" \in Searches
    BY DEF Serving, Searches
  <1>2. ASSUME NEW l \in to, l[1] # "host" PROVE ~Settled(s, l)
    <2>1. PICK b \in Scratch : l = <<"self", b>>
      BY <1>2 DEF Target
    <2>2. b \in Owned /\ b # "covariances"
      BY DEF Scratch, Owned
    <2> QED BY <1>1, <2>1, <2>2, Unsettled
  <1>3. Operands(s, from, to, 0)
    BY <1>2 DEF Operands, Source, Target, KnnBuffers
  <1>4. PICK t : Moves(Submit("self", from, args, to, 0), s, t) /\ Legal(t) /\ Written(s, t, "self", from, args, to)
    BY <1>1, <1>3, DoSubmit
  <1>5. Wrote(s, t, to, v)
    BY <1>4 DEF Written, Wrote
  <1>6. Serving(t)
    <2>1. Present(t)
      BY <1>1, <1>5, FixedHeld DEF Wrote
    <2> QED BY <1>1, <1>4, <1>5, <2>1 DEF Serving, Wrote, Ready, Fixed
  <1> QED BY <1>4, <1>5, <1>6

LEMMA WroteSource ==
    ASSUME NEW s, NEW t, NEW to, NEW v, Wrote(s, t, to, v)
    PROVE  \A l : (Source(s, l) <=> Source(t, l)) /\ (Target(s, l) <=> Target(t, l))
  BY DEF Wrote, Fixed, Source, Target

\* The buffers of the search are sources, those written by every call are
\* targets.
LEMMA SelfSource ==
    ASSUME NEW s, NEW b \in Owned, <<"self", b>> \in DOMAIN s.alloc, b \notin KnnBuffers
    PROVE  Source(s, <<"self", b>>) /\ (b \in Scratch => Target(s, <<"self", b>>))
  BY Places DEF Source, Target, Searches

LEMMA HostSource ==
    ASSUME NEW s, NEW b \in HostBuffers, b \in s.live
    PROVE  Source(s, OnHost(b)) /\ Target(s, OnHost(b))
  BY Places DEF Source, Target, KnnBuffers, HostBuffers, OnHost

LEMMA ServingStocked ==
    ASSUME NEW s, Serving(s)
    PROVE  Stocked(s)
  BY IdleStocked DEF Serving, Legal

\* The nearest reference points of what is in queries.
LEMMA ServeNearest ==
    ASSUME NEW s, Serving(s), NEW strategy, strategy = s.impl["self"].strategy
    PROVE  \E t : /\ Moves(NearestKernel("self", strategy), s, t) /\ Serving(t)
                  /\ Wrote(s, t, {<<"self", "indices">>}, Origin \union s.content[<<"self", "queries">>])
  <1> DEFINE Q == <<"self", "queries">>
             P == {<<"self", b>> : b \in Packed(strategy)}
             F == P \union {Q}
  <1>1. Stocked(s)
    BY ServingStocked
  <1>2. Q \in DOMAIN s.alloc /\ <<"self", "indices">> \in DOMAIN s.alloc
    BY <1>1 DEF Stocked
  <1>3. \A b \in Packed(strategy) : <<"self", b>> \in DOMAIN s.alloc /\ s.content[<<"self", b>>] = Origin
    BY <1>1 DEF Stocked
  <1>4. /\ \A b \in Packed(strategy) : b \in Owned /\ b \notin KnnBuffers
        /\ "queries" \in Owned /\ "queries" \notin KnnBuffers
        /\ "indices" \in Owned /\ "indices" \notin KnnBuffers /\ "indices" \in Scratch
        /\ Packed(strategy) # {}
    BY DEF Packed, Owned, KnnBuffers, Scratch
  <1>5. \A l \in F : Source(s, l)
    <2>1. ASSUME NEW b \in Packed(strategy) PROVE Source(s, <<"self", b>>)
      BY <1>3, <1>4, SelfSource
    <2>2. Source(s, Q)
      BY <1>2, <1>4, SelfSource
    <2> QED BY <2>1, <2>2
  <1>6. Target(s, <<"self", "indices">>)
    BY <1>2, <1>4, SelfSource
  <1>7. UNION {s.content[m] : m \in F} = Origin \union s.content[Q]
    <2>1. UNION {s.content[m] : m \in P} = Origin
      <3>1. P # {} /\ \A m \in P : s.content[m] = Origin
        BY <1>3, <1>4
      <3> HIDE DEF P
      <3> QED BY <3>1, UnionSame
    <2>2. UNION {s.content[m] : m \in {Q}} = s.content[Q]
      BY UnionOne
    <2>3. UNION {s.content[m] : m \in P \union {Q}} = (UNION {s.content[m] : m \in P}) \union (UNION {s.content[m] : m \in {Q}})
      BY UnionBoth
    <2> HIDE DEF P, Q
    <2> QED BY <2>1, <2>2, <2>3
  <1>8. NearestKernel("self", strategy) = Submit("self", F, {}, {<<"self", "indices">>}, 0)
    <2>1. {<<"self", "reference">>, Q} \union (IF strategy = "indexed" THEN {<<"self", "original_indices">>, <<"self", "nodes">>} ELSE {}) = F
      BY DEF Packed
    <2> QED BY <2>1 DEF NearestKernel
  <1> DEFINE v == {} \union UNION {s.content[m] : m \in F}
  <1>9. v = Origin \union s.content[Q]
    BY <1>7
  <1> HIDE DEF F, v
  <1>10. PICK t : Moves(Submit("self", F, {}, {<<"self", "indices">>}, 0), s, t) /\ Serving(t)
                  /\ Wrote(s, t, {<<"self", "indices">>}, v)
    <2>1. \A l \in {<<"self", "indices">>} : Target(s, l)
      BY <1>6
    <2>2. v = {} \union UNION {s.content[m] : m \in F}
      BY DEF v
    <2> QED BY <1>5, <2>1, <2>2, Serve
  <1> QED BY <1>8, <1>9, <1>10

LEMMA ServeWait ==
    ASSUME NEW s, Serving(s)
    PROVE  \E t : Moves(Sync("self"), s, t) /\ Serving(t) /\ Waited(s, t)
  <1>1. PICK t : Moves(Sync("self"), s, t) /\ Legal(t) /\ Waited(s, t)
    BY DoSync DEF Serving
  <1>2. Serving(t)
    <2>1. Present(t)
      BY <1>1, FixedHeld DEF Waited, Serving
    <2> QED BY <1>1, <2>1 DEF Waited, Fixed, Serving, Ready
  <1> QED BY <1>1, <1>2

\* A transfer of one buffer to another.
LEMMA ServeCopy ==
    ASSUME NEW s, Serving(s), NEW l, Source(s, l), NEW m, Target(s, m)
    PROVE  \E t : Moves(Submit("self", {l}, {}, {m}, 0), s, t) /\ Serving(t) /\ Wrote(s, t, {m}, s.content[l])
  <1> DEFINE v == {} \union UNION {s.content[x] : x \in {l}}
  <1>1. v = s.content[l]
    BY UnionOne
  <1>2. (\A x \in {l} : Source(s, x)) /\ (\A x \in {m} : Target(s, x))
    OBVIOUS
  <1>3. v = {} \union UNION {s.content[x] : x \in {l}}
    OBVIOUS
  <1> HIDE DEF v
  <1>4. PICK t : Moves(Submit("self", {l}, {}, {m}, 0), s, t) /\ Serving(t) /\ Wrote(s, t, {m}, v)
    BY <1>2, <1>3, Serve
  <1> QED BY <1>1, <1>4

\* A call of this shape: handler in, work, handler out.
Opened(s, t, buffers) == /\ Serving(t) /\ t.frames # <<>> /\ ~Last(t.frames).owns /\ Front(t.frames) = <<>>
                         /\ t.impl = s.impl /\ t.alloc = s.alloc /\ t.uploaded = s.uploaded /\ t.neighbors = s.neighbors
                         /\ t.busy = {} /\ DOMAIN buffers \subseteq t.live
                         /\ \A b \in DOMAIN buffers : t.content[OnHost(b)] = buffers[b]
                         /\ \A l \in Searches \X Owned : t.content[l] = s.content[l]

LEMMA ServeOpen ==
    ASSUME NEW s, Idle(s), NEW buffers, DOMAIN buffers \subseteq HostBuffers
    PROVE  \E t : Moves(Try("self", buffers), s, t) /\ Opened(s, t, buffers)
  <1>1. PICK t : /\ Moves(Try("self", buffers), s, t) /\ Legal(t) /\ Entered(s, t, "self", buffers)
                 /\ Ready(t, "self") /\ "self" \in t.streams /\ Present(t) /\ t.busy = {}
                 /\ t.frames # <<>> /\ ~Last(t.frames).owns /\ Front(t.frames) = <<>>
                 /\ t.impl = s.impl /\ t.alloc = s.alloc /\ t.uploaded = s.uploaded /\ t.neighbors = s.neighbors
                 /\ DOMAIN buffers \subseteq t.live
    BY IdleTry
  <1> QED BY <1>1 DEF Opened, Serving, Entered, Kept

\* u is inside the scope that t opened.
Within(t, u) == u.frames = t.frames /\ Serving(u) /\ u.busy = {}

LEMMA ServeClose ==
    ASSUME NEW s, NEW t, NEW buffers, Opened(s, t, buffers), NEW u, Within(t, u)
    PROVE  \E v : /\ Moves(Leave, u, v) /\ Idle(v) /\ v.content = u.content /\ v.alloc = u.alloc /\ v.impl = u.impl
                  /\ v.uploaded = u.uploaded /\ v.neighbors = u.neighbors
  <1>1. Legal(u) /\ u.busy = {} /\ u.frames # <<>> /\ ~Last(u.frames).owns /\ Front(u.frames) = <<>> /\ Present(u)
    BY DEF Opened, Within, Serving
  <1> QED BY <1>1, IdleLeave

LEMMA QueryRuns ==
    ASSUME NEW s, Idle(s), NEW c, c.method = "query_into", NEW strategy, strategy = s.impl["self"].strategy,
           NEW n, c.number = n
    PROVE  \E t : Runs(QueryInto("self", strategy, n), s, t) /\ Works(QueryInto("self", strategy, n)) /\ Final(t, c)
  <1> DEFINE N == {<<"queries", n>>}
             buffers == Scopes("points", N, "result", {})
             P == OnHost("points")
             H == OnHost("result")
             Q == <<"self", "queries">>
             I == <<"self", "indices">>
  <1>1. DOMAIN buffers = {"points", "result"} /\ buffers["points"] = N /\ DOMAIN buffers \subseteq HostBuffers
    <2> HIDE DEF N
    <2>1. DOMAIN buffers = {"points", "result"} /\ buffers["points"] = N
      BY DEF Scopes
    <2> QED BY <2>1 DEF HostBuffers
  <1> HIDE DEF buffers
  <1>2. PICK s1 : Moves(Try("self", buffers), s, s1) /\ Opened(s, s1, buffers)
    BY <1>1, ServeOpen
  <1>3. Serving(s1) /\ s1.impl = s.impl /\ s1.content[P] = N /\ "points" \in s1.live /\ "result" \in s1.live
    BY <1>1, <1>2 DEF Opened
  <1>4. /\ "points" \in HostBuffers /\ "result" \in HostBuffers /\ "queries" \in Owned /\ "indices" \in Owned
        /\ "queries" \notin KnnBuffers /\ "indices" \notin KnnBuffers /\ "queries" \in Scratch /\ "indices" \in Scratch
    BY DEF HostBuffers, Owned, KnnBuffers, Scratch
  <1>5. Source(s1, P) /\ Target(s1, H) /\ Target(s1, Q) /\ Source(s1, I)
    <2>1. Q \in DOMAIN s1.alloc /\ I \in DOMAIN s1.alloc
      BY <1>3, ServingStocked DEF Stocked
    <2> QED BY <1>3, <1>4, <2>1, SelfSource, HostSource
  <1>a. Q \in Locations /\ I \in Locations /\ P \in Locations /\ H \in Locations /\ Q # I /\ H # Q /\ H # I
    <2>1. "self" \in Searches
      BY DEF Searches
    <2>2. Q \in Locations /\ I \in Locations /\ P \in Locations /\ H \in Locations
      BY <1>4, <2>1, Places
    <2>3. Q[1] = "self" /\ I[1] = "self" /\ H[1] = "host" /\ Q[2] = "queries" /\ I[2] = "indices"
      BY <1>4, <2>1, Places
    <2> HIDE DEF P, Q, I, H
    <2> QED BY <2>2, <2>3
  <1> HIDE DEF P, H, Q, I, N
  <1>6. PICK s2 : Moves(Submit("self", {P}, {}, {Q}, 0), s1, s2) /\ Serving(s2) /\ Wrote(s1, s2, {Q}, N)
    BY <1>3, <1>5, ServeCopy
  <1>7. s2.content[Q] = N /\ s2.impl = s.impl /\ Source(s2, I) /\ Target(s2, H)
    <2>1. s2.content[Q] = N /\ s2.impl = s.impl
      BY <1>3, <1>6 DEF Wrote, Fixed
    <2>2. Source(s2, I) /\ Target(s2, H)
      BY <1>5, <1>6, WroteSource
    <2> QED BY <2>1, <2>2
  <1>8. PICK s3 : /\ Moves(NearestKernel("self", strategy), s2, s3) /\ Serving(s3) /\ Wrote(s2, s3, {I}, Origin \union N)
    BY <1>6, <1>7, ServeNearest DEF I, Q
  <1>9. s3.content[I] = Origin \union N /\ Source(s3, I) /\ Target(s3, H)
    <2>1. s3.content[I] = Origin \union N
      BY <1>8 DEF Wrote
    <2>2. Source(s3, I) /\ Target(s3, H)
      BY <1>7, <1>8, WroteSource
    <2> QED BY <2>1, <2>2
  <1>10. PICK s4 : Moves(Submit("self", {I}, {}, {H}, 0), s3, s4) /\ Serving(s4) /\ Wrote(s3, s4, {H}, Origin \union N)
    BY <1>8, <1>9, ServeCopy
  <1>11. PICK s5 : Moves(Sync("self"), s4, s5) /\ Serving(s5) /\ Waited(s4, s5)
    BY <1>10, ServeWait
  <1>12. Within(s1, s5) /\ s5.content[H] = Origin \union N
    BY <1>6, <1>8, <1>10, <1>11 DEF Wrote, Waited, Within, Fixed
  <1>13. PICK t : Moves(Leave, s5, t) /\ Idle(t) /\ t.content = s5.content
    BY <1>2, <1>12, ServeClose
  <1>14. Final(t, c)
    <2>1. t.content[OnHost("result")] = {<<"reference", 0>>, <<"queries", c.number>>}
      BY <1>12, <1>13 DEF Origin, N, H
    <2>2. Post(t, c)
      BY <2>1 DEF Post
    <2> QED BY <1>13, <2>2, IdleFinal
  <1> DEFINE p == <<Try("self", buffers), Submit("self", {P}, {}, {Q}, 0), NearestKernel("self", strategy),
                    Submit("self", {I}, {}, {H}, 0), Sync("self"), Leave>>
  <1>15. QueryInto("self", strategy, n) = p
    BY DEF QueryInto, buffers, N, P, H, Q, I
  <1>16. Runs(p, s, t)
    BY <1>2, <1>6, <1>8, <1>10, <1>11, <1>13, RunsSix
  <1>17. Works(p)
    <2>1. 5 \in DOMAIN p /\ p[5].do = "sync"
      BY DEF Sync
    <2> QED BY <2>1 DEF Works
  <1> QED BY <1>14, <1>15, <1>16, <1>17

-----------------------------------------------------------------------------
(***************************************************************************)
(* download_covariances                                                    *)
(***************************************************************************)
LEMMA DownloadRuns ==
    ASSUME NEW s, Idle(s), NEW c, c.method = "download_covariances", NEW k, c.k = k, k # 0,
           k = s.impl["self"].covariance_neighbors
    PROVE  \E t : Runs(DownloadCovariances, s, t) /\ Works(DownloadCovariances) /\ Final(t, c)
  <1> DEFINE buffers == Scope("result", {})
             C == <<"self", "covariances">>
             H == OnHost("result")
  <1>1. DOMAIN buffers = {"result"} /\ DOMAIN buffers \subseteq HostBuffers
    <2>1. DOMAIN buffers = {"result"}
      BY ScopeFields
    <2> QED BY <2>1 DEF HostBuffers
  <1> HIDE DEF buffers
  <1>2. PICK s1 : Moves(Try("self", buffers), s, s1) /\ Opened(s, s1, buffers)
    BY <1>1, ServeOpen
  <1>3. Serving(s1) /\ s1.impl = s.impl /\ s1.busy = {} /\ Legal(s1)
    BY <1>2 DEF Opened, Serving
  <1>4. s1.content[C] = Origin \union Rows(k)
    <2>1. Stocked(s1)
      BY <1>3, ServingStocked
    <2>2. s1.impl["self"].covariance_neighbors = k
      BY <1>3
    <2> HIDE DEF C
    <2>3. s1.content[<<"self", "covariances">>] = Origin \union Rows(s1.impl["self"].covariance_neighbors)
      BY <2>1, <2>2 DEF Stocked
    <2> QED BY <2>2, <2>3 DEF C
  <1>5. C \in Locations /\ "result" \in HostBuffers
    BY Places DEF Searches, Owned, HostBuffers
  <1>6. PICK s2 : /\ Moves(Copy(C, H), s1, s2) /\ Legal(s2) /\ Fixed(s1, s2) /\ s2.busy = {}
                  /\ s2.content[H] = s1.content[C]
    BY <1>3, <1>5, DoCopy
  <1>7. Within(s1, s2)
    <2>1. Present(s2)
      BY <1>3, <1>6, FixedHeld DEF Serving
    <2> QED BY <1>3, <1>6, <2>1 DEF Within, Serving, Fixed, Ready
  <1>8. PICK t : Moves(Leave, s2, t) /\ Idle(t) /\ t.content = s2.content
    BY <1>2, <1>7, ServeClose
  <1>9. Final(t, c)
    <2>1. t.content[OnHost("result")] = {<<"reference", 0>>, <<"neighbors", c.k>>}
      BY <1>4, <1>6, <1>8 DEF Origin, Rows
    <2>2. Post(t, c)
      BY <2>1 DEF Post
    <2> QED BY <1>8, <2>2, IdleFinal
  <1> DEFINE p == <<Try("self", buffers), Copy(C, H), Leave>>
  <1>10. DownloadCovariances = p
    BY DEF DownloadCovariances, buffers
  <1>11. Runs(p, s, t)
    BY <1>2, <1>6, <1>8, RunsThree
  <1>12. Works(p)
    <2>1. 2 \in DOMAIN p /\ p[2].do = "copy"
      BY DEF Copy
    <2> QED BY <2>1 DEF Works
  <1> QED BY <1>9, <1>10, <1>11, <1>12

-----------------------------------------------------------------------------
(***************************************************************************)
(* evaluate                                                                *)
(***************************************************************************)
LEMMA UnionTag ==
    ASSUME NEW c, NEW l, NEW condition \in BOOLEAN
    PROVE  UNION {c[m] : m \in IF condition THEN {l} ELSE {}} = IF condition THEN c[l] ELSE {}
  <1>1. CASE condition
    BY <1>1, UnionOne
  <1>2. CASE ~condition
    BY <1>2
  <1> QED BY <1>1, <1>2

\* What an equation is computed from.
Evidence(m, normals, p) ==
    {<<"reference", 0>>, p, <<"scan", m.scan_count>>}
    \union (IF normals THEN {<<"reference_normals", 0>>} ELSE {})
    \union (IF m.has_scan_normals THEN {<<"normals", m.scan_count>>} ELSE {})
    \union (IF m.covariance_neighbors # 0 THEN {<<"neighbors", m.covariance_neighbors>>} ELSE {})

LEMMA ServeTransform ==
    ASSUME NEW s, Serving(s), s.impl["self"].scan_count # 0, NEW p
    PROVE  \E t : /\ Moves(TransformResident("self", p), s, t) /\ Serving(t)
                  /\ Wrote(s, t, {<<"self", "transformed">>, <<"self", "queries">>},
                           {p} \union {<<"scan", s.impl["self"].scan_count>>})
  <1> DEFINE S == <<"self", "scan">>
             T == <<"self", "transformed">>
             Q == <<"self", "queries">>
             n == s.impl["self"].scan_count
             v == {p} \union UNION {s.content[m] : m \in {S}}
  <1>1. Stocked(s)
    BY ServingStocked
  <1>2. /\ S \in DOMAIN s.alloc /\ T \in DOMAIN s.alloc /\ Q \in DOMAIN s.alloc
        /\ s.content[S] = {<<"scan", n>>}
    BY <1>1 DEF Stocked, Workspace
  <1>3. /\ "scan" \in Owned /\ "transformed" \in Owned /\ "queries" \in Owned
        /\ "scan" \notin KnnBuffers /\ "transformed" \notin KnnBuffers /\ "queries" \notin KnnBuffers
        /\ "transformed" \in Scratch /\ "queries" \in Scratch
    BY DEF Owned, KnnBuffers, Scratch
  <1>4. Source(s, S) /\ Target(s, T) /\ Target(s, Q)
    BY <1>2, <1>3, SelfSource
  <1>5. v = {p} \union {<<"scan", n>>}
    BY <1>2, UnionOne
  <1>6. v = {p} \union UNION {s.content[m] : m \in {S}}
    OBVIOUS
  <1>7. TransformResident("self", p) = Submit("self", {S}, {p}, {T, Q}, 0)
    BY DEF TransformResident
  <1> HIDE DEF v, S, T, Q
  <1>8. (\A l \in {S} : Source(s, l)) /\ (\A l \in {T, Q} : Target(s, l))
    BY <1>4
  <1>9. PICK t : Moves(Submit("self", {S}, {p}, {T, Q}, 0), s, t) /\ Serving(t) /\ Wrote(s, t, {T, Q}, v)
    BY <1>6, <1>8, Serve
  <1> QED BY <1>5, <1>7, <1>9 DEF T, Q

LEMMA ServeEquations ==
    ASSUME NEW s, Serving(s), NEW m, m = s.impl["self"], m.scan_count # 0, NEW p, NEW v,
           v = {p} \union {<<"scan", m.scan_count>>},
           s.content[<<"self", "transformed">>] = v, s.content[<<"self", "queries">>] = v,
           s.content[<<"self", "indices">>] = Origin \union v,
           NEW normals, normals = (<<"self", "reference_normals">> \in DOMAIN s.alloc)
    PROVE  \E t : /\ Moves(ResidentEquations("self", m, normals, p), s, t) /\ Serving(t)
                  /\ Wrote(s, t, {<<"self", "equations">>}, Evidence(m, normals, p))
  <1> DEFINE O == <<"self", "original_reference">>
             T == <<"self", "transformed">>
             Q == <<"self", "queries">>
             I == <<"self", "indices">>
             R == <<"self", "reference_normals">>
             N == <<"self", "scan_normals">>
             C == <<"self", "covariances">>
             D == <<m.scan_search, "covariances">>
             F0 == {O, T, Q, I}
             F1 == IF normals THEN {R} ELSE {}
             F2 == IF m.has_scan_normals THEN {N} ELSE {}
             F3 == IF m.covariance_neighbors # 0 THEN {C} ELSE {}
             F4 == IF m.scan_search # "none" THEN {D} ELSE {}
             F == F0 \union F1 \union F2 \union F3 \union F4
             U(X) == UNION {s.content[l] : l \in X}
             K == Rows(m.covariance_neighbors)
             S == {<<"scan", m.scan_count>>}
  <1>1. Stocked(s) /\ Sound(s) /\ Present(s) /\ "self" \in Searches
    BY ServingStocked DEF Serving, Legal, Searches
  <1>2. /\ m \in MemberType(s.neighbors) /\ m.has_scan_normals \in BOOLEAN /\ normals \in BOOLEAN
    BY <1>1 DEF Sound, Shape, MemberType
  <1>3. m.scan_search # "none" <=> m.covariance_neighbors # 0
    BY <1>1 DEF Sound, Facts
  <1>4. /\ m.resident
        /\ \A b \in Workspace : <<"self", b>> \in DOMAIN s.alloc
        /\ s.content[O] = Origin /\ (normals => s.content[R] = {<<"reference_normals", 0>>})
        /\ Q \in DOMAIN s.alloc /\ I \in DOMAIN s.alloc
    BY <1>1 DEF Stocked
  <1>5. /\ m.has_scan_normals => s.content[N] = {<<"normals", m.scan_count>>}
        /\ m.covariance_neighbors # 0 =>
             /\ C \in DOMAIN s.alloc /\ s.content[C] = Origin \union K
             /\ m.scan_search \in {"a", "b"} /\ D \in DOMAIN s.alloc /\ s.content[D] = S \union K
    BY <1>1 DEF Stocked
  <1>6. /\ "original_reference" \in Owned /\ "transformed" \in Owned /\ "queries" \in Owned /\ "indices" \in Owned
        /\ "reference_normals" \in Owned /\ "scan_normals" \in Owned /\ "covariances" \in Owned /\ "equations" \in Owned
        /\ {"original_reference", "transformed", "queries", "indices", "reference_normals", "scan_normals",
            "covariances", "equations"} \intersect KnnBuffers = {}
        /\ "equations" \in Scratch
    BY DEF Owned, KnnBuffers, Scratch
  <1>7. /\ O \in DOMAIN s.alloc /\ T \in DOMAIN s.alloc /\ N \in DOMAIN s.alloc /\ <<"self", "equations">> \in DOMAIN s.alloc
    BY <1>4 DEF Workspace
  <1>8. /\ Source(s, O) /\ Source(s, T) /\ Source(s, Q) /\ Source(s, I) /\ (normals => Source(s, R))
        /\ Source(s, N) /\ (m.covariance_neighbors # 0 => Source(s, C)) /\ Target(s, <<"self", "equations">>)
    BY <1>4, <1>5, <1>6, <1>7, SelfSource
  <1>9. m.scan_search # "none" => Source(s, D)
    <2>1. ASSUME m.scan_search # "none" PROVE Source(s, D)
      <3>1. D \in DOMAIN s.alloc /\ m.scan_search \in Searches
        BY <1>3, <1>5, <2>1 DEF Searches
      <3>2. D \in Locations /\ D[1] # "host" /\ D[2] = "covariances"
        BY <1>6, <3>1, Places
      <3> QED BY <1>6, <3>1, <3>2 DEF Source
    <2> QED BY <2>1
  <1>10. ResidentEquations("self", m, normals, p) = Submit("self", F, {p}, {<<"self", "equations">>}, 0)
    BY DEF ResidentEquations
  <1>11. U(F0) = Origin \union v
    <2>1. F0 = {O} \union {T} \union {Q} \union {I}
      OBVIOUS
    <2> HIDE DEF O, T, Q, I, F0
    <2>2. U({O}) = s.content[O] /\ U({T}) = s.content[T] /\ U({Q}) = s.content[Q] /\ U({I}) = s.content[I]
      BY UnionOne
    <2>3. U({O} \union {T}) = U({O}) \union U({T})
      BY UnionBoth
    <2>4. U({O} \union {T} \union {Q}) = U({O} \union {T}) \union U({Q})
      BY UnionBoth
    <2>5. U({O} \union {T} \union {Q} \union {I}) = U({O} \union {T} \union {Q}) \union U({I})
      BY UnionBoth
    <2>6. s.content[O] = Origin /\ s.content[T] = v /\ s.content[Q] = v /\ s.content[I] = Origin \union v
      BY <1>4 DEF O, T, Q, I
    <2> HIDE DEF U
    <2> QED BY <2>1, <2>2, <2>3, <2>4, <2>5, <2>6
  <1>12. U(F1) = IF normals THEN {<<"reference_normals", 0>>} ELSE {}
    <2> HIDE DEF R
    <2>1. U(F1) = IF normals THEN s.content[R] ELSE {}
      BY <1>2, UnionTag
    <2> HIDE DEF U, F1
    <2> QED BY <1>4, <2>1
  <1>13. U(F2) = IF m.has_scan_normals THEN {<<"normals", m.scan_count>>} ELSE {}
    <2> HIDE DEF N
    <2>1. U(F2) = IF m.has_scan_normals THEN s.content[N] ELSE {}
      BY <1>2, UnionTag
    <2> HIDE DEF U, F2
    <2> QED BY <1>5, <2>1
  <1>14. U(F3) = IF m.covariance_neighbors # 0 THEN Origin \union K ELSE {}
    <2> HIDE DEF C
    <2>1. U(F3) = IF m.covariance_neighbors # 0 THEN s.content[C] ELSE {}
      <3> DEFINE q == m.covariance_neighbors # 0
      <3>1. q \in BOOLEAN
        OBVIOUS
      <3>2. F3 = IF q THEN {C} ELSE {}
        OBVIOUS
      <3> HIDE DEF q, F3
      <3>3. U(F3) = IF q THEN s.content[C] ELSE {}
        BY <3>1, <3>2, UnionTag
      <3> QED BY <3>3 DEF q
    <2> HIDE DEF U, F3
    <2> QED BY <1>5, <2>1
  <1>15. U(F4) = IF m.covariance_neighbors # 0 THEN S \union K ELSE {}
    <2> HIDE DEF D
    <2>1. U(F4) = IF m.scan_search # "none" THEN s.content[D] ELSE {}
      <3> DEFINE q == m.scan_search # "none"
      <3>1. q \in BOOLEAN
        OBVIOUS
      <3>2. F4 = IF q THEN {D} ELSE {}
        OBVIOUS
      <3> HIDE DEF q, F4
      <3>3. U(F4) = IF q THEN s.content[D] ELSE {}
        BY <3>1, <3>2, UnionTag
      <3> QED BY <3>3 DEF q
    <2> HIDE DEF U, F4
    <2> QED BY <1>3, <1>5, <2>1
  <1> DEFINE w == {p} \union UNION {s.content[l] : l \in F}
  <1>16. w = {p} \union (U(F0) \union U(F1) \union U(F2) \union U(F3) \union U(F4))
    <2> HIDE DEF F0, F1, F2, F3, F4
    <2>1. U(F0 \union F1) = U(F0) \union U(F1)
      BY UnionBoth
    <2>2. U(F0 \union F1 \union F2) = U(F0 \union F1) \union U(F2)
      BY UnionBoth
    <2>3. U(F0 \union F1 \union F2 \union F3) = U(F0 \union F1 \union F2) \union U(F3)
      BY UnionBoth
    <2>4. U(F0 \union F1 \union F2 \union F3 \union F4) = U(F0 \union F1 \union F2 \union F3) \union U(F4)
      BY UnionBoth
    <2>5. w = {p} \union U(F0 \union F1 \union F2 \union F3 \union F4)
      OBVIOUS
    <2> HIDE DEF U, w
    <2> QED BY <2>1, <2>2, <2>3, <2>4, <2>5
  <1>17. w = Evidence(m, normals, p)
    <2> DEFINE t1 == IF normals THEN {<<"reference_normals", 0>>} ELSE {}
               t2 == IF m.has_scan_normals THEN {<<"normals", m.scan_count>>} ELSE {}
               t3 == IF m.covariance_neighbors # 0 THEN K ELSE {}
    <2>1. Evidence(m, normals, p) = Origin \union {p} \union S \union t1 \union t2 \union t3
      BY DEF Evidence, Origin, Rows
    <2>2. U(F3) \subseteq Origin \union t3 /\ t3 \subseteq U(F3)
      <3> HIDE DEF U, F3
      <3> QED BY <1>14
    <2>3. U(F4) \subseteq S \union t3
      <3> HIDE DEF U, F4
      <3> QED BY <1>15
    <2> HIDE DEF U, F0, F1, F2, F3, F4, w, t3, K, S
    <2>4. U(F0) = Origin \union {p} \union S
      BY <1>11 DEF S
    <2> HIDE DEF t1, t2
    <2>5. U(F1) = t1 /\ U(F2) = t2
      BY <1>12, <1>13 DEF t1, t2
    <2> QED BY <1>16, <2>1, <2>2, <2>3, <2>4, <2>5
  <1>18. \A l \in F : Source(s, l)
    <2> HIDE DEF O, T, Q, I, R, N, C, D
    <2> QED BY <1>8, <1>9
  <1>19. w = {p} \union UNION {s.content[l] : l \in F}
    OBVIOUS
  <1>20. \A l \in {<<"self", "equations">>} : Target(s, l)
    BY <1>8
  <1> HIDE DEF w, F
  <1>21. PICK t : Moves(Submit("self", F, {p}, {<<"self", "equations">>}, 0), s, t) /\ Serving(t)
                  /\ Wrote(s, t, {<<"self", "equations">>}, w)
    BY <1>18, <1>19, <1>20, Serve
  <1> QED BY <1>10, <1>17, <1>21

LEMMA EvaluateRuns ==
    ASSUME NEW s, Idle(s), NEW c, c.method = "evaluate", NEW n, c.number = n, NEW m, m = s.impl["self"],
           m.scan_count # 0, NEW normals, normals = (<<"self", "reference_normals">> \in DOMAIN s.alloc)
    PROVE  \E t : Runs(Evaluate(m, normals, n), s, t) /\ Works(Evaluate(m, normals, n)) /\ Final(t, c)
  <1> DEFINE p == <<"pose", n>>
             v == {p} \union {<<"scan", m.scan_count>>}
             buffers == Scope("result", {})
             H == OnHost("result")
             T == <<"self", "transformed">>
             Q == <<"self", "queries">>
             I == <<"self", "indices">>
             A == <<"self", "equations">>
             B == <<"self", "equation">>
             E == Evidence(m, normals, p)
  <1>1. DOMAIN buffers = {"result"} /\ DOMAIN buffers \subseteq HostBuffers
    <2>1. DOMAIN buffers = {"result"}
      BY ScopeFields
    <2> QED BY <2>1 DEF HostBuffers
  <1> HIDE DEF buffers
  <1>2. PICK s1 : Moves(Try("self", buffers), s, s1) /\ Opened(s, s1, buffers)
    BY <1>1, ServeOpen
  <1>3. Serving(s1) /\ s1.impl = s.impl /\ s1.alloc = s.alloc /\ "result" \in s1.live
    BY <1>1, <1>2 DEF Opened
  <1>4. /\ "equations" \in Owned /\ "equation" \in Owned /\ "result" \in HostBuffers
        /\ "equations" \notin KnnBuffers /\ "equation" \notin KnnBuffers /\ "equation" \in Scratch
        /\ "transformed" \in Owned /\ "queries" \in Owned /\ "indices" \in Owned /\ "self" \in Searches
    BY DEF Owned, KnnBuffers, Scratch, HostBuffers, Searches
  <1>5. Source(s1, A) /\ Source(s1, B) /\ Target(s1, B) /\ Target(s1, H)
    <2>1. m.resident /\ \A b \in Workspace : <<"self", b>> \in DOMAIN s1.alloc
      BY <1>3, ServingStocked DEF Stocked
    <2>2. A \in DOMAIN s1.alloc /\ B \in DOMAIN s1.alloc
      BY <2>1 DEF Workspace
    <2> QED BY <1>3, <1>4, <2>2, SelfSource, HostSource
  <1>6. /\ T \in Locations /\ Q \in Locations /\ I \in Locations /\ A \in Locations /\ B \in Locations /\ H \in Locations
        /\ T # I /\ Q # I
    BY <1>4, Places
  <1>7. PICK s2 : Moves(TransformResident("self", p), s1, s2) /\ Serving(s2) /\ Wrote(s1, s2, {T, Q}, v)
    BY <1>3, ServeTransform
  <1>8. /\ s2.impl = s.impl /\ s2.alloc = s.alloc /\ s2.content[T] = v /\ s2.content[Q] = v
        /\ Source(s2, A) /\ Source(s2, B) /\ Target(s2, B) /\ Target(s2, H) /\ s2.frames = s1.frames
    <2> HIDE DEF v, T, Q, A, B, H
    <2>1. Source(s2, A) /\ Source(s2, B) /\ Target(s2, B) /\ Target(s2, H)
      BY <1>5, <1>7, WroteSource
    <2> QED BY <1>3, <1>7, <2>1 DEF Wrote, Fixed
  <1>9. PICK s3 : /\ Moves(NearestKernel("self", m.strategy), s2, s3) /\ Serving(s3) /\ Wrote(s2, s3, {I}, Origin \union v)
    <2> HIDE DEF v
    <2>1. s2.content[<<"self", "queries">>] = v
      BY <1>8
    <2>2. m.strategy = s2.impl["self"].strategy
      BY <1>8
    <2> QED BY <1>7, <2>1, <2>2, ServeNearest
  <1>10. /\ s3.impl = s.impl /\ s3.alloc = s.alloc /\ s3.content[T] = v /\ s3.content[Q] = v /\ s3.content[I] = Origin \union v
         /\ Source(s3, A) /\ Source(s3, B) /\ Target(s3, B) /\ Target(s3, H) /\ s3.frames = s1.frames
    <2> HIDE DEF v, T, Q, A, B, H, I
    <2>1. Source(s3, A) /\ Source(s3, B) /\ Target(s3, B) /\ Target(s3, H)
      BY <1>8, <1>9, WroteSource
    <2>2. s3.content[T] = v /\ s3.content[Q] = v
      BY <1>6, <1>8, <1>9 DEF Wrote
    <2> QED BY <1>8, <1>9, <2>1, <2>2 DEF Wrote, Fixed
  <1>11. PICK s4 : Moves(ResidentEquations("self", m, normals, p), s3, s4) /\ Serving(s4) /\ Wrote(s3, s4, {A}, E)
    <2>1. m = s3.impl["self"] /\ normals = (<<"self", "reference_normals">> \in DOMAIN s3.alloc)
      BY <1>10
    <2>2. v = {p} \union {<<"scan", m.scan_count>>}
      OBVIOUS
    <2>3. s3.content[<<"self", "transformed">>] = v /\ s3.content[<<"self", "queries">>] = v
          /\ s3.content[<<"self", "indices">>] = Origin \union v
      BY <1>10
    <2> HIDE DEF v, p
    <2> QED BY <1>9, <2>1, <2>2, <2>3, ServeEquations
  <1>12. /\ s4.impl = s.impl /\ s4.alloc = s.alloc /\ s4.content[A] = E
         /\ Source(s4, A) /\ Source(s4, B) /\ Target(s4, B) /\ Target(s4, H) /\ s4.frames = s1.frames
    <2> HIDE DEF E, T, Q, A, B, H, I
    <2>1. Source(s4, A) /\ Source(s4, B) /\ Target(s4, B) /\ Target(s4, H)
      BY <1>10, <1>11, WroteSource
    <2> QED BY <1>10, <1>11, <2>1 DEF Wrote, Fixed
  <1>13. PICK s5 : Moves(MergeEquations("self"), s4, s5) /\ Serving(s5) /\ Wrote(s4, s5, {B}, E)
    <2>1. MergeEquations("self") = Submit("self", {A}, {}, {B}, 0)
      BY DEF MergeEquations
    <2> HIDE DEF A, B, E
    <2> QED BY <1>11, <1>12, <2>1, ServeCopy
  <1>14. s5.content[B] = E /\ Source(s5, B) /\ Target(s5, H) /\ s5.impl = s.impl /\ s5.alloc = s.alloc /\ s5.frames = s1.frames
    <2> HIDE DEF E, A, B, H
    <2>1. Source(s5, B) /\ Target(s5, H)
      BY <1>12, <1>13, WroteSource
    <2> QED BY <1>12, <1>13, <2>1 DEF Wrote, Fixed
  <1>15. PICK s6 : Moves(Submit("self", {B}, {}, {H}, 0), s5, s6) /\ Serving(s6) /\ Wrote(s5, s6, {H}, E)
    <2> HIDE DEF E, B, H
    <2> QED BY <1>13, <1>14, ServeCopy
  <1>16. PICK s7 : Moves(Sync("self"), s6, s7) /\ Serving(s7) /\ Waited(s6, s7)
    BY <1>15, ServeWait
  <1>17. Moves(Check, s7, s7)
    BY <1>16, DoCheck DEF Serving
  <1>18. Within(s1, s7) /\ s7.content[H] = E /\ s7.impl = s.impl /\ s7.alloc = s.alloc
    <2> HIDE DEF E, B, H
    <2> QED BY <1>14, <1>15, <1>16 DEF Wrote, Waited, Within, Fixed
  <1>19. PICK t : Moves(Leave, s7, t) /\ Idle(t) /\ t.content = s7.content /\ t.alloc = s7.alloc /\ t.impl = s7.impl
    BY <1>2, <1>18, ServeClose
  <1>20. Final(t, c)
    <2>1. t.content[OnHost("result")] = Evidence(m, normals, p) /\ t.impl["self"] = m
          /\ normals = (<<"self", "reference_normals">> \in DOMAIN t.alloc)
      BY <1>18, <1>19
    <2>2. Post(t, c)
      <3>1. c.number = n /\ t.impl["self"].scan_count # 0
        BY <2>1
      <3> QED BY <2>1, <3>1 DEF Post, Evidence
    <2> QED BY <1>19, <2>2, IdleFinal
  <1> DEFINE q == <<Try("self", buffers), TransformResident("self", p), NearestKernel("self", m.strategy),
                    ResidentEquations("self", m, normals, p), MergeEquations("self"),
                    Submit("self", {B}, {}, {H}, 0), Sync("self"), Check, Leave>>
  <1>21. Evaluate(m, normals, n) = q
    BY DEF Evaluate, buffers
  <1>22. Runs(q, s, t)
    <2> HIDE DEF p, B, H
    <2> QED BY <1>2, <1>7, <1>9, <1>11, <1>13, <1>15, <1>16, <1>17, <1>19, RunsNine
  <1>23. Works(q)
    <2>1. 7 \in DOMAIN q /\ q[7].do = "sync"
      BY DEF Sync
    <2> QED BY <2>1 DEF Works
  <1> QED BY <1>20, <1>21, <1>22, <1>23

-----------------------------------------------------------------------------
(***************************************************************************)
(* prepare_gicp                                                            *)
(***************************************************************************)

\* A buffer is allocated unless an earlier attempt left it behind.
Ensured(s, t, o, b) == /\ Fixed(s, t) /\ t.busy = s.busy
                       /\ DOMAIN t.alloc = DOMAIN s.alloc \union {<<o, b>>}
                       /\ \A l \in DOMAIN s.alloc : t.alloc[l] = s.alloc[l]
                       /\ \A l \in Locations : l # <<o, b>> => t.content[l] = s.content[l]

LEMMA EnsureRuns ==
    ASSUME NEW s, Legal(s), NEW o \in Searches, NEW b \in Owned, b \notin AfterScan, b # "reference_normals", Held(s, o),
           NEW present, b \in present <=> <<o, b>> \in DOMAIN s.alloc
    PROVE  \E t : Runs(Optional(b \notin present, <<Malloc(o, b, 1)>>), s, t) /\ Legal(t) /\ Ensured(s, t, o, b)
  <1>1. CASE b \in present
    <2>1. Optional(b \notin present, <<Malloc(o, b, 1)>>) = <<>>
      BY <1>1 DEF Optional
    <2>2. Ensured(s, s, o, b)
      BY <1>1 DEF Ensured, Fixed
    <2> QED BY <2>1, <2>2, RunsNone
  <1>2. CASE b \notin present
    <2>1. Optional(b \notin present, <<Malloc(o, b, 1)>>) = <<Malloc(o, b, 1)>>
      BY <1>2 DEF Optional
    <2>2. PICK t : Moves(Malloc(o, b, 1), s, t) /\ Legal(t) /\ Allocated(s, t, o, b, 1)
      BY <1>2, DoMalloc
    <2>3. Ensured(s, t, o, b)
      BY <2>2 DEF Ensured, Allocated
    <2> QED BY <2>1, <2>2, <2>3, RunsOne
  <1> QED BY <1>1, <1>2

\* The covariance kernel, too, finds what it needs, and no covariances count.
Covarying(u, o, k, B) ==
    /\ Knowing(u, o, k, B)
    /\ <<o, "covariances">> \in DOMAIN u.alloc /\ <<o, "invalid_covariance">> \in DOMAIN u.alloc
    /\ u.impl["self"].scan_count = 0 /\ u.impl[o].covariance_neighbors = 0

GicpBuffers == {"knn_indices", "knn_distances", "covariances", "invalid_covariance"}
Covaried(u, t, o, k, B) ==
    /\ Fixed(u, t) /\ t.alloc = u.alloc /\ t.busy = {o}
    /\ \A b \in GicpBuffers : t.content[<<o, b>>] = B \union Rows(k)
    /\ \A l \in Locations : l \notin {<<o, b>> : b \in GicpBuffers} => t.content[l] = u.content[l]

LEMMA GicpBatchOnce ==
    ASSUME NEW u, NEW o, NEW k, NEW B, Covarying(u, o, k, B)
    PROVE  \E w, t : /\ Moves(ExactKnn(o, k), u, w) /\ Moves(CovarianceKernel(o, k), w, t)
                     /\ Covarying(t, o, k, B) /\ Covaried(u, t, o, k, B)
  <1> DEFINE F == {<<o, "original_reference">>, <<o, "knn_indices">>}
             T == {<<o, "knn_indices">>, <<o, "covariances">>, <<o, "invalid_covariance">>}
  <1>1. PICK w : Moves(ExactKnn(o, k), u, w) /\ Searched(u, w, o, k, B) /\ Knowing(w, o, k, B)
    BY DoExactKnn DEF Covarying
  <1>2. Legal(w) /\ o \in Searches /\ Ready(w, o) /\ o \in w.streams /\ w.impl = u.impl /\ w.alloc = u.alloc /\ k \in Nat
    BY <1>1 DEF Knowing, Searched, Fixed
  <1>3. \A b \in Owned : <<o, b>> \in Locations /\ <<o, b>>[1] # "host" /\ <<o, b>>[2] = b
    BY <1>2, Places
  <1>4. /\ <<o, "original_reference">> \in DOMAIN w.alloc /\ w.content[<<o, "original_reference">>] = B
        /\ <<o, "knn_indices">> \in DOMAIN w.alloc /\ w.alloc[<<o, "knn_indices">>] >= k
        /\ w.content[<<o, "knn_indices">>] = B \union Rows(k)
        /\ w.content[<<o, "knn_distances">>] = B \union Rows(k)
        /\ <<o, "covariances">> \in DOMAIN w.alloc /\ <<o, "invalid_covariance">> \in DOMAIN w.alloc
    BY <1>1, <1>2 DEF Knowing, Searched, KnnInputs, KnnBuffers, Covarying
  <1>5. /\ "original_reference" \in Owned /\ "knn_indices" \in Owned /\ "covariances" \in Owned
        /\ "invalid_covariance" \in Owned /\ "knn_distances" \in Owned
    BY DEF Owned
  <1>6. ~Settled(w, <<o, "knn_indices">>) /\ ~Settled(w, <<o, "covariances">>) /\ ~Settled(w, <<o, "invalid_covariance">>)
    <2>1. w.impl["self"].scan_count = 0 /\ w.impl[o].covariance_neighbors = 0
      BY <1>2 DEF Covarying
    <2>2. "knn_indices" \in Scratch /\ "invalid_covariance" \in Scratch
      BY DEF Scratch
    <2> QED BY <1>2, <1>5, <2>1, <2>2, Unsettled
  <1>7. Operands(w, F, T, k)
    BY <1>3, <1>4, <1>5, <1>6 DEF Operands
  <1>8. PICK t : Moves(Submit(o, F, Rows(k), T, k), w, t) /\ Legal(t) /\ Written(w, t, o, F, Rows(k), T)
    BY <1>2, <1>7, DoSubmit
  <1>9. Rows(k) \union UNION {w.content[m] : m \in F} = B \union Rows(k)
    <2>1. F = {<<o, "original_reference">>} \union {<<o, "knn_indices">>}
      OBVIOUS
    <2>2. UNION {w.content[m] : m \in {<<o, "original_reference">>} \union {<<o, "knn_indices">>}}
            = (UNION {w.content[m] : m \in {<<o, "original_reference">>}}) \union (UNION {w.content[m] : m \in {<<o, "knn_indices">>}})
      BY UnionBoth
    <2>3. UNION {w.content[m] : m \in {<<o, "original_reference">>}} = B
      BY <1>4, UnionOne
    <2>4. UNION {w.content[m] : m \in {<<o, "knn_indices">>}} = B \union Rows(k)
      BY <1>4, UnionOne
    <2>5. UNION {w.content[m] : m \in F} = B \union (B \union Rows(k))
      BY <2>1, <2>2, <2>3, <2>4
    <2> HIDE DEF F
    <2> QED BY <2>5
  <1>10. Covaried(u, t, o, k, B)
    <2>1. \A l \in T : t.content[l] = B \union Rows(k)
      BY <1>8, <1>9 DEF Written
    <2>2. t.content[<<o, "knn_distances">>] = B \union Rows(k)
      <3>1. <<o, "knn_distances">> \in Locations \ T
        BY <1>3, <1>5
      <3> QED BY <1>4, <1>8, <3>1 DEF Written
    <2>3. \A b \in GicpBuffers : t.content[<<o, b>>] = B \union Rows(k)
      BY <2>1, <2>2 DEF GicpBuffers
    <2>4. \A l \in Locations : l \notin {<<o, b>> : b \in GicpBuffers} => t.content[l] = u.content[l]
      <3>1. ASSUME NEW l \in Locations, l \notin {<<o, b>> : b \in GicpBuffers} PROVE t.content[l] = u.content[l]
        <4>1. l \notin T /\ l \notin {<<o, b>> : b \in KnnBuffers}
          BY <3>1 DEF GicpBuffers, KnnBuffers
        <4> QED BY <1>1, <1>8, <4>1 DEF Written, Searched
      <3> QED BY <3>1
    <2> QED BY <1>1, <1>2, <1>8, <2>3, <2>4 DEF Covaried, Searched, Written, Fixed
  <1>11. Covarying(t, o, k, B)
    <2>1. \A b \in KnnInputs : t.content[<<o, b>>] = w.content[<<o, b>>]
      <3>1. ASSUME NEW b \in KnnInputs PROVE t.content[<<o, b>>] = w.content[<<o, b>>]
        <4>1. b \in Owned /\ b \notin {"knn_indices", "covariances", "invalid_covariance"}
          BY DEF KnnInputs, Owned
        <4>2. <<o, b>> \in Locations \ T
          BY <1>3, <4>1
        <4> QED BY <1>8, <4>2 DEF Written
      <3> QED BY <3>1
    <2>2. Fixed(w, t) /\ t.alloc = w.alloc
      BY <1>8 DEF Written
    <2>3. Knowing(t, o, k, B)
      BY <1>1, <1>8, <2>1, <2>2, KnowingKept
    <2> QED BY <1>2, <1>4, <2>2, <2>3 DEF Covarying, Fixed
  <1>12. CovarianceKernel(o, k) = Submit(o, F, Rows(k), T, k)
    BY DEF CovarianceKernel, Rows
  <1> QED BY <1>1, <1>8, <1>10, <1>11, <1>12

LEMMA GicpBatchesRun ==
    ASSUME NEW u, NEW o, NEW k, NEW B, Covarying(u, o, k, B), call.session.batches \in Nat \ {0}
    PROVE  \E t : /\ Runs(InBatches(<<ExactKnn(o, k), CovarianceKernel(o, k)>>), u, t)
                  /\ Works(InBatches(<<ExactKnn(o, k), CovarianceKernel(o, k)>>))
                  /\ Covarying(t, o, k, B) /\ Covaried(u, t, o, k, B)
  <1>1. PICK w, t : /\ Moves(ExactKnn(o, k), u, w) /\ Moves(CovarianceKernel(o, k), w, t)
                    /\ Covarying(t, o, k, B) /\ Covaried(u, t, o, k, B)
    BY GicpBatchOnce
  <1>2. PICK w2, t2 : /\ Moves(ExactKnn(o, k), t, w2) /\ Moves(CovarianceKernel(o, k), w2, t2)
                      /\ Covarying(t2, o, k, B) /\ Covaried(t, t2, o, k, B)
    BY <1>1, GicpBatchOnce
  <1>3. t = t2
    <2>1. \A l \in Locations : t.content[l] = t2.content[l]
      BY <1>1, <1>2 DEF Covaried
    <2>2. Fixed(t, t2) /\ t.alloc = t2.alloc /\ t.busy = t2.busy
      BY <1>1, <1>2 DEF Covaried
    <2>3. Sound(t) /\ Sound(t2)
      BY <1>1, <1>2 DEF Covarying, Knowing, Legal
    <2>4. CovarianceKernel(o, k).do = "submit"
      BY DEF CovarianceKernel, Submit
    <2> QED BY <1>1, <1>2, <2>1, <2>2, <2>3, <2>4, SameMachine
  <1>4. Runs(<<ExactKnn(o, k), CovarianceKernel(o, k)>>, u, t)
    BY <1>1, RunsTwo
  <1>5. Runs(<<ExactKnn(o, k), CovarianceKernel(o, k)>>, t, t)
    BY <1>2, <1>3, RunsTwo
  <1>6. Works(<<ExactKnn(o, k), CovarianceKernel(o, k)>>)
    <2> DEFINE p == <<ExactKnn(o, k), CovarianceKernel(o, k)>>
    <2>1. 1 \in DOMAIN p /\ p[1].do = "submit"
      BY DEF ExactKnn, Submit
    <2> QED BY <2>1 DEF Works
  <1> QED BY <1>1, <1>4, <1>5, <1>6, BatchesRun

\* o may be prepared for GICP; its points come from B.
Gicpable(s, o, k, B, present) ==
    /\ Legal(s) /\ s.busy = {} /\ o \in Searches /\ o \in s.streams /\ Held(s, o) /\ k \in s.neighbors /\ k # 0
    /\ \A b \in KnnInputs : <<o, b>> \in DOMAIN s.alloc /\ s.content[<<o, b>>] = B
    /\ s.impl["self"].scan_count = 0 /\ s.impl[o].covariance_neighbors = 0
    /\ \A b \in {"covariances", "invalid_covariance"} : b \in present <=> <<o, b>> \in DOMAIN s.alloc
    /\ o = "self" => B = Origin

\* It is.
Gicped(s, t, o, k, B) ==
    /\ t.busy = {} /\ t.frames = s.frames /\ t.streams = s.streams /\ t.uploaded = s.uploaded /\ t.neighbors = s.neighbors
    /\ t.impl[o].strategy = s.impl[o].strategy /\ t.impl[o].resident = s.impl[o].resident
    /\ t.impl[o].scan_search = s.impl[o].scan_search /\ t.impl[o].covariance_neighbors = k
    /\ \A p \in Searches : p # o => t.impl[p] = s.impl[p]
    /\ <<o, "covariances">> \in DOMAIN t.alloc /\ t.content[<<o, "covariances">>] = B \union Rows(k)
    /\ \A l \in Searches \X Owned : l[1] # o => t.content[l] = s.content[l]

LEMMA PrepareGicpRuns ==
    ASSUME NEW s, NEW o, NEW k, NEW B, NEW present, Gicpable(s, o, k, B, present),
           NEW capacity, capacity = s.impl[o].knn_capacity, call.session.batches \in Nat \ {0}
    PROVE  \E t : /\ Runs(PrepareGicp(o, capacity, present, k), s, t) /\ Works(PrepareGicp(o, capacity, present, k))
                  /\ Legal(t) /\ Gicped(s, t, o, k, B)
  <1> DEFINE C == <<o, "covariances">>
             V == <<o, "invalid_covariance">>
             H == OnHost("invalid")
             held == Scope("invalid", {})
  <1>1. /\ Legal(s) /\ s.busy = {} /\ o \in Searches /\ o \in s.streams /\ Held(s, o) /\ k \in s.neighbors /\ k # 0
        /\ s.impl["self"].scan_count = 0 /\ s.impl[o].covariance_neighbors = 0
        /\ Widens(s, o, k) /\ (o = "self" => B = Origin)
    BY DEF Gicpable, Widens
  <1>2. k \in Nat
    BY <1>1 DEF Legal, Sound, Shape
  <1>3. PICK s1 : Runs(PrepareKnn(o, capacity, k), s, s1) /\ Legal(s1) /\ Widened(s, s1, o, k)
    BY <1>1, PrepareKnnRuns
  <1>4. /\ s1.busy = {} /\ s1.frames = s.frames /\ s1.streams = s.streams /\ s1.uploaded = s.uploaded
        /\ s1.neighbors = s.neighbors /\ s1.impl["self"].scan_count = 0 /\ s1.impl[o].covariance_neighbors = 0
        /\ s1.impl["self"].scan_search = s.impl["self"].scan_search /\ Held(s1, o)
    <2>1. s1.impl["self"].scan_count = 0 /\ s1.impl["self"].scan_search = s.impl["self"].scan_search
      BY <1>1, <1>3 DEF Widened, Likewise, Searches
    <2> QED BY <1>1, <1>3, <2>1 DEF Widened, Likewise, Held, Owns
  <1>5. /\ "covariances" \in Owned /\ "invalid_covariance" \in Owned /\ "invalid" \in HostBuffers
        /\ {"covariances", "invalid_covariance"} \intersect AfterScan = {}
        /\ {"covariances", "invalid_covariance"} \intersect KnnBuffers = {}
        /\ {"covariances", "invalid_covariance"} \intersect KnnInputs = {} /\ "invalid_covariance" \in Scratch
    BY DEF Owned, HostBuffers, AfterScan, KnnBuffers, KnnInputs, Scratch
  <1>6. /\ C \in Locations /\ V \in Locations /\ C # V /\ V[1] # "host" /\ V[2] = "invalid_covariance"
        /\ C \in Searches \X Owned /\ H \in Locations /\ H[1] = "host" /\ H[2] = "invalid"
    BY <1>1, <1>5, Places
  <1>7. /\ "covariances" \in present <=> C \in DOMAIN s1.alloc
        /\ "invalid_covariance" \in present <=> V \in DOMAIN s1.alloc
    <2>1. C \notin {<<o, b>> : b \in KnnBuffers} /\ V \notin {<<o, b>> : b \in KnnBuffers}
      BY <1>5
    <2>2. /\ "covariances" \in present <=> C \in DOMAIN s.alloc
          /\ "invalid_covariance" \in present <=> V \in DOMAIN s.alloc
      BY DEF Gicpable
    <2> QED BY <1>3, <2>1, <2>2 DEF Widened
  <1> DEFINE x2 == Optional("covariances" \notin present, <<Malloc(o, "covariances", 1)>>)
             x3 == Optional("invalid_covariance" \notin present, <<Malloc(o, "invalid_covariance", 1)>>)
  <1>8. PICK s2 : Runs(x2, s1, s2) /\ Legal(s2) /\ Ensured(s1, s2, o, "covariances")
    BY <1>1, <1>3, <1>4, <1>5, <1>7, EnsureRuns
  <1>9. Held(s2, o) /\ ("invalid_covariance" \in present <=> V \in DOMAIN s2.alloc)
    <2>1. Fixed(s1, s2) /\ DOMAIN s2.alloc = DOMAIN s1.alloc \union {C}
      BY <1>8 DEF Ensured
    <2> QED BY <1>4, <1>6, <1>7, <2>1, FixedHeld
  <1>10. PICK s3 : Runs(x3, s2, s3) /\ Legal(s3) /\ Ensured(s2, s3, o, "invalid_covariance")
    BY <1>1, <1>5, <1>8, <1>9, EnsureRuns
  <1>11. /\ Fixed(s1, s3) /\ s3.busy = {} /\ DOMAIN s3.alloc = DOMAIN s1.alloc \union {C, V}
         /\ \A l \in DOMAIN s1.alloc : s3.alloc[l] = s1.alloc[l]
         /\ \A l \in Locations : l # C /\ l # V => s3.content[l] = s1.content[l]
    <2> HIDE DEF C, V
    <2>1. Ensured(s1, s2, o, "covariances") /\ Ensured(s2, s3, o, "invalid_covariance")
      BY <1>8, <1>10
    <2> QED BY <1>4, <2>1 DEF Ensured, Fixed, C, V
  <1>12. DOMAIN held = {"invalid"} /\ DOMAIN held \subseteq HostBuffers
    <2>1. DOMAIN held = {"invalid"}
      BY ScopeFields
    <2> QED BY <2>1 DEF HostBuffers
  <1> HIDE DEF held, x2, x3
  <1>13. PICK s4 : Moves(Try(o, held), s3, s4) /\ Legal(s4) /\ Entered(s3, s4, o, held)
    BY <1>1, <1>10, <1>11, <1>12, DoTry
  <1>14. /\ Ready(s4, o) /\ Front(s4.frames) = s.frames /\ ~Last(s4.frames).owns /\ SameOwners(s3, s4)
         /\ s4.alloc = s3.alloc /\ s4.impl = s1.impl /\ s4.streams = s.streams /\ s4.uploaded = s.uploaded
         /\ s4.neighbors = s.neighbors /\ s4.busy = {} /\ "invalid" \in s4.live
         /\ \A l \in Searches \X Owned : s4.content[l] = s3.content[l]
    BY <1>4, <1>11, <1>12, <1>13 DEF Entered, Inside, Kept, Ready, Fixed
  <1>15. Covarying(s4, o, k, B)
    <2>1. ASSUME NEW b \in KnnInputs PROVE <<o, b>> \in DOMAIN s4.alloc /\ s4.content[<<o, b>>] = B
      <3>1. b \in Owned /\ b \notin KnnBuffers /\ <<o, b>> # C /\ <<o, b>> # V
        BY <1>5, KnnNames
      <3>2. <<o, b>> \in Searches \X Owned /\ <<o, b>> \in Locations
        BY <1>1, <3>1, Places
      <3>3. <<o, b>> \in DOMAIN s.alloc /\ s.content[<<o, b>>] = B
        BY DEF Gicpable
      <3>4. <<o, b>> \notin {<<o, d>> : d \in KnnBuffers}
        BY <3>1
      <3>5. <<o, b>> \in DOMAIN s1.alloc /\ s1.content[<<o, b>>] = B
        BY <1>3, <3>2, <3>3, <3>4 DEF Widened
      <3> QED BY <1>11, <1>14, <3>1, <3>2, <3>5
    <2>2. ASSUME NEW b \in KnnBuffers PROVE <<o, b>> \in DOMAIN s4.alloc /\ s4.alloc[<<o, b>>] >= k
      <3>1. <<o, b>> \in DOMAIN s1.alloc /\ s1.alloc[<<o, b>>] >= k
        BY <1>3 DEF Widened
      <3> QED BY <1>11, <1>14, <3>1
    <2>3. o \in s4.streams /\ Legal(s4) /\ Ready(s4, o)
      BY <1>1, <1>13, <1>14
    <2>4. C \in DOMAIN s4.alloc /\ V \in DOMAIN s4.alloc /\ s4.impl["self"].scan_count = 0 /\ s4.impl[o].covariance_neighbors = 0
      BY <1>4, <1>11, <1>14
    <2> QED BY <1>1, <1>2, <2>1, <2>2, <2>3, <2>4 DEF Covarying, Knowing
  <1>16. PICK s5 : /\ Moves(Submit(o, {}, {}, {V}, 0), s4, s5) /\ Legal(s5) /\ Written(s4, s5, o, {}, {}, {V})
    <2>1. ~Settled(s4, V)
      BY <1>1, <1>5, Unsettled
    <2>2. V \in DOMAIN s4.alloc /\ o \in s4.streams
      BY <1>1, <1>11, <1>14
    <2>3. Operands(s4, {}, {V}, 0)
      BY <1>6, <2>1, <2>2 DEF Operands
    <2> QED BY <1>13, <1>14, <2>2, <2>3, DoSubmit
  <1>17. Fixed(s4, s5) /\ s5.alloc = s4.alloc /\ \A l \in Locations : l # V => s5.content[l] = s4.content[l]
    BY <1>16 DEF Written
  <1>18. Covarying(s5, o, k, B)
    <2>1. ASSUME NEW b \in KnnInputs PROVE s5.content[<<o, b>>] = s4.content[<<o, b>>]
      <3>1. <<o, b>> \in Locations /\ <<o, b>> # V
        BY <1>1, <1>5, KnnNames, Places
      <3> QED BY <1>17, <3>1
    <2>2. Knowing(s5, o, k, B)
      BY <1>15, <1>16, <1>17, <2>1, KnowingKept DEF Covarying
    <2> QED BY <1>15, <1>17, <2>2 DEF Covarying, Fixed
  <1> DEFINE batch == InBatches(<<ExactKnn(o, k), CovarianceKernel(o, k)>>)
  <1>19. PICK s6 : Runs(batch, s5, s6) /\ Works(batch) /\ Covarying(s6, o, k, B) /\ Covaried(s5, s6, o, k, B)
    BY <1>18, GicpBatchesRun
  <1>20. /\ Fixed(s4, s6) /\ s6.alloc = s4.alloc /\ Legal(s6) /\ Ready(s6, o) /\ o \in s6.streams /\ "invalid" \in s6.live
         /\ V \in DOMAIN s6.alloc /\ C \in DOMAIN s6.alloc /\ s6.content[C] = B \union Rows(k)
         /\ \A l \in Searches \X Owned : l[1] # o => s6.content[l] = s4.content[l]
    <2>1. "covariances" \in GicpBuffers
      BY DEF GicpBuffers
    <2>2. s6.content[C] = B \union Rows(k)
      BY <1>19, <2>1 DEF Covaried
    <2>3. ASSUME NEW l \in Searches \X Owned, l[1] # o PROVE s6.content[l] = s4.content[l]
      <3>1. l \in Locations /\ l # V /\ l \notin {<<o, b>> : b \in GicpBuffers}
        BY <2>3 DEF Locations
      <3> QED BY <1>17, <1>19, <3>1 DEF Covaried
    <2>4. Fixed(s4, s6) /\ s6.alloc = s4.alloc /\ Legal(s6) /\ Ready(s6, o) /\ o \in s6.streams
      BY <1>17, <1>19 DEF Covaried, Covarying, Knowing, Fixed
    <2>5. "invalid" \in s6.live /\ V \in DOMAIN s6.alloc /\ C \in DOMAIN s6.alloc
      BY <1>11, <1>14, <2>4 DEF Fixed
    <2> QED BY <2>2, <2>3, <2>4, <2>5
  <1>21. PICK s7 : /\ Moves(Submit(o, {V}, {}, {H}, 0), s6, s7) /\ Legal(s7) /\ Written(s6, s7, o, {V}, {}, {H})
    <2>1. Operands(s6, {V}, {H}, 0)
      BY <1>5, <1>6, <1>20 DEF Operands, KnnBuffers
    <2> QED BY <1>20, <2>1, DoSubmit
  <1>22. PICK s8 : Moves(Sync(o), s7, s8) /\ Legal(s8) /\ Waited(s7, s8)
    <2>1. Ready(s7, o)
      BY <1>20, <1>21 DEF Written, Fixed, Ready
    <2> QED BY <1>21, <2>1, DoSync
  <1>23. /\ Fixed(s4, s8) /\ s8.alloc = s4.alloc /\ s8.busy = {}
         /\ \A l \in Searches \X Owned : s8.content[l] = s6.content[l]
    <2>1. Fixed(s4, s8) /\ s8.alloc = s4.alloc /\ s8.busy = {} /\ s8.content = s7.content
      BY <1>20, <1>21, <1>22 DEF Written, Waited, Fixed
    <2>2. ASSUME NEW l \in Searches \X Owned PROVE s7.content[l] = s6.content[l]
      <3>1. l \in Locations /\ l # H
        BY <1>5, Places DEF Locations
      <3> QED BY <1>21, <3>1 DEF Written
    <2> QED BY <2>1, <2>2
  <1>24. Moves(Check, s8, s8)
    BY <1>22, DoCheck
  <1>25. PICK s9 : /\ Moves(Set(o, "covariance_neighbors", k), s8, s9) /\ Sound(s9) /\ KnnTrue(s9) /\ Rest(s8, s9, o)
                   /\ s9.impl[o] = Assigned(s8.impl[o], "covariance_neighbors", k) /\ (Linked(s8) => Linked(s9))
    <2>1. Sound(s8) /\ KnnTrue(s8)
      BY <1>22 DEF Legal, Steady
    <2>2. Held(s8, o)
      <3>1. Held(s3, o)
        BY <1>4, <1>11, FixedHeld
      <3>2. Held(s4, o)
        BY <1>14, <3>1 DEF SameOwners
      <3> QED BY <1>23, <3>2, FixedHeld
    <2>3. k \in s8.neighbors /\ C \in DOMAIN s8.alloc /\ s8.impl["self"].scan_count = 0
      BY <1>1, <1>4, <1>14, <1>20, <1>23 DEF Fixed
    <2>4. s8.content[C] = B \union Rows(k)
      BY <1>6, <1>20, <1>23
    <2>5. o = "self" => s8.content[<<"self", "covariances">>] = Origin \union {<<"neighbors", k>>}
      BY <1>1, <2>4 DEF Rows
    <2> HIDE DEF C
    <2>6. <<o, "covariances">> \in DOMAIN s8.alloc
      BY <2>3 DEF C
    <2> QED BY <1>1, <1>23, <2>1, <2>2, <2>3, <2>5, <2>6, SetCovariance
  <1>26. s9.frames = s4.frames /\ s9.busy = {} /\ Linked(s9)
    BY <1>22, <1>23, <1>25 DEF Rest, Fixed, Legal, Steady
  <1>27. PICK t : Moves(Leave, s9, t) /\ Sound(t) /\ KnnTrue(t) /\ (Linked(s9) => Linked(t)) /\ Left(s9, t)
    <2>1. s9.frames # <<>> /\ ~Last(s9.frames).owns
      BY <1>14, <1>26 DEF Ready
    <2> QED BY <1>25, <1>26, <2>1, DoLeave
  <1>28. Legal(t)
    BY <1>26, <1>27 DEF Legal, Steady
  <1>29. Gicped(s, t, o, k, B)
    <2>1. /\ t.busy = {} /\ t.frames = s.frames /\ t.streams = s.streams /\ t.uploaded = s.uploaded
          /\ t.neighbors = s.neighbors /\ t.impl = s9.impl /\ t.alloc = s4.alloc /\ t.content = s8.content
          /\ s8.impl = s1.impl
      BY <1>14, <1>23, <1>25, <1>26, <1>27 DEF Left, Rest, Fixed
    <2>2. /\ t.impl[o].strategy = s.impl[o].strategy /\ t.impl[o].resident = s.impl[o].resident
          /\ t.impl[o].scan_search = s.impl[o].scan_search /\ t.impl[o].covariance_neighbors = k
      <3>1. Likewise(s1.impl[o], s.impl[o])
        BY <1>3 DEF Widened
      <3>2. t.impl[o] = Assigned(s1.impl[o], "covariance_neighbors", k)
        BY <1>25, <2>1
      <3> QED BY <3>1, <3>2 DEF Likewise, Assigned
    <2>3. \A p \in Searches : p # o => t.impl[p] = s.impl[p]
      BY <1>3, <1>25, <2>1 DEF Widened, Rest
    <2>4. C \in DOMAIN t.alloc /\ t.content[C] = B \union Rows(k)
      BY <1>6, <1>20, <1>23, <2>1
    <2>5. ASSUME NEW l \in Searches \X Owned, l[1] # o PROVE t.content[l] = s.content[l]
      <3>1. l \in Locations /\ l # C /\ l # V /\ l \notin {<<o, b>> : b \in KnnBuffers}
        BY <2>5 DEF Locations
      <3>2. s1.content[l] = s.content[l]
        BY <1>3, <3>1 DEF Widened
      <3> QED BY <1>11, <1>14, <1>20, <1>23, <2>1, <2>5, <3>1, <3>2
    <2> QED BY <2>1, <2>2, <2>3, <2>4, <2>5 DEF Gicped
  <1> DEFINE y == <<Try(o, held), Submit(o, {}, {}, {V}, 0)>>
             z == <<Submit(o, {V}, {}, {H}, 0), Sync(o), Check, Set(o, "covariance_neighbors", k), Leave>>
             w == PrepareKnn(o, capacity, k)
  <1>30. Runs(y, s3, s5)
    BY <1>13, <1>16, RunsTwo
  <1>31. Runs(z, s6, t)
    BY <1>21, <1>22, <1>24, <1>25, <1>27, RunsFive
  <1>32. PrepareGicp(o, capacity, present, k) = ((((w \o x2) \o x3) \o y) \o batch) \o z
    BY DEF PrepareGicp, held, x2, x3
  <1>33. Runs(w, s, s1)
    BY <1>3
  <1> HIDE DEF w, y, z, batch
  <1>34. Runs((w \o x2) \o x3, s, s3)
    BY <1>8, <1>10, <1>33, RunsConcat
  <1>35. Runs(((w \o x2) \o x3) \o y, s, s5)
    BY <1>30, <1>34, RunsConcat
  <1>36. Runs((((w \o x2) \o x3) \o y) \o batch, s, s6) /\ Works((((w \o x2) \o x3) \o y) \o batch)
    BY <1>19, <1>35, RunsWorks
  <1>37. Runs(PrepareGicp(o, capacity, present, k), s, t) /\ Works(PrepareGicp(o, capacity, present, k))
    BY <1>31, <1>32, <1>36, RunsWorks
  <1> QED BY <1>28, <1>29, <1>37

-----------------------------------------------------------------------------
(***************************************************************************)
(* upload_scan                                                             *)
(***************************************************************************)

\* Number n is on the device, and does not count yet.
Loaded(u, n, normals, k) ==
    LET m == u.impl["self"] IN
    /\ Legal(u) /\ u.busy = {} /\ Present(u)
    /\ u.frames # <<>> /\ ~Last(u.frames).owns /\ Front(u.frames) = <<>>
    /\ m.scan_count = 0 /\ m.resident /\ m.covariance_neighbors = k
    /\ u.content[<<"self", "scan">>] = {<<"scan", n>>}
    /\ normals => u.content[<<"self", "scan_normals">>] = {<<"normals", n>>}

\* The scan_search next is made for it.
Matched(u, next, n, k) ==
    /\ u.impl["self"].scan_search = next /\ <<next, "covariances">> \in DOMAIN u.alloc
    /\ u.content[<<next, "covariances">>] = {<<"scan", n>>} \union Rows(k)

ScanSearch(next, n, k) ==
    <<Check>> \o Constructor(next, "indexed", {<<"scan", n>>}) \o PrepareResident(next, "indexed", FALSE)
    \o PrepareGicp(next, 0, {}, k) \o <<Adopt(next)>>

LEMMA Outside ==
    ASSUME NEW u, NEW n, NEW normals, NEW k, Loaded(u, n, normals, k), NEW next \in {"a", "b"},
           next # u.impl["self"].scan_search
    PROVE  /\ ~Held(u, next) /\ ~Uses(u, next) /\ u.impl[next] = Blank /\ ~Owns(u.frames, next)
           /\ Constructible(u, next)
  <1>1. /\ Legal(u) /\ Sound(u) /\ Linked(u) /\ Present(u) /\ next \in Searches /\ next # "self"
        /\ u.frames # <<>> /\ ~Last(u.frames).owns /\ Front(u.frames) = <<>> /\ u.frames \in Seq(FrameType)
    BY DEF Loaded, Legal, Steady, Searches, Sound, Shape
  <1>2. \A o : ~Owns(u.frames, o)
    <2>1. ASSUME NEW o, Owns(u.frames, o) PROVE FALSE
      <3>1. Owns(Front(u.frames), o)
        BY <1>1, <2>1, Popped
      <3> QED BY <1>1, <3>1 DEF Owns
    <2> QED BY <2>1
  <1>3. ~Held(u, next)
    BY <1>1, <1>2 DEF Held
  <1>4. ~Uses(u, next) /\ u.impl[next] = Blank
    BY <1>1, <1>3 DEF Sound, Ownership
  <1> QED BY <1>1, <1>2, <1>3, <1>4 DEF Constructible

\* The next scan_search is built, prepared and adopted.
LEMMA ScanSearchRuns ==
    ASSUME NEW u, NEW n, NEW normals, NEW k, Loaded(u, n, normals, k), k # 0, NEW next \in {"a", "b"},
           next # u.impl["self"].scan_search, call.session.batches \in Nat \ {0}
    PROVE  \E t : /\ Runs(ScanSearch(next, n, k), u, t) /\ Works(ScanSearch(next, n, k))
                  /\ Loaded(t, n, normals, k) /\ Matched(t, next, n, k) /\ t.frames = u.frames
  <1> DEFINE B == {<<"scan", n>>}
  <1>1. /\ Legal(u) /\ Sound(u) /\ KnnTrue(u) /\ Linked(u) /\ Present(u) /\ u.busy = {}
        /\ next \in Searches /\ next # "self" /\ "indexed" \in {"indexed", "tiled"} /\ "self" \in Searches
    BY DEF Loaded, Legal, Steady, Searches
  <1>2. ~Held(u, next) /\ ~Uses(u, next) /\ u.impl[next] = Blank /\ ~Owns(u.frames, next) /\ Constructible(u, next)
    BY Outside
  <1>3. Moves(Check, u, u)
    BY <1>1, DoCheck
  <1> HIDE DEF B
  <1>4. PICK s1 : /\ Runs(Constructor(next, "indexed", B), u, s1) /\ Works(Constructor(next, "indexed", B))
                  /\ Legal(s1) /\ Built(u, s1, next, "indexed", B)
    BY <1>1, <1>2, ConstructorRuns
  <1>5. /\ s1.busy = {} /\ s1.impl = u.impl /\ s1.streams = u.streams \union {next} /\ s1.neighbors = u.neighbors
        /\ s1.frames # <<>> /\ Last(s1.frames).owns /\ Last(s1.frames).on = next /\ Front(s1.frames) = u.frames
        /\ DOMAIN s1.alloc = DOMAIN u.alloc \union {<<next, b>> : b \in Packed("indexed") \union {"queries", "indices"}}
        /\ \A b \in Packed("indexed") : s1.content[<<next, b>>] = B
        /\ \A l \in Searches \X Owned : l[1] # next => s1.content[l] = u.content[l]
        /\ Owns(s1.frames, next) /\ ~Owns(s1.frames, "self")
    BY <1>1, <1>4 DEF Built, Inside, Present
  <1>6. Unprepared(s1, next, "indexed", B)
    <2>1. next \in s1.streams /\ Held(s1, next)
      BY <1>5 DEF Held
    <2>2. ~s1.impl[next].resident
      BY <1>2, <1>5 DEF Blank
    <2>3. \A b : <<next, b>> \notin DOMAIN u.alloc
      BY <1>2 DEF Uses
    <2>4. ASSUME NEW b \in Workspace \union {"reference_normals"} PROVE <<next, b>> \notin DOMAIN s1.alloc
      <3>1. b \notin Packed("indexed") \union {"queries", "indices"}
        BY DEF Workspace, Packed
      <3> QED BY <1>5, <2>3, <3>1
    <2>5. \A b \in Packed("indexed") : <<next, b>> \in DOMAIN s1.alloc /\ s1.content[<<next, b>>] = B
      BY <1>5
    <2> QED BY <1>1, <1>4, <1>5, <2>1, <2>2, <2>4, <2>5 DEF Unprepared
  <1>7. PICK s2 : /\ Runs(PrepareResident(next, "indexed", FALSE), s1, s2) /\ Legal(s2)
                  /\ Prepared(s1, s2, next, FALSE, B)
    BY <1>6, PrepareResidentRuns
  <1>8. /\ s2.busy = {} /\ s2.frames = s1.frames /\ s2.streams = s1.streams /\ s2.neighbors = s1.neighbors
        /\ s2.impl["self"] = u.impl["self"] /\ s2.impl[next] = Assigned(Blank, "resident", TRUE)
        /\ DOMAIN s2.alloc = DOMAIN s1.alloc \union {<<next, b>> : b \in Workspace}
        /\ s2.content[<<next, "original_reference">>] = B
        /\ \A l \in Searches \X Owned :
             l \notin {<<next, b>> : b \in Workspace \union {"reference_normals"}} => s2.content[l] = s1.content[l]
    <2>1. Workspace \union NormalsOf(FALSE) = Workspace
      BY DEF NormalsOf
    <2>2. DOMAIN s2.alloc = DOMAIN s1.alloc \union {<<next, b>> : b \in Workspace}
      BY <1>7, <2>1 DEF Prepared
    <2>3. s2.impl["self"] = s1.impl["self"] /\ s2.impl[next] = Assigned(s1.impl[next], "resident", TRUE)
      BY <1>1, <1>7 DEF Prepared
    <2>4. s2.busy = {} /\ s2.frames = s1.frames /\ s2.streams = s1.streams /\ s2.neighbors = s1.neighbors
      BY <1>7 DEF Prepared
    <2>5. s2.content[<<next, "original_reference">>] = B
      BY <1>7 DEF Prepared
    <2>6. \A l \in Searches \X Owned :
            l \notin {<<next, b>> : b \in Workspace \union {"reference_normals"}} => s2.content[l] = s1.content[l]
      BY <1>7 DEF Prepared
    <2> QED BY <1>2, <1>5, <2>2, <2>3, <2>4, <2>5, <2>6
  <1>9. Gicpable(s2, next, k, B, {})
    <2>1. Held(s2, next) /\ next \in s2.streams
      BY <1>5, <1>8 DEF Held
    <2>2. k \in s2.neighbors
      BY <1>1, <1>5, <1>8 DEF Loaded, Sound, Shape, MemberType
    <2>3. ASSUME NEW b \in KnnInputs PROVE <<next, b>> \in DOMAIN s2.alloc /\ s2.content[<<next, b>>] = B
      <3>1. CASE b = "original_reference"
        BY <1>8, <3>1 DEF Workspace
      <3>2. CASE b # "original_reference"
        <4>1. b \in Packed("indexed") /\ b \notin Workspace \union {"reference_normals"} /\ b \in Owned
          BY <3>2 DEF KnnInputs, Packed, Workspace, Owned
        <4>2. <<next, b>> \in Searches \X Owned /\ <<next, b>> \notin {<<next, d>> : d \in Workspace \union {"reference_normals"}}
          BY <1>1, <4>1
        <4> QED BY <1>5, <1>8, <4>1, <4>2
      <3> QED BY <3>1, <3>2
    <2>4. s2.impl["self"].scan_count = 0 /\ s2.impl[next].covariance_neighbors = 0
      BY <1>8 DEF Loaded, Assigned, Blank
    <2>5. ASSUME NEW b \in {"covariances", "invalid_covariance"} PROVE <<next, b>> \notin DOMAIN s2.alloc
      <3>1. b \notin Workspace /\ b \notin Packed("indexed") \union {"queries", "indices"}
        BY DEF Workspace, Packed
      <3>2. <<next, b>> \notin DOMAIN u.alloc
        BY <1>2 DEF Uses
      <3> QED BY <1>5, <1>8, <3>1, <3>2
    <2> QED BY <1>1, <1>5, <1>7, <1>8, <2>1, <2>2, <2>3, <2>4, <2>5 DEF Gicpable
  <1>10. PICK s3 : /\ Runs(PrepareGicp(next, 0, {}, k), s2, s3) /\ Legal(s3) /\ Gicped(s2, s3, next, k, B)
    <2>1. s2.impl[next].knn_capacity = 0
      BY <1>8 DEF Assigned, Blank
    <2> QED BY <1>9, <2>1, PrepareGicpRuns
  <1>11. /\ s3.busy = {} /\ s3.frames = s1.frames /\ s3.streams = s1.streams /\ s3.impl["self"] = u.impl["self"]
         /\ <<next, "covariances">> \in DOMAIN s3.alloc /\ s3.content[<<next, "covariances">>] = B \union Rows(k)
         /\ \A l \in Searches \X Owned : l[1] # next => s3.content[l] = s2.content[l]
    BY <1>1, <1>8, <1>10 DEF Gicped
  <1>12. \A l \in Searches \X Owned : l[1] # next => s3.content[l] = u.content[l]
    <2>1. ASSUME NEW l \in Searches \X Owned, l[1] # next PROVE s3.content[l] = u.content[l]
      <3>1. \A b : l # <<next, b>>
        BY <2>1
      <3> QED BY <1>5, <1>8, <1>11, <2>1, <3>1
    <2> QED BY <2>1
  <1>13. PICK t : Moves(Adopt(next), s3, t) /\ Legal(t) /\ Adopted(s3, t, next)
    <2>1. Present(s3)
      BY <1>1, <1>5, <1>11 DEF Present
    <2>2. s3.impl["self"].scan_count = 0 /\ s3.impl["self"].covariance_neighbors # 0
      BY <1>11 DEF Loaded
    <2>3. ~Owns(Front(s3.frames), next) /\ s3.frames # <<>> /\ Last(s3.frames).owns /\ Last(s3.frames).on = next
      BY <1>2, <1>5, <1>11
    <2> QED BY <1>10, <1>11, <2>1, <2>2, <2>3, DoAdopt
  <1>14. t.frames = u.frames /\ t.busy = {} /\ Present(t) /\ t.content = s3.content
         /\ t.impl["self"] = Assigned(u.impl["self"], "scan_search", next)
    BY <1>5, <1>11, <1>13 DEF Adopted
  <1>15. Loaded(t, n, normals, k)
    <2>1. /\ t.impl["self"].scan_count = 0 /\ t.impl["self"].resident /\ t.impl["self"].covariance_neighbors = k
      BY <1>14 DEF Loaded, Assigned
    <2>2. /\ t.content[<<"self", "scan">>] = u.content[<<"self", "scan">>]
          /\ t.content[<<"self", "scan_normals">>] = u.content[<<"self", "scan_normals">>]
      <3>1. "scan" \in Owned /\ "scan_normals" \in Owned
        BY DEF Owned
      <3> QED BY <1>1, <1>12, <1>14, <3>1
    <2> QED BY <1>13, <1>14, <2>1, <2>2 DEF Loaded
  <1>16. Matched(t, next, n, k)
    <2>1. t.impl["self"].scan_search = next
      BY <1>14 DEF Assigned
    <2>2. next # s3.impl["self"].scan_search
      BY <1>11
    <2>3. <<next, "covariances">> \in DOMAIN t.alloc
      BY <1>11, <1>13, <2>2 DEF Adopted
    <2> QED BY <1>11, <1>14, <2>1, <2>3 DEF Matched, B
  <1> DEFINE p1 == Constructor(next, "indexed", B)
             p2 == PrepareResident(next, "indexed", FALSE)
             p3 == PrepareGicp(next, 0, {}, k)
             p4 == <<Adopt(next)>>
             p0 == <<Check>>
  <1>17. ScanSearch(next, n, k) = (((p0 \o p1) \o p2) \o p3) \o p4
    BY DEF ScanSearch, B
  <1>18. Runs(p0, u, u) /\ Runs(p1, u, s1) /\ Works(p1) /\ Runs(p2, s1, s2) /\ Runs(p3, s2, s3) /\ Runs(p4, s3, t)
    BY <1>3, <1>4, <1>7, <1>10, <1>13, RunsOne
  <1> HIDE DEF p0, p1, p2, p3, p4
  <1>19. Runs(p0 \o p1, u, s1) /\ Works(p0 \o p1)
    BY <1>18, RunsWorks
  <1>20. Runs((p0 \o p1) \o p2, u, s2) /\ Works((p0 \o p1) \o p2)
    BY <1>18, <1>19, RunsWorks
  <1>21. Runs(((p0 \o p1) \o p2) \o p3, u, s3) /\ Works(((p0 \o p1) \o p2) \o p3)
    BY <1>18, <1>20, RunsWorks
  <1>22. Runs(ScanSearch(next, n, k), u, t) /\ Works(ScanSearch(next, n, k))
    BY <1>17, <1>18, <1>21, RunsWorks
  <1> QED BY <1>14, <1>15, <1>16, <1>22

\* A host buffer is loaded into the scan, which does not count.
LEMMA ServeLoad ==
    ASSUME NEW s, Serving(s), s.impl["self"].scan_count = 0, NEW b \in {"scan", "scan_normals"},
           <<"self", b>> \in DOMAIN s.alloc, NEW l, Source(s, l)
    PROVE  \E t : /\ Moves(Submit("self", {l}, {}, {<<"self", b>>}, 0), s, t) /\ Serving(t)
                  /\ Wrote(s, t, {<<"self", b>>}, s.content[l])
  <1>1. Legal(s) /\ Present(s) /\ Ready(s, "self") /\ "self" \in s.streams /\ "self" \in Searches
    BY DEF Serving, Searches
  <1>2. b \in Owned /\ b # "covariances" /\ b \notin {"knn_indices", "knn_distances"}
    BY DEF Owned
  <1>3. ~Settled(s, <<"self", b>>)
    BY <1>1, <1>2, Unsettled
  <1>4. <<"self", b>> \in Locations /\ <<"self", b>>[1] # "host" /\ <<"self", b>>[2] = b
    BY <1>1, <1>2, Places
  <1>5. Operands(s, {l}, {<<"self", b>>}, 0)
    BY <1>2, <1>3, <1>4 DEF Operands, Source, KnnBuffers
  <1>6. PICK t : /\ Moves(Submit("self", {l}, {}, {<<"self", b>>}, 0), s, t) /\ Legal(t)
                 /\ Written(s, t, "self", {l}, {}, {<<"self", b>>})
    BY <1>1, <1>5, DoSubmit
  <1>7. t.content[<<"self", b>>] = s.content[l]
    <2>1. t.content[<<"self", b>>] = {} \union UNION {s.content[m] : m \in {l}}
      BY <1>6 DEF Written
    <2> QED BY <2>1, UnionOne
  <1>8. Wrote(s, t, {<<"self", b>>}, s.content[l])
    BY <1>6, <1>7 DEF Written, Wrote
  <1>9. Serving(t)
    <2>1. Present(t)
      BY <1>1, <1>8, FixedHeld DEF Wrote
    <2> QED BY <1>1, <1>6, <1>8, <2>1 DEF Serving, Wrote, Ready, Fixed
  <1> QED BY <1>6, <1>8, <1>9

UploadStart(n) == Scopes("points", {<<"scan", n>>}, "normals", {<<"normals", n>>})
LoadNormals == Submit("self", {OnHost("normals")}, {}, {<<"self", "scan_normals">>}, 0)

LoadScan(n, normals) ==
    <<Set("self", "scan_count", 0), Try("self", UploadStart(n)),
      Submit("self", {OnHost("points")}, {}, {<<"self", "scan">>}, 0)>>
    \o Optional(normals, <<LoadNormals>>) \o <<Sync("self")>>

\* upload_scan may be called: whatever counted before.
Uploadable(s) == /\ Sound(s) /\ KnnTrue(s) /\ s.busy = {} /\ s.frames = <<>> /\ Present(s)
                 /\ s.impl["self"].resident

\* Its first half brings the points and the normals to the device.
LEMMA LoadRuns ==
    ASSUME NEW s, Uploadable(s), NEW n, NEW normals \in BOOLEAN, NEW k, k = s.impl["self"].covariance_neighbors
    PROVE  \E t : /\ Runs(LoadScan(n, normals), s, t) /\ Works(LoadScan(n, normals))
                  /\ Loaded(t, n, normals, k) /\ t.impl["self"].scan_search = s.impl["self"].scan_search
  <1> DEFINE buffers == UploadStart(n)
             P == OnHost("points")
             H == OnHost("normals")
             S == <<"self", "scan">>
             N == <<"self", "scan_normals">>
             first == <<Set("self", "scan_count", 0), Try("self", UploadStart(n)), Submit("self", {P}, {}, {S}, 0)>>
             mid == Optional(normals, <<LoadNormals>>)
  <1>1. Held(s, "self") /\ "self" \in Searches
    BY DEF Held, Searches, Uploadable, Present
  <1>2. PICK s1 : /\ Moves(Set("self", "scan_count", 0), s, s1) /\ Sound(s1) /\ KnnTrue(s1) /\ Rest(s, s1, "self")
                  /\ s1.impl["self"] = Assigned(s.impl["self"], "scan_count", 0)
                  /\ (Present(s) => Linked(s1))
    BY <1>1, SetNoScan DEF Uploadable
  <1>3. Idle(s1)
    BY <1>2 DEF Uploadable, Rest, Idle, Legal, Steady, Present
  <1>4. DOMAIN buffers = {"points", "normals"} /\ DOMAIN buffers \subseteq HostBuffers
        /\ buffers["points"] = {<<"scan", n>>} /\ buffers["normals"] = {<<"normals", n>>}
    BY DEF Scopes, UploadStart, HostBuffers
  <1> HIDE DEF buffers
  <1>5. PICK s2 : Moves(Try("self", buffers), s1, s2) /\ Opened(s1, s2, buffers)
    BY <1>3, <1>4, ServeOpen
  <1>6. /\ Serving(s2) /\ s2.impl = s1.impl /\ s2.alloc = s1.alloc
        /\ s2.content[P] = {<<"scan", n>>} /\ s2.content[H] = {<<"normals", n>>}
        /\ "points" \in s2.live /\ "normals" \in s2.live
    BY <1>4, <1>5 DEF Opened
  <1>7. /\ s2.impl["self"].scan_count = 0 /\ s2.impl["self"].resident /\ s2.impl["self"].covariance_neighbors = k
        /\ s2.impl["self"].scan_search = s.impl["self"].scan_search
    BY <1>2, <1>6 DEF Assigned, Uploadable
  <1>8. S \in DOMAIN s2.alloc /\ N \in DOMAIN s2.alloc
    <2>1. \A b \in Workspace : <<"self", b>> \in DOMAIN s2.alloc
      BY <1>6, <1>7, ServingStocked DEF Stocked
    <2> QED BY <2>1 DEF Workspace
  <1>9. Source(s2, P) /\ Source(s2, H) /\ P \in Locations /\ H \in Locations /\ S \in Locations /\ N \in Locations
        /\ P # S /\ H # S /\ H # N /\ S # N
    <2>1. "points" \in HostBuffers /\ "normals" \in HostBuffers /\ "scan" \in Owned /\ "scan_normals" \in Owned
      BY DEF HostBuffers, Owned
    <2> QED BY <1>1, <1>6, <2>1, HostSource, Places
  <1>10. PICK s3 : Moves(Submit("self", {P}, {}, {S}, 0), s2, s3) /\ Serving(s3) /\ Wrote(s2, s3, {S}, {<<"scan", n>>})
    <2> HIDE DEF P
    <2>1. "scan" \in {"scan", "scan_normals"}
      OBVIOUS
    <2>2. /\ Serving(s2) /\ s2.impl["self"].scan_count = 0 /\ <<"self", "scan">> \in DOMAIN s2.alloc
          /\ Source(s2, P)
      BY <1>6, <1>7, <1>8, <1>9
    <2>3. \E t : /\ Moves(Submit("self", {P}, {}, {<<"self", "scan">>}, 0), s2, t) /\ Serving(t)
                 /\ Wrote(s2, t, {<<"self", "scan">>}, s2.content[P])
      BY <2>1, <2>2, ServeLoad
    <2> DEFINE q == {<<"scan", n>>}
    <2>4. s2.content[P] = q
      BY <1>6
    <2> HIDE DEF q
    <2>5. \E t : /\ Moves(Submit("self", {P}, {}, {<<"self", "scan">>}, 0), s2, t) /\ Serving(t)
                 /\ Wrote(s2, t, {<<"self", "scan">>}, q)
      BY <2>3, <2>4
    <2> QED BY <2>5 DEF q
  <1>11. s3.content[S] = {<<"scan", n>>} /\ s3.content[H] = {<<"normals", n>>} /\ s3.impl = s1.impl /\ s3.alloc = s1.alloc
         /\ Source(s3, H) /\ s3.frames = s2.frames
    <2> HIDE DEF P, S, H, N
    <2>1. Source(s3, H)
      BY <1>9, <1>10, WroteSource
    <2> QED BY <1>6, <1>9, <1>10, <2>1 DEF Wrote, Fixed
  <1> DEFINE Done(v) == /\ Serving(v) /\ v.impl = s1.impl /\ v.frames = s2.frames /\ v.content[S] = {<<"scan", n>>}
                        /\ normals => v.content[N] = {<<"normals", n>>}
  <1>12. \E v : Runs(mid, s3, v) /\ Done(v)
    <2>1. CASE ~normals
      <3>1. mid = <<>>
        BY <2>1 DEF Optional
      <3> QED BY <1>10, <1>11, <2>1, <3>1, RunsNone
    <2>2. CASE normals
      <3>1. PICK v : /\ Moves(Submit("self", {H}, {}, {N}, 0), s3, v) /\ Serving(v)
                     /\ Wrote(s3, v, {N}, {<<"normals", n>>})
        <4> HIDE DEF H
        <4>1. s3.impl["self"].scan_count = 0
          BY <1>6, <1>7, <1>11
        <4>2. <<"self", "scan_normals">> \in DOMAIN s3.alloc
          BY <1>6, <1>8, <1>11
        <4>3. "scan_normals" \in {"scan", "scan_normals"}
          OBVIOUS
        <4>4. Serving(s3) /\ Source(s3, H)
          BY <1>10, <1>11
        <4>5. \E v : /\ Moves(Submit("self", {H}, {}, {<<"self", "scan_normals">>}, 0), s3, v) /\ Serving(v)
                     /\ Wrote(s3, v, {<<"self", "scan_normals">>}, s3.content[H])
          BY <4>1, <4>2, <4>3, <4>4, ServeLoad
        <4> DEFINE q == {<<"normals", n>>}
        <4>6. s3.content[H] = q
          BY <1>11
        <4> HIDE DEF q
        <4>7. \E v : /\ Moves(Submit("self", {H}, {}, {<<"self", "scan_normals">>}, 0), s3, v) /\ Serving(v)
                     /\ Wrote(s3, v, {<<"self", "scan_normals">>}, q)
          BY <4>5, <4>6
        <4> QED BY <4>7 DEF q
      <3>2. Done(v)
        <4> HIDE DEF P, S, H, N
        <4> QED BY <1>9, <1>11, <3>1 DEF Wrote, Fixed
      <3>3. mid = <<Submit("self", {H}, {}, {N}, 0)>>
        BY <2>2 DEF Optional, LoadNormals
      <3>4. Runs(mid, s3, v)
        BY <3>1, <3>3, RunsOne
      <3> QED BY <3>2, <3>4
    <2> QED BY <2>1, <2>2
  <1>13. PICK s4 : Runs(mid, s3, s4) /\ Done(s4)
    BY <1>12
  <1>14. PICK t : Moves(Sync("self"), s4, t) /\ Serving(t) /\ Waited(s4, t)
    BY <1>13, ServeWait
  <1>15. Loaded(t, n, normals, k)
    <2>1. t.frames = s2.frames /\ t.impl = s1.impl /\ t.content = s4.content /\ t.busy = {}
      BY <1>13, <1>14 DEF Waited, Fixed
    <2>2. s2.frames # <<>> /\ ~Last(s2.frames).owns /\ Front(s2.frames) = <<>>
      BY <1>5 DEF Opened
    <2>3. t.content[S] = {<<"scan", n>>} /\ (normals => t.content[N] = {<<"normals", n>>})
      BY <1>13, <2>1
    <2> QED BY <1>6, <1>7, <1>14, <2>1, <2>2, <2>3 DEF Loaded, Serving
  <1>16. t.impl["self"].scan_search = s.impl["self"].scan_search
    BY <1>6, <1>7, <1>13, <1>14 DEF Waited, Fixed
  <1>17. Runs(first, s, s3)
    <2>1. Moves(Try("self", UploadStart(n)), s1, s2)
      BY <1>5 DEF buffers
    <2> QED BY <1>2, <1>10, <2>1, RunsThree
  <1>18. Works(first)
    <2>1. 3 \in DOMAIN first /\ first[3].do = "submit"
      BY DEF Submit
    <2> QED BY <2>1 DEF Works
  <1>19. Runs(<<Sync("self")>>, s4, t)
    BY <1>14, RunsOne
  <1> HIDE DEF first, mid
  <1>20. Runs(first \o mid, s, s4) /\ Works(first \o mid)
    BY <1>13, <1>17, <1>18, RunsWorks
  <1>21. Runs((first \o mid) \o <<Sync("self")>>, s, t) /\ Works((first \o mid) \o <<Sync("self")>>)
    BY <1>19, <1>20, RunsWorks
  <1>22. LoadScan(n, normals) = (first \o mid) \o <<Sync("self")>>
    BY DEF LoadScan, first, mid
  <1> QED BY <1>15, <1>16, <1>21, <1>22

\* Its last steps make it count.
LEMMA CountRuns ==
    ASSUME NEW u, NEW n \in Nat, NEW normals \in BOOLEAN, NEW k, NEW next, Loaded(u, n, normals, k),
           k # 0 => next \in {"a", "b"} /\ Matched(u, next, n, k), NEW c, c.method = "upload_scan", c.number = n
    PROVE  \E t : Runs(<<Set("self", "has_scan_normals", normals), Set("self", "scan_count", n), Leave>>, u, t) /\ Final(t, c)
  <1>1. /\ Sound(u) /\ KnnTrue(u) /\ u.busy = {} /\ Present(u) /\ Held(u, "self") /\ u.impl["self"].scan_count = 0
        /\ u.frames # <<>> /\ ~Last(u.frames).owns /\ Front(u.frames) = <<>>
    BY DEF Loaded, Legal, Steady, Held, Present
  <1>2. PICK v : /\ Moves(Set("self", "has_scan_normals", normals), u, v) /\ Sound(v) /\ KnnTrue(v) /\ Rest(u, v, "self")
                 /\ v.impl["self"] = Assigned(u.impl["self"], "has_scan_normals", normals)
    BY <1>1, SetNormals
  <1>3. /\ v.frames = u.frames /\ v.busy = {} /\ v.alloc = u.alloc /\ v.content = u.content /\ v.streams = u.streams
        /\ v.impl["self"].scan_count = 0 /\ v.impl["self"].resident /\ v.impl["self"].covariance_neighbors = k
        /\ v.impl["self"].has_scan_normals = normals /\ v.impl["self"].scan_search = u.impl["self"].scan_search
    BY <1>1, <1>2 DEF Rest, Assigned, Loaded
  <1>4. Present(v) /\ Held(v, "self")
    BY <1>1, <1>3 DEF Present, Held
  <1>5. /\ v.content[<<"self", "scan">>] = {<<"scan", n>>}
        /\ v.impl["self"].has_scan_normals => v.content[<<"self", "scan_normals">>] = {<<"normals", n>>}
    BY <1>3 DEF Loaded
  <1>6. v.impl["self"].covariance_neighbors # 0 =>
             /\ v.impl["self"].scan_search # "none"
             /\ <<v.impl["self"].scan_search, "covariances">> \in DOMAIN v.alloc
             /\ v.content[<<v.impl["self"].scan_search, "covariances">>] =
                  {<<"scan", n>>, <<"neighbors", v.impl["self"].covariance_neighbors>>}
    <2>1. ASSUME k # 0
          PROVE  /\ v.impl["self"].scan_search = next /\ next # "none" /\ <<next, "covariances">> \in DOMAIN v.alloc
                 /\ v.content[<<next, "covariances">>] = {<<"scan", n>>, <<"neighbors", k>>}
      <3>1. {<<"scan", n>>} \union Rows(k) = {<<"scan", n>>, <<"neighbors", k>>}
        BY DEF Rows
      <3> QED BY <1>3, <2>1, <3>1 DEF Matched
    <2> QED BY <1>3, <2>1
  <1>7. PICK w : /\ Moves(Set("self", "scan_count", n), v, w) /\ Sound(w) /\ KnnTrue(w) /\ Rest(v, w, "self")
                 /\ w.impl["self"] = Assigned(v.impl["self"], "scan_count", n)
    BY <1>2, <1>3, <1>4, <1>5, <1>6, SetScan
  <1>8. w.frames = u.frames /\ w.busy = {} /\ w.impl["self"].scan_count = n /\ Present(w)
    BY <1>3, <1>4, <1>7 DEF Rest, Assigned, Present
  <1>9. PICK t : Moves(Leave, w, t) /\ Sound(t) /\ KnnTrue(t) /\ Left(w, t)
    BY <1>1, <1>7, <1>8, DoLeave
  <1>10. Final(t, c)
    <2>1. t.frames = <<>> /\ t.busy = {} /\ Present(t) /\ t.impl["self"].scan_count = n
      BY <1>1, <1>8, <1>9 DEF Left, SameOwners
    <2>2. Post(t, c)
      BY <2>1 DEF Post
    <2> QED BY <1>9, <2>1, <2>2 DEF Final
  <1>11. Runs(<<Set("self", "has_scan_normals", normals), Set("self", "scan_count", n), Leave>>, u, t)
    BY <1>2, <1>7, <1>9, RunsThree
  <1> QED BY <1>10, <1>11

LEMMA UploadRuns ==
    ASSUME NEW s, Uploadable(s), NEW n \in Nat, NEW normals \in BOOLEAN, NEW m, m = s.impl["self"],
           NEW next \in {"a", "b"}, next # m.scan_search, NEW c, c.method = "upload_scan", c.number = n,
           call.session.batches \in Nat \ {0}
    PROVE  \E t : Runs(UploadScan(m, next, n, normals), s, t) /\ Works(UploadScan(m, next, n, normals)) /\ Final(t, c)
  <1> DEFINE k == m.covariance_neighbors
             load == LoadScan(n, normals)
             search == Optional(k # 0, ScanSearch(next, n, k))
             count == <<Set("self", "has_scan_normals", normals), Set("self", "scan_count", n), Leave>>
  <1>1. PICK s1 : /\ Runs(load, s, s1) /\ Works(load) /\ Loaded(s1, n, normals, k)
                  /\ s1.impl["self"].scan_search = s.impl["self"].scan_search
    <2>1. k = s.impl["self"].covariance_neighbors
      OBVIOUS
    <2> HIDE DEF k
    <2>2. \E t : Runs(load, s, t) /\ Works(load) /\ Loaded(t, n, normals, k)
                 /\ t.impl["self"].scan_search = s.impl["self"].scan_search
      BY <2>1, LoadRuns
    <2> QED BY <2>2
  <1>2. \E v : Runs(search, s1, v) /\ Loaded(v, n, normals, k) /\ (k # 0 => Matched(v, next, n, k))
    <2>1. CASE k = 0
      <3>1. search = <<>>
        BY <2>1 DEF Optional
      <3> HIDE DEF k, search
      <3> QED BY <1>1, <2>1, <3>1, RunsNone
    <2>2. CASE k # 0
      <3>1. search = ScanSearch(next, n, k)
        BY <2>2 DEF Optional
      <3>2. next # s1.impl["self"].scan_search
        BY <1>1
      <3> HIDE DEF k, search
      <3> QED BY <1>1, <2>2, <3>1, <3>2, ScanSearchRuns
    <2> QED BY <2>1, <2>2
  <1>3. PICK v : Runs(search, s1, v) /\ Loaded(v, n, normals, k) /\ (k # 0 => Matched(v, next, n, k))
    BY <1>2
  <1>4. PICK t : Runs(count, v, t) /\ Final(t, c)
    <2> HIDE DEF k
    <2> QED BY <1>3, CountRuns
  <1>5. UploadScan(m, next, n, normals) = (load \o search) \o count
    BY DEF UploadScan, ScanSearch, UploadStart, LoadNormals, LoadScan
  <1> HIDE DEF load, search, count
  <1>6. Runs(load \o search, s, v) /\ Works(load \o search)
    BY <1>1, <1>3, RunsWorks
  <1>7. Runs(UploadScan(m, next, n, normals), s, t) /\ Works(UploadScan(m, next, n, normals))
    BY <1>4, <1>5, <1>6, RunsWorks
  <1> QED BY <1>4, <1>7

-----------------------------------------------------------------------------
(***************************************************************************)
(* prepare_resident and prepare_gicp of the search of the context, and its *)
(* constructor                                                             *)
(***************************************************************************)
LEMMA ResidentCallRuns ==
    ASSUME NEW s, Idle(s), NEW strategy, strategy = s.impl["self"].strategy, ~s.impl["self"].resident,
           \A b \in {"scan", "reference_normals", "original_reference"} : <<"self", b>> \notin DOMAIN s.alloc,
           NEW normals \in BOOLEAN, NEW c, c.method = "prepare_resident"
    PROVE  \E t : /\ Runs(PrepareResident("self", strategy, normals), s, t)
                  /\ Works(PrepareResident("self", strategy, normals)) /\ Final(t, c)
  <1>1. /\ Legal(s) /\ Sound(s) /\ s.busy = {} /\ s.frames = <<>> /\ Present(s) /\ "self" \in Searches /\ Stocked(s)
    BY IdleStocked DEF Idle, Legal, Searches
  <1>2. strategy \in {"indexed", "tiled"}
    BY <1>1 DEF Sound, Shape, MemberType
  <1>3. ASSUME NEW b \in Workspace \union {"reference_normals"} PROVE <<"self", b>> \notin DOMAIN s.alloc
    <2>1. b \in AfterScan \/ b \in {"scan", "reference_normals", "original_reference"}
      BY DEF Workspace, AfterScan
    <2>2. CASE b \in AfterScan
      BY <1>1, <2>2 DEF Sound, Equipped
    <2> QED BY <2>1, <2>2
  <1>4. \A b \in Packed(strategy) : <<"self", b>> \in DOMAIN s.alloc /\ s.content[<<"self", b>>] = Origin
    BY <1>1 DEF Stocked
  <1>5. Unprepared(s, "self", strategy, Origin)
    <2>1. "self" \in s.streams /\ Held(s, "self")
      BY <1>1 DEF Present, Held
    <2> QED BY <1>1, <1>2, <1>3, <1>4, <2>1 DEF Unprepared
  <1>6. PICK t : /\ Runs(PrepareResident("self", strategy, normals), s, t)
                 /\ Works(PrepareResident("self", strategy, normals))
                 /\ Legal(t) /\ Prepared(s, t, "self", normals, Origin)
    BY <1>5, PrepareResidentRuns
  <1>7. Idle(t)
    BY <1>1, <1>6 DEF Idle, Prepared, SameOwners
  <1>8. Post(t, c)
    BY DEF Post
  <1> QED BY <1>6, <1>7, <1>8, IdleFinal

LEMMA GicpCallRuns ==
    ASSUME NEW s, Idle(s), NEW k \in s.neighbors, k # 0, s.impl["self"].resident, s.impl["self"].strategy = "indexed",
           s.impl["self"].scan_count = 0, s.impl["self"].covariance_neighbors = 0,
           NEW present, present = {b \in Owned : <<"self", b>> \in DOMAIN s.alloc},
           NEW capacity, capacity = s.impl["self"].knn_capacity,
           NEW c, c.method = "prepare_gicp", call.session.batches \in Nat \ {0}
    PROVE  \E t : /\ Runs(PrepareGicp("self", capacity, present, k), s, t)
                  /\ Works(PrepareGicp("self", capacity, present, k)) /\ Final(t, c)
  <1>1. /\ Legal(s) /\ s.busy = {} /\ s.frames = <<>> /\ Present(s) /\ "self" \in Searches /\ Stocked(s)
    BY IdleStocked DEF Idle, Legal, Searches
  <1>2. ASSUME NEW b \in KnnInputs PROVE <<"self", b>> \in DOMAIN s.alloc /\ s.content[<<"self", b>>] = Origin
    <2>1. b \in Packed("indexed") \/ b = "original_reference"
      BY DEF KnnInputs, Packed
    <2>2. \A d \in Packed("indexed") : <<"self", d>> \in DOMAIN s.alloc /\ s.content[<<"self", d>>] = Origin
      BY <1>1 DEF Stocked
    <2>3. <<"self", "original_reference">> \in DOMAIN s.alloc /\ s.content[<<"self", "original_reference">>] = Origin
      BY <1>1 DEF Stocked, Workspace
    <2> QED BY <2>1, <2>2, <2>3
  <1>3. Gicpable(s, "self", k, Origin, present)
    <2>1. "self" \in s.streams /\ Held(s, "self")
      BY <1>1 DEF Present, Held
    <2>2. "covariances" \in Owned /\ "invalid_covariance" \in Owned
      BY DEF Owned
    <2>3. \A b \in {"covariances", "invalid_covariance"} : b \in present <=> <<"self", b>> \in DOMAIN s.alloc
      BY <2>2
    <2> QED BY <1>1, <1>2, <2>1, <2>3 DEF Gicpable
  <1>4. PICK t : /\ Runs(PrepareGicp("self", capacity, present, k), s, t)
                 /\ Works(PrepareGicp("self", capacity, present, k))
                 /\ Legal(t) /\ Gicped(s, t, "self", k, Origin)
    BY <1>3, PrepareGicpRuns
  <1>5. Idle(t)
    BY <1>1, <1>4 DEF Idle, Gicped, Present
  <1>6. Post(t, c)
    BY DEF Post
  <1> QED BY <1>4, <1>5, <1>6, IdleFinal

\* No search yet, its members set.
Fresh(s, strategy) ==
    /\ Sound(s) /\ s.busy = {} /\ s.frames = <<>> /\ s.streams = {} /\ DOMAIN s.alloc = {}
    /\ strategy \in {"indexed", "tiled"}
    /\ s.impl["self"] = Assigned(Blank, "strategy", strategy) /\ \A o \in {"a", "b"} : s.impl[o] = Blank

LEMMA ConstructRuns ==
    ASSUME NEW s, NEW strategy, Fresh(s, strategy), NEW c, c.method = "constructor"
    PROVE  \E t : /\ Runs(Constructor("self", strategy, {<<"reference", 0>>}) \o <<Leave>>, s, t)
                  /\ Works(Constructor("self", strategy, {<<"reference", 0>>}) \o <<Leave>>) /\ Final(t, c)
  <1> DEFINE p == Constructor("self", strategy, Origin)
  <1>1. "self" \in Searches /\ strategy \in {"indexed", "tiled"} /\ Sound(s) /\ s.busy = {}
    BY DEF Fresh, Searches
  <1>2. /\ s.impl["self"].strategy = strategy /\ ~s.impl["self"].resident /\ s.impl["self"].covariance_neighbors = 0
        /\ s.impl["self"].scan_count = 0 /\ s.impl["self"].scan_search = "none"
        /\ \A o \in Searches : s.impl[o].knn_capacity = 0
    BY DEF Fresh, Assigned, Blank, Searches
  <1>3. KnnTrue(s)
    BY <1>2 DEF KnnTrue
  <1>4. Constructible(s, "self")
    BY <1>2 DEF Constructible, Uses, Fresh
  <1>5. PICK s1 : Runs(p, s, s1) /\ Works(p) /\ Legal(s1) /\ Built(s, s1, "self", strategy, Origin)
    BY <1>1, <1>3, <1>4, ConstructorRuns
  <1>6. Constructed(s1) /\ s1.busy = {}
    <2>1. s1.impl = s.impl /\ "self" \in s1.streams /\ Front(s1.frames) = <<>> /\ s1.frames # <<>>
          /\ Last(s1.frames).owns /\ Last(s1.frames).on = "self" /\ s1.busy = {}
      BY <1>5 DEF Built, Inside, Fresh
    <2>2. \A b \in Packed(strategy) \union {"queries", "indices"} : <<"self", b>> \in DOMAIN s1.alloc
      BY <1>5 DEF Built
    <2>3. \A b \in Packed(strategy) : s1.content[<<"self", b>>] = Origin
      BY <1>5 DEF Built
    <2> QED BY <1>2, <2>1, <2>2, <2>3 DEF Constructed, Packed
  <1>7. PICK t : Moves(Leave, s1, t) /\ Legal(t) /\ Present(t) /\ t.busy = {} /\ t.frames = <<>>
    BY <1>5, <1>6, LeaveConstructor
  <1>8. Final(t, c)
    <2>1. Post(t, c)
      BY DEF Post
    <2> QED BY <1>7, <2>1, IdleFinal DEF Idle
  <1>9. Constructor("self", strategy, {<<"reference", 0>>}) = p
    BY DEF Origin
  <1>10. Runs(<<Leave>>, s1, t)
    BY <1>7, RunsOne
  <1> HIDE DEF p
  <1>11. Runs(p \o <<Leave>>, s, t) /\ Works(p \o <<Leave>>)
    BY <1>5, <1>10, RunsWorks
  <1> QED BY <1>8, <1>9, <1>11

-----------------------------------------------------------------------------
(***************************************************************************)
(* The calls keep the invariant                                            *)
(***************************************************************************)
LEMMA SessionFacts ==
    ASSUME HostType
    PROVE  /\ call.session.batches \in Nat \ {0}
           /\ \A k \in call.session.neighbors : k \in Nat /\ k # 0
           /\ call.session.strategies \subseteq {"indexed", "tiled"}
           /\ \A k \in UNION {s.neighbors : s \in Sessions} : k # 0
  <1>1. call.session \in Sessions
    BY DEF HostType
  <1> QED BY <1>1, CudaAssumption

\* A call begins with a script that takes the machine where it should be.
LEMMA CallBegins ==
    ASSUME HostType, NEW c, NEW b, NEW t, t = Now(c, b)', Device(c, b), Sound(t), KnnTrue(t),
           NEW method, NEW k, NEW p, Begin(method, k, p), object', object' \in BOOLEAN,
           NEW d, d = call', NEW e, Runs(p, t, e), Works(p), Final(e, d)
    PROVE  IInv'
  <1>1. /\ pc' = "call" /\ script' = p /\ call'.ok /\ call'.session = call.session /\ call'.number = call.number + 1
        /\ call' = [method |-> method, number |-> call.number + 1, ok |-> TRUE, k |-> k, session |-> call.session]
        /\ UNCHANGED <<alloc, content, stream, streams, faulted, frames, live>>
    BY DEF Begin, device
  <1>2. HostType'
    <2>1. call.number + 1 \in Nat
      BY DEF HostType
    <2> QED BY <1>1, <2>1 DEF HostType
  <1>3. Device(c, b)'
    BY <1>1 DEF Device
  <1>4. Control(t)'
    <2>1. \E f : Runs(script', t, f) /\ Final(f, call')
      BY <1>1
    <2> QED BY <1>1, <2>1 DEF Control
  <1>5. ResultCurrent'
    BY <1>1 DEF ResultCurrent
  <1> QED BY <1>2, <1>3, <1>4, <1>5 DEF IInv

LEMMA BetweenCalls ==
    ASSUME IInv, pc = "idle"
    PROVE  \E c, s : /\ s = Now(c, {}) /\ Idle(s) /\ Device(c, {}) /\ object
  <1>1. PICK c, b, s : s = Now(c, b) /\ Sound(s) /\ Device(c, b) /\ Control(s)
    BY DEF IInv
  <1>2. frames = <<>> /\ s.busy = {} /\ object /\ KnnTrue(s) /\ Linked(s)
    BY <1>1 DEF Control
  <1>3. b = {} /\ s.frames = <<>>
    BY <1>1, <1>2, NowFields
  <1>4. Idle(s)
    BY <1>1, <1>2, <1>3 DEF Idle, Legal, Steady, Linked, Owns
  <1> QED BY <1>1, <1>2, <1>3, <1>4

\* The machine on which a call begins.
LEMMA CallMachine ==
    ASSUME NEW c, NEW s, s = Now(c, {}), NEW method, NEW k, NEW p, Begin(method, k, p), UNCHANGED impl
    PROVE  /\ UNCHANGED uploaded => s = Now(c, {})'
           /\ \A t : t = Now(c, {})' => /\ t.alloc = s.alloc /\ t.content = s.content /\ t.streams = s.streams
                                        /\ t.impl = s.impl /\ t.live = s.live /\ t.frames = s.frames /\ t.busy = {}
                                        /\ t.neighbors = s.neighbors /\ t.uploaded = uploaded'
  <1>1. call'.session = call.session /\ UNCHANGED <<alloc, streams, frames, live, impl>>
    BY DEF Begin, device
  <1>2. PICK t : t = Now(c, {})'
    OBVIOUS
  <1>3. t = Machine(alloc', c, streams', impl', live', frames', {}, uploaded', call'.session.neighbors \union {0})
    BY <1>2, NowNext
  <1>4. UNCHANGED uploaded => s = t
    BY <1>1, <1>3 DEF Now
  <1>5. /\ s.alloc = alloc /\ s.content = c /\ s.streams = streams /\ s.impl = impl /\ s.live = live
        /\ s.frames = frames /\ s.busy = {} /\ s.neighbors = call.session.neighbors \union {0}
    BY NowFields
  <1>6. /\ t.alloc = alloc' /\ t.content = c /\ t.streams = streams' /\ t.impl = impl' /\ t.live = live'
        /\ t.frames = frames' /\ t.busy = {} /\ t.uploaded = uploaded'
        /\ t.neighbors = call'.session.neighbors \union {0}
    BY <1>3 DEF Machine
  <1> QED BY <1>1, <1>2, <1>4, <1>5, <1>6

\* A call of which only this is left to show.
LEMMA PlainCall ==
    ASSUME IInv, pc = "idle", NEW c, NEW s, s = Now(c, {}), Idle(s), Device(c, {}), object,
           NEW method, NEW k, NEW p, Begin(method, k, p), UNCHANGED <<object, impl, uploaded>>,
           NEW d, d = call', NEW e, Runs(p, s, e), Works(p), Final(e, d)
    PROVE  IInv'
  <1>1. s = Now(c, {})'
    BY CallMachine
  <1>2. HostType /\ object' /\ object' \in BOOLEAN
    BY DEF IInv, HostType
  <1>3. Sound(s) /\ KnnTrue(s)
    BY DEF Idle, Legal, Steady
  <1> QED BY <1>1, <1>2, <1>3, CallBegins

LEMMA CallRecord ==
    ASSUME NEW method, NEW k, NEW p, Begin(method, k, p), NEW d, d = call'
    PROVE  d.method = method /\ d.number = call.number + 1 /\ d.k = k
  BY DEF Begin

LEMMA CallQueryKeeps ==
    ASSUME IInv, CallQuery
    PROVE  IInv'
  <1>1. pc = "idle" /\ UNCHANGED <<object, impl, uploaded>>
    BY DEF CallQuery, Invoke
  <1>2. PICK c, s : s = Now(c, {}) /\ Idle(s) /\ Device(c, {}) /\ object
    BY <1>1, BetweenCalls
  <1>3. PICK p, n, g : p = QueryInto("self", g, n) /\ g = Members.strategy /\ n = call.number + 1
    OBVIOUS
  <1>4. Begin("query_into", 0, p)
    BY <1>3 DEF CallQuery, Invoke
  <1>5. PICK d : d = call'
    OBVIOUS
  <1>6. d.method = "query_into" /\ d.number = n
    BY <1>3, <1>4, <1>5, CallRecord
  <1>7. g = s.impl["self"].strategy
    BY <1>2, <1>3, NowFields DEF Members
  <1>8. PICK e : Runs(p, s, e) /\ Works(p) /\ Final(e, d)
    BY <1>2, <1>3, <1>6, <1>7, QueryRuns
  <1> QED BY <1>1, <1>2, <1>4, <1>5, <1>8, PlainCall

LEMMA CallPrepareResidentKeeps ==
    ASSUME IInv, NEW normals \in BOOLEAN, CallPrepareResident(normals)
    PROVE  IInv'
  <1>1. /\ pc = "idle" /\ UNCHANGED <<object, impl, uploaded>>
        /\ ~Members.resident /\ ~Has("scan") /\ ~Has("reference_normals") /\ ~Has("original_reference")
    BY DEF CallPrepareResident, Invoke
  <1>2. PICK c, s : s = Now(c, {}) /\ Idle(s) /\ Device(c, {}) /\ object
    BY <1>1, BetweenCalls
  <1>3. PICK p, g : p = PrepareResident("self", g, normals) /\ g = Members.strategy
    OBVIOUS
  <1>4. Begin("prepare_resident", 0, p)
    BY <1>3 DEF CallPrepareResident, Invoke
  <1>5. PICK d : d = call'
    OBVIOUS
  <1>6. d.method = "prepare_resident"
    BY <1>4, <1>5, CallRecord
  <1>7. s.impl = impl /\ s.alloc = alloc
    BY <1>2, NowFields
  <1>8. /\ g = s.impl["self"].strategy /\ ~s.impl["self"].resident
        /\ \A b \in {"scan", "reference_normals", "original_reference"} : <<"self", b>> \notin DOMAIN s.alloc
    BY <1>1, <1>3, <1>7 DEF Members, Has
  <1>9. PICK e : Runs(p, s, e) /\ Works(p) /\ Final(e, d)
    BY <1>2, <1>3, <1>6, <1>8, ResidentCallRuns
  <1> QED BY <1>1, <1>2, <1>4, <1>5, <1>9, PlainCall

LEMMA CallKnnKeeps ==
    ASSUME IInv, NEW k, k # 0, CallKnn(k)
    PROVE  IInv'
  <1>1. /\ pc = "idle" /\ UNCHANGED <<object, impl, uploaded>>
        /\ Members.resident /\ Members.strategy = "indexed" /\ k \in call.session.neighbors \union {0}
    BY DEF CallKnn, Invoke, Begin
  <1>2. PICK c, s : s = Now(c, {}) /\ Idle(s) /\ Device(c, {}) /\ object
    BY <1>1, BetweenCalls
  <1>3. PICK p, g : p = Knn("self", g, k) /\ g = Members.knn_capacity
    OBVIOUS
  <1>4. Begin("knn", k, p)
    BY <1>3 DEF CallKnn, Invoke
  <1>5. PICK d : d = call'
    OBVIOUS
  <1>6. d.method = "knn" /\ d.k = k
    BY <1>4, <1>5, CallRecord
  <1>7. s.impl = impl /\ s.neighbors = call.session.neighbors \union {0}
    BY <1>2, NowFields
  <1>8. /\ g = s.impl["self"].knn_capacity /\ s.impl["self"].resident /\ s.impl["self"].strategy = "indexed"
        /\ k \in s.neighbors
    BY <1>1, <1>3, <1>7 DEF Members
  <1>9. call.session.batches \in Nat \ {0}
    BY SessionFacts DEF IInv
  <1>10. PICK e : Runs(p, s, e) /\ Works(p) /\ Final(e, d)
    BY <1>2, <1>3, <1>6, <1>8, <1>9, KnnRuns
  <1> QED BY <1>1, <1>2, <1>4, <1>5, <1>10, PlainCall

LEMMA CallPrepareGicpKeeps ==
    ASSUME IInv, NEW k, k # 0, CallPrepareGicp(k)
    PROVE  IInv'
  <1>1. /\ pc = "idle" /\ UNCHANGED <<object, impl, uploaded>>
        /\ Members.covariance_neighbors = 0 /\ uploaded = NoUpload
        /\ Members.resident /\ Members.strategy = "indexed" /\ k \in call.session.neighbors \union {0}
    BY DEF CallPrepareGicp, Invoke, Begin
  <1>2. PICK c, s : s = Now(c, {}) /\ Idle(s) /\ Device(c, {}) /\ object
    BY <1>1, BetweenCalls
  <1>3. PICK p, g, h : /\ p = PrepareGicp("self", g, h, k) /\ g = Members.knn_capacity
                       /\ h = {b \in Owned : Has(b)}
    OBVIOUS
  <1>4. Begin("prepare_gicp", k, p)
    BY <1>3 DEF CallPrepareGicp, Invoke
  <1>5. PICK d : d = call'
    OBVIOUS
  <1>6. d.method = "prepare_gicp"
    BY <1>4, <1>5, CallRecord
  <1>7. s.impl = impl /\ s.alloc = alloc /\ s.uploaded = uploaded /\ s.neighbors = call.session.neighbors \union {0}
    BY <1>2, NowFields
  <1>8. /\ g = s.impl["self"].knn_capacity /\ s.impl["self"].resident /\ s.impl["self"].strategy = "indexed"
        /\ s.impl["self"].covariance_neighbors = 0 /\ k \in s.neighbors
        /\ h = {b \in Owned : <<"self", b>> \in DOMAIN s.alloc}
    BY <1>1, <1>3, <1>7 DEF Members, Has
  <1>9. s.impl["self"].scan_count = 0
    <2>1. s.uploaded.number = 0
      BY <1>1, <1>7 DEF NoUpload
    <2> QED BY <1>2, <2>1 DEF Idle, Legal, Steady, Linked
  <1>10. call.session.batches \in Nat \ {0}
    BY SessionFacts DEF IInv
  <1>11. PICK e : Runs(p, s, e) /\ Works(p) /\ Final(e, d)
    BY <1>2, <1>3, <1>6, <1>8, <1>9, <1>10, GicpCallRuns
  <1> QED BY <1>1, <1>2, <1>4, <1>5, <1>11, PlainCall

LEMMA CallEvaluateKeeps ==
    ASSUME IInv, CallEvaluate
    PROVE  IInv'
  <1>1. pc = "idle" /\ UNCHANGED <<object, impl, uploaded>> /\ Members.scan_count # 0
    BY DEF CallEvaluate, Invoke
  <1>2. PICK c, s : s = Now(c, {}) /\ Idle(s) /\ Device(c, {}) /\ object
    BY <1>1, BetweenCalls
  <1>3. PICK p, m, g, n : /\ p = Evaluate(m, g, n) /\ m = Members /\ g = Has("reference_normals")
                          /\ n = call.number + 1
    OBVIOUS
  <1>4. Begin("evaluate", 0, p)
    BY <1>3 DEF CallEvaluate, Invoke
  <1>5. PICK d : d = call'
    OBVIOUS
  <1>6. d.method = "evaluate" /\ d.number = n
    BY <1>3, <1>4, <1>5, CallRecord
  <1>7. s.impl = impl /\ s.alloc = alloc
    BY <1>2, NowFields
  <1>8. m = s.impl["self"] /\ m.scan_count # 0 /\ g = (<<"self", "reference_normals">> \in DOMAIN s.alloc)
    BY <1>1, <1>3, <1>7 DEF Members, Has
  <1>9. PICK e : Runs(p, s, e) /\ Works(p) /\ Final(e, d)
    BY <1>2, <1>3, <1>6, <1>8, EvaluateRuns
  <1> QED BY <1>1, <1>2, <1>4, <1>5, <1>9, PlainCall

LEMMA CallDownloadKeeps ==
    ASSUME IInv, CallDownloadCovariances
    PROVE  IInv'
  <1>1. pc = "idle" /\ UNCHANGED <<object, impl, uploaded>> /\ Members.covariance_neighbors # 0
    BY DEF CallDownloadCovariances, Invoke
  <1>2. PICK c, s : s = Now(c, {}) /\ Idle(s) /\ Device(c, {}) /\ object
    BY <1>1, BetweenCalls
  <1>3. PICK p, k : p = DownloadCovariances /\ k = Members.covariance_neighbors
    OBVIOUS
  <1>4. Begin("download_covariances", k, p)
    BY <1>3 DEF CallDownloadCovariances, Invoke
  <1>5. PICK d : d = call'
    OBVIOUS
  <1>6. d.method = "download_covariances" /\ d.k = k
    BY <1>4, <1>5, CallRecord
  <1>7. k = s.impl["self"].covariance_neighbors /\ k # 0
    BY <1>1, <1>2, <1>3, NowFields DEF Members
  <1>8. PICK e : Runs(p, s, e) /\ Works(p) /\ Final(e, d)
    BY <1>2, <1>3, <1>6, <1>7, DownloadRuns
  <1> QED BY <1>1, <1>2, <1>4, <1>5, <1>8, PlainCall

LEMMA CallUploadScanKeeps ==
    ASSUME IInv, NEW normals \in BOOLEAN, CallUploadScan(normals)
    PROVE  IInv'
  <1>1. pc = "idle" /\ UNCHANGED <<object, impl>> /\ Members.resident /\ uploaded' = NoUpload
    BY DEF CallUploadScan, Invoke
  <1>2. PICK c, s : s = Now(c, {}) /\ Idle(s) /\ Device(c, {}) /\ object
    BY <1>1, BetweenCalls
  <1>3. PICK p, m, next, n : /\ p = UploadScan(m, next, n, normals) /\ m = Members
                             /\ next = (IF Members.scan_search = "a" THEN "b" ELSE "a") /\ n = call.number + 1
    OBVIOUS
  <1>4. Begin("upload_scan", 0, p)
    BY <1>3 DEF CallUploadScan, Invoke
  <1>5. PICK d : d = call'
    OBVIOUS
  <1>6. d.method = "upload_scan" /\ d.number = n
    BY <1>3, <1>4, <1>5, CallRecord
  <1>7. PICK t : t = Now(c, {})'
    OBVIOUS
  <1>8. /\ t.alloc = s.alloc /\ t.content = s.content /\ t.streams = s.streams /\ t.impl = s.impl /\ t.live = s.live
        /\ t.frames = s.frames /\ t.busy = {} /\ t.neighbors = s.neighbors
    BY <1>1, <1>2, <1>4, <1>7, CallMachine
  <1>9. s.impl = impl /\ s.busy = {} /\ s.frames = <<>> /\ Present(s) /\ Sound(s) /\ KnnTrue(s)
    BY <1>2, NowFields DEF Idle, Legal, Steady
  <1>10. Sound(t)
    <2>1. Shape(t)
      BY <1>8, <1>9 DEF Sound, Shape
    <2>2. Ownership(t)
      <3>1. \A o \in Searches : (Uses(t, o) <=> Uses(s, o)) /\ (Held(t, o) <=> Held(s, o))
        BY <1>8 DEF Uses, Held
      <3> QED BY <1>8, <1>9, <3>1 DEF Sound, Ownership
    <2>3. Busy(t)
      BY <1>8 DEF Busy
    <2>4. Equipped(t)
      BY <1>8, <1>9 DEF Sound, Equipped
    <2>5. Facts(t)
      <3>1. Present(t) <=> Present(s)
        BY <1>8 DEF Present
      <3>2. \A l : (Settled(t, l) <=> Settled(s, l)) /\ Expected(t, l) = Expected(s, l)
        BY <1>8 DEF Settled, Expected
      <3> QED BY <1>8, <1>9, <3>1, <3>2 DEF Sound, Facts
    <2> QED BY <2>1, <2>2, <2>3, <2>4, <2>5 DEF Sound
  <1>11. KnnTrue(t)
    BY <1>8, <1>9 DEF KnnTrue
  <1>12. Uploadable(t) /\ m = t.impl["self"] /\ next \in {"a", "b"} /\ next # m.scan_search
    <2>1. m = t.impl["self"] /\ m.resident
      BY <1>1, <1>3, <1>8, <1>9 DEF Members
    <2>2. Present(t)
      BY <1>8, <1>9 DEF Present
    <2>3. next \in {"a", "b"} /\ next # m.scan_search
      BY <1>3
    <2> QED BY <1>8, <1>9, <1>10, <1>11, <2>1, <2>2, <2>3 DEF Uploadable
  <1>13. HostType /\ call.session.batches \in Nat \ {0} /\ n \in Nat
    BY <1>3, SessionFacts DEF IInv, HostType
  <1>14. PICK e : Runs(p, t, e) /\ Works(p) /\ Final(e, d)
    BY <1>3, <1>6, <1>12, <1>13, UploadRuns
  <1>15. object' /\ object' \in BOOLEAN /\ Device(c, {})
    BY <1>1, <1>2, <1>13 DEF HostType
  <1> QED BY <1>4, <1>5, <1>7, <1>10, <1>11, <1>13, <1>14, <1>15, CallBegins

\* A machine with no search in it, but for the members of the first.
LEMMA EmptySound ==
    ASSUME NEW s, NEW strategy \in {"indexed", "tiled"},
           DOMAIN s.alloc = {}, s.streams = {}, s.frames = <<>>, s.busy = {},
           s.content = [l \in Locations |-> s.content[l]], s.neighbors \subseteq Nat, 0 \in s.neighbors,
           s.live \subseteq HostBuffers, s.impl = [o \in Searches |-> s.impl[o]],
           s.impl["self"] = Assigned(Blank, "strategy", strategy), \A o \in {"a", "b"} : s.impl[o] = Blank
    PROVE  Sound(s) /\ KnnTrue(s) /\ Fresh(s, strategy)
  <1>1. /\ \A o \in Searches : /\ ~s.impl[o].resident /\ s.impl[o].knn_capacity = 0
                               /\ s.impl[o].covariance_neighbors = 0 /\ s.impl[o].scan_count = 0
                               /\ s.impl[o].scan_search = "none"
        /\ \A o \in Searches : s.impl[o] \in MemberType(s.neighbors)
    <2>1. /\ Assigned(Blank, "strategy", strategy) \in MemberType(s.neighbors)
          /\ Assigned(Blank, "strategy", strategy) =
               [strategy |-> strategy, resident |-> FALSE, knn_capacity |-> 0, covariance_neighbors |-> 0,
                scan_count |-> 0, has_scan_normals |-> FALSE, scan_search |-> "none"]
      BY DEF Assigned, Blank, MemberType
    <2>2. Blank \in MemberType(s.neighbors)
      BY DEF Blank, MemberType
    <2>3. \A o \in Searches : o = "self" \/ o \in {"a", "b"}
      BY DEF Searches
    <2>4. \A o \in Searches : s.impl[o] = Blank \/ s.impl[o] = Assigned(Blank, "strategy", strategy)
      BY <2>3
    <2> QED BY <2>1, <2>2, <2>4 DEF Blank
  <1>2. /\ \A o : ~Owns(s.frames, o) /\ ~Uses(s, o)
        /\ Held(s, "self") /\ ~Present(s)
    BY DEF Owns, Uses, Held, Present
  <1>3. Shape(s)
    <2>1. <<>> \in Seq(FrameType)
      OBVIOUS
    <2> QED BY <1>1, <2>1 DEF Shape
  <1>4. Ownership(s)
    <2>1. \A o \in Searches : ~Held(s, o) => s.impl[o] = Blank
      BY <1>2 DEF Searches
    <2> QED BY <1>2, <2>1 DEF Ownership
  <1>5. Busy(s) /\ Equipped(s) /\ Facts(s) /\ KnnTrue(s)
    BY <1>1, <1>2 DEF Busy, Equipped, Facts, KnnTrue
  <1>6. Sound(s)
    BY <1>3, <1>4, <1>5 DEF Sound
  <1> QED BY <1>5, <1>6 DEF Fresh

LEMMA ConstructKeeps ==
    ASSUME IInv, NEW strategy \in {"indexed", "tiled"}, Construct(strategy)
    PROVE  IInv'
  <1>1. /\ pc = "none" /\ object' = TRUE /\ uploaded' = NoUpload
        /\ impl' = [impl EXCEPT !["self"] = Assigned(Blank, "strategy", strategy)]
    BY DEF Construct
  <1>2. PICK c, b, s : s = Now(c, b) /\ Sound(s) /\ Device(c, b) /\ Control(s)
    BY DEF IInv
  <1>3. /\ s.alloc = alloc /\ s.content = c /\ s.streams = streams /\ s.impl = impl /\ s.live = live
        /\ s.frames = frames /\ s.busy = b /\ s.neighbors = call.session.neighbors \union {0}
    BY <1>2, NowFields
  <1>4. b = {} /\ Bare(s)
    BY <1>1, <1>2, <1>3 DEF Control
  <1>5. PICK p : p = Constructor("self", strategy, {<<"reference", 0>>}) \o <<Leave>>
    OBVIOUS
  <1>6. Begin("constructor", 0, p)
    BY <1>5 DEF Construct
  <1>7. PICK d : d = call'
    OBVIOUS
  <1>8. d.method = "constructor"
    BY <1>6, <1>7, CallRecord
  <1>9. PICK t : t = Now(c, b)'
    OBVIOUS
  <1>10. /\ t.alloc = s.alloc /\ t.content = c /\ t.streams = s.streams /\ t.live = s.live
         /\ t.frames = s.frames /\ t.busy = {} /\ t.neighbors = s.neighbors
         /\ t.impl = [impl EXCEPT !["self"] = Assigned(Blank, "strategy", strategy)]
    <2>1. t = Machine(alloc', c, streams', impl', live', frames', b, uploaded', call'.session.neighbors \union {0})
      BY <1>9, NowNext
    <2>2. call'.session = call.session /\ UNCHANGED <<alloc, streams, frames, live>>
      BY <1>6 DEF Begin, device
    <2> QED BY <1>1, <1>3, <1>4, <2>1, <2>2 DEF Machine
  <1>11. /\ t.impl = [o \in Searches |-> t.impl[o]]
         /\ t.impl["self"] = Assigned(Blank, "strategy", strategy) /\ \A o \in {"a", "b"} : t.impl[o] = Blank
    <2>1. impl = [o \in Searches |-> Blank]
      BY <1>3, <1>4 DEF Bare
    <2> QED BY <1>10, <2>1 DEF Searches
  <1>12. Sound(t) /\ KnnTrue(t) /\ Fresh(t, strategy)
    <2>1. /\ DOMAIN t.alloc = {} /\ t.streams = {} /\ t.frames = <<>> /\ t.busy = {}
      BY <1>4, <1>10 DEF Bare
    <2>2. /\ t.content = [l \in Locations |-> t.content[l]] /\ t.neighbors \subseteq Nat /\ 0 \in t.neighbors
          /\ t.live \subseteq HostBuffers
      BY <1>2, <1>3, <1>10 DEF Sound, Shape
    <2> QED BY <1>11, <2>1, <2>2, EmptySound
  <1>13. PICK e : Runs(p, t, e) /\ Works(p) /\ Final(e, d)
    BY <1>5, <1>8, <1>12, ConstructRuns
  <1>14. HostType /\ object' /\ object' \in BOOLEAN
    BY <1>1 DEF IInv
  <1> QED BY <1>2, <1>6, <1>7, <1>9, <1>12, <1>13, <1>14, CallBegins

-----------------------------------------------------------------------------
(***************************************************************************)
(* The theorems                                                            *)
(***************************************************************************)
LEMMA InitKeeps ==
    ASSUME Init
    PROVE  IInv
  <1> DEFINE c == [l \in Locations |-> Garbage]
  <1>1. PICK s : s = Now(c, {})
    OBVIOUS
  <1>2. /\ object = FALSE /\ impl = [o \in Searches |-> Blank] /\ streams = {} /\ DOMAIN alloc = {}
        /\ content = c /\ live = {} /\ stream = [o \in Searches |-> <<>>] /\ faulted = FALSE
        /\ pc = "none" /\ script = <<>> /\ frames = <<>>
    BY DEF Init
  <1>3. call \in [method : {"none"}, number : {0}, ok : {TRUE}, k : {0}, session : Sessions]
    BY DEF Init
  <1>4. HostType
    <2>1. call.number = 0 /\ call.session \in Sessions
      BY <1>3
    <2>2. call = [method |-> call.method, number |-> call.number, ok |-> call.ok, k |-> call.k,
                  session |-> call.session]
      BY <1>3
    <2>3. object \in BOOLEAN /\ faulted \in BOOLEAN /\ pc \in {"none", "idle", "call", "unwind"}
      BY <1>2
    <2>4. call.number \in Nat
      BY <2>1
    <2> QED BY <2>1, <2>2, <2>3, <2>4 DEF HostType
  <1>5. /\ s.alloc = alloc /\ s.content = c /\ s.streams = streams /\ s.impl = impl /\ s.live = live
        /\ s.frames = frames /\ s.busy = {} /\ s.neighbors = call.session.neighbors \union {0}
    BY <1>1, NowFields
  <1>6. s.neighbors \subseteq Nat /\ 0 \in s.neighbors
    BY <1>4, <1>5, SessionFacts
  <1>7. Blank = Assigned(Blank, "strategy", "indexed")
    BY DEF Assigned, Blank
  <1>8. /\ DOMAIN s.alloc = {} /\ s.streams = {} /\ s.frames = <<>> /\ s.live \subseteq HostBuffers
        /\ s.impl = [o \in Searches |-> Blank] /\ \A o \in Searches : s.impl[o] = Blank
    BY <1>2, <1>5
  <1>9. s.content = [l \in Locations |-> s.content[l]]
    BY <1>5
  <1>10. /\ s.impl = [o \in Searches |-> s.impl[o]] /\ s.impl["self"] = Assigned(Blank, "strategy", "indexed")
         /\ \A o \in {"a", "b"} : s.impl[o] = Blank
    BY <1>7, <1>8 DEF Searches
  <1>11. Sound(s) /\ KnnTrue(s)
    BY <1>5, <1>6, <1>8, <1>9, <1>10, EmptySound
  <1>12. Bare(s)
    BY <1>8 DEF Bare
  <1>13. Control(s)
    BY <1>2, <1>5, <1>11, <1>12 DEF Control
  <1>14. Device(c, {})
    <2>1. \A o \in Searches : stream[o] = <<>> /\ stream[o] \in Seq({})
      BY <1>2
    <2>2. \A o \in Searches : Drains(content, stream[o], c)
      BY <1>2, <2>1, DrainsNone
    <2>3. stream = [o \in Searches |-> stream[o]] /\ content = [l \in Locations |-> content[l]]
      BY <1>2
    <2> QED BY <1>2, <2>1, <2>2, <2>3 DEF Device
  <1>15. ResultCurrent
    BY <1>2 DEF ResultCurrent
  <1> QED BY <1>1, <1>4, <1>11, <1>13, <1>14, <1>15 DEF IInv

LEMMA StutterKeeps ==
    ASSUME IInv, UNCHANGED vars
    PROVE  IInv'
  <1>1. UNCHANGED <<object, impl, alloc, content, stream, streams, faulted, pc, call, script, frames, live, uploaded>>
    BY DEF vars, device, host
  <1>2. PICK c, b, s : s = Now(c, b) /\ Sound(s) /\ Device(c, b) /\ Control(s)
    BY DEF IInv
  <1>3. s = Now(c, b)' /\ HostType'
    BY <1>1, <1>2 DEF Now, IInv, HostType
  <1>4. Device(c, b)'
    BY <1>1, <1>2 DEF Device
  <1>5. Control(s)'
    BY <1>1, <1>2 DEF Control
  <1>6. ResultCurrent'
    BY <1>1 DEF IInv, ResultCurrent, Members, Has
  <1> QED BY <1>2, <1>3, <1>4, <1>5, <1>6 DEF IInv

LEMMA NextKeeps ==
    ASSUME IInv, Next
    PROVE  IInv'
  <1>1. CASE Caller
    <2>1. CASE \E s \in {"indexed", "tiled"} : Construct(s)
      BY <2>1, ConstructKeeps
    <2>2. CASE CallQuery
      BY <2>2, CallQueryKeeps
    <2>3. CASE CallEvaluate
      BY <2>3, CallEvaluateKeeps
    <2>4. CASE CallDownloadCovariances
      BY <2>4, CallDownloadKeeps
    <2>5. ASSUME NEW b \in BOOLEAN, CallPrepareResident(b) \/ CallUploadScan(b)
          PROVE  IInv'
      BY <2>5, CallPrepareResidentKeeps, CallUploadScanKeeps
    <2>6. ASSUME NEW k \in UNION {s.neighbors : s \in Sessions}, CallKnn(k) \/ CallPrepareGicp(k)
          PROVE  IInv'
      <3>1. k # 0
        BY SessionFacts DEF IInv
      <3> QED BY <2>6, <3>1, CallKnnKeeps, CallPrepareGicpKeeps
    <2>7. CASE Destroy
      BY <2>7, DestroyKeeps
    <2> QED BY <1>1, <2>1, <2>2, <2>3, <2>4, <2>5, <2>6, <2>7 DEF Caller
  <1>2. CASE HostStep
    BY <1>2, StreamCreateKeeps, MallocKeeps, FreeKeeps, SubmitKeeps, SynchronizeKeeps, PassedKeeps, SetMemberKeeps,
       EnterKeeps, LeaveScopeKeeps, AdoptKeeps, CopyBackKeeps, ThrowKeeps, UnwindKeeps, ReturnKeeps DEF HostStep
  <1>3. CASE \E o \in Searches : Execute(o)
    BY <1>3, ExecuteKeeps
  <1>4. CASE DeviceFault
    BY <1>4, DeviceFaultKeeps
  <1> QED BY <1>1, <1>2, <1>3, <1>4 DEF Next

\* The invariant holds in every state of every run: of the host, of the calls
\* it makes in any order, of the device and of every failure.
THEOREM Inductive == Spec => []IInv
  <1>1. Init => IInv
    BY InitKeeps
  <1>2. IInv /\ [Next]_vars => IInv'
    BY StutterKeeps, NextKeeps
  <1> QED BY <1>1, <1>2, PTL DEF Spec

\* Every part of the four properties can be read off the invariant.
LEMMA IInvOperands ==
    ASSUME IInv
    PROVE  OperandsAlive
  <1>1. PICK c, b, s : s = Now(c, b) /\ Sound(s) /\ Device(c, b) /\ Control(s)
    BY DEF IInv
  <1>2. /\ s.alloc = alloc /\ s.streams = streams /\ s.impl = impl /\ s.live = live /\ s.frames = frames
        /\ s.busy = b /\ s.neighbors = call.session.neighbors \union {0}
    BY <1>1, NowFields
  <1>3. TypeOK
    <2>1. object \in BOOLEAN /\ faulted \in BOOLEAN /\ pc \in {"none", "idle", "call", "unwind"}
      BY DEF IInv, HostType
    <2>2. /\ streams \subseteq Searches /\ live \subseteq HostBuffers /\ \A l \in DOMAIN alloc : alloc[l] \in Nat
          /\ DOMAIN alloc \subseteq Locations
      BY <1>1, <1>2 DEF Sound, Shape, Locations
    <2>3. \A o \in Searches : stream[o] # <<>> => o \in streams
      BY <1>1, <1>2 DEF Device, Sound, Busy
    <2>4. \A o \in Searches : impl[o].knn_capacity \in call.session.neighbors \union {0}
      BY <1>1, <1>2 DEF Sound, Shape, MemberType
    <2> QED BY <2>1, <2>2, <2>3, <2>4 DEF TypeOK
  <1>4. \A o \in Searches : \A i \in DOMAIN stream[o] : Alive(stream[o][i], alloc, live)
    BY <1>1 DEF Device
  <1>5. pc \in {"none", "idle"} => \A o \in Searches : stream[o] = <<>>
    BY <1>1, <1>2 DEF Control, Device
  <1> QED BY <1>3, <1>4, <1>5 DEF OperandsAlive, Alive

LEMMA IInvNoLeak ==
    ASSUME IInv
    PROVE  NoLeak
  <1>1. PICK c, b, s : s = Now(c, b) /\ Sound(s) /\ Device(c, b) /\ Control(s)
    BY DEF IInv
  <1>2. s.alloc = alloc /\ s.streams = streams /\ s.impl = impl /\ s.frames = frames
    BY <1>1, NowFields
  <1>3. pc = "call" /\ script # <<>> /\ Step.do = "malloc" => Step.at \notin DOMAIN alloc
    <2> SUFFICES ASSUME pc = "call", script # <<>>, Step.do = "malloc"
                 PROVE  Step.at \notin DOMAIN alloc
      OBVIOUS
    <2>1. PICK t : Runs(script, s, t)
      BY <1>1 DEF Control
    <2>2. PICK x : x = Head(script)
      OBVIOUS
    <2>3. Ok(x, s)
      BY <2>1, <2>2, RunsHead DEF Moves
    <2> QED BY <1>2, <2>2, <2>3 DEF Ok, OkMalloc, Step
  <1>4. ASSUME pc \in {"none", "idle"}, NEW o \in Searches, Uses(s, o)
        PROVE  object /\ o \in {"self", Members.scan_search}
    <2>1. s.frames = <<>>
      BY <1>1, <1>2, <1>4 DEF Control
    <2>2. Held(s, o) /\ \A q : ~Owns(s.frames, q)
      BY <1>1, <1>4, <2>1 DEF Sound, Ownership, Owns
    <2>3. object
      BY <1>1, <1>4 DEF Control, Bare, Uses
    <2> QED BY <1>2, <2>2, <2>3 DEF Held, Members
  <1> QED BY <1>2, <1>3, <1>4 DEF NoLeak, Uses

LEMMA IInvMembers ==
    ASSUME IInv
    PROVE  MembersTruthful
  <1>1. PICK c, b, s : s = Now(c, b) /\ Sound(s) /\ Device(c, b) /\ Control(s)
    BY DEF IInv
  <1>2. s.alloc = alloc /\ s.impl = impl
    BY <1>1, NowFields
  <1>3. \A o \in Searches : impl[o].resident => \A w \in Workspace : <<o, w>> \in DOMAIN alloc
    BY <1>1, <1>2 DEF Sound, Equipped
  <1>4. pc = "idle" => KnnTrue(s)
    BY <1>1 DEF Control
  <1> QED BY <1>2, <1>3, <1>4 DEF MembersTruthful, KnnTrue, Workspace

\* Unfinished device work only touches buffers that are there and large
\* enough, through every failure of every call, and none is left between
\* calls: the handlers of the methods drain the stream before a host buffer
\* goes out of scope or a device buffer is freed.
THEOREM OperandsStayAlive == Spec => []OperandsAlive
  BY Inductive, IInvOperands, PTL

\* No cudaMalloc overwrites a pointer that still owns a buffer, every buffer
\* and stream has an object that will free it, and none outlives ~Impl or a
\* failed constructor.
THEOREM NothingLeaks == Spec => []NoLeak
  BY Inductive, IInvNoLeak, PTL

\* resident is only set when the whole workspace is allocated, and
\* knn_capacity only while both KNN buffers have that many entries.
THEOREM MembersStayTruthful == Spec => []MembersTruthful
  BY Inductive, IInvMembers, PTL

\* What evaluate, query_into, knn and download_covariances return comes from
\* the reference, the arguments of this call and the last upload_scan, all of
\* one upload and only of one that succeeded.
THEOREM ResultsAreCurrent == Spec => []ResultCurrent
  <1>1. IInv => ResultCurrent
    BY DEF IInv
  <1> QED BY <1>1, Inductive, PTL

=============================================================================
