------------------------- MODULE CudaCorrespondence -------------------------
(***************************************************************************)
(* The host side of CorrespondenceSearch                                   *)
(* (src/src/backends/cuda/cuda_correspondence.cu): device buffers, the     *)
(* stream, and what an exception leaves behind.                            *)
(*                                                                         *)
(* Every method is a script of the CUDA calls it makes, in their order.    *)
(* The host works through the script while the device, on its own, works   *)
(* through the stream; any call may fail, and the exception then unwinds   *)
(* the frames entered so far: handlers that drain the stream, locals that  *)
(* go out of scope, objects that are destroyed.  Instead of numbers a      *)
(* buffer holds the set of inputs its contents were computed from.         *)
(*                                                                         *)
(* "self" is the search of a registration context; "a" and "b" are the     *)
(* successive scan_search objects it owns for GICP.                        *)
(***************************************************************************)
EXTENDS Integers, SequencesExt

CONSTANTS
    Sessions    \* bounds: strategies and methods a caller uses, values of k, batches of 16384
                \* reference points, and the number of calls, the constructor included

ASSUME CudaAssumption ==
    \A s \in Sessions : /\ s.strategies \subseteq {"indexed", "tiled"}
                        /\ s.neighbors \subseteq Nat \ 0 .. 2
                        /\ {s.batches, s.calls} \subseteq Nat \ {0}

VARIABLES
    object,     \* the search exists
    impl,       \* scalar members of Impl, per search
    streams,    \* searches whose cudaStream_t exists
    alloc,      \* allocated device buffers, with their size
    content,    \* inputs the contents of a buffer come from
    live,       \* host buffers in scope
    stream,     \* submitted, unfinished work per search
    faulted,    \* the device failed: a sticky error
    pc,         \* "none" and "idle" between calls, "call", "unwind"
    call,       \* the current or last call, and the session it belongs to
    script,     \* CUDA calls it still has to make
    frames,     \* scopes an exception has to leave
    uploaded    \* history: the last upload_scan, if it succeeded

device == <<alloc, content, stream, streams, faulted>>
host == <<pc, call, script, frames, live>>
vars == <<object, impl, device, host, uploaded>>

Searches == {"self", "a", "b"}
Blank == [strategy |-> "indexed", resident |-> FALSE, knn_capacity |-> 0, covariance_neighbors |-> 0,
          scan_count |-> 0, has_scan_normals |-> FALSE, scan_search |-> "none"]
NoUpload == [number |-> 0, normals |-> FALSE]

\* The members m after one assignment.
Assigned(m, field, value) ==
    LET now(name, old) == IF name = field THEN value ELSE old IN
    [strategy |-> now("strategy", m.strategy), resident |-> now("resident", m.resident),
     knn_capacity |-> now("knn_capacity", m.knn_capacity),
     covariance_neighbors |-> now("covariance_neighbors", m.covariance_neighbors),
     scan_count |-> now("scan_count", m.scan_count), has_scan_normals |-> now("has_scan_normals", m.has_scan_normals),
     scan_search |-> now("scan_search", m.scan_search)]

\* The buffers ~Impl frees.
Owned == {"covariances", "knn_indices", "knn_distances", "invalid_covariance", "equation",
          "equations", "transformed", "scan_normals", "scan", "reference_normals",
          "original_reference", "indices", "queries", "nodes", "original_indices", "reference"}
HostBuffers == {"packed", "points", "normals", "result", "invalid"}
Locations == (Searches \X Owned) \union ({"host"} \X HostBuffers)
OnHost(b) == <<"host", b>>
Garbage == {<<"garbage", 0>>}

Init == /\ object = FALSE /\ impl = [o \in Searches |-> Blank]
        /\ streams = {} /\ alloc = [l \in {} |-> 0] /\ content = [l \in Locations |-> Garbage]
        /\ live = {} /\ stream = [o \in Searches |-> <<>>] /\ faulted = FALSE
        /\ pc = "none" /\ call \in [method : {"none"}, number : {0}, ok : {TRUE}, k : {0}, session : Sessions]
        /\ script = <<>> /\ frames = <<>> /\ uploaded = NoUpload

-----------------------------------------------------------------------------
\* The steps a script is made of.

CreateStream(o) == [do |-> "stream", on |-> o]
Malloc(o, b, n) == [do |-> "malloc", at |-> <<o, b>>, size |-> n]
Free(o, b) == [do |-> "free", at |-> <<o, b>>]
\* A kernel or an asynchronous copy: writes the buffers `to' from the buffers
\* `from' and the arguments `args'; k is the row length of the KNN buffers.
Submit(o, from, args, to, k) == [do |-> "submit", on |-> o, from |-> from, args |-> args, to |-> to, k |-> k]
Sync(o) == [do |-> "sync", on |-> o]
Check == [do |-> "check"]
Set(o, f, v) == [do |-> "set", on |-> o, field |-> f, value |-> v]
\* try { with a handler that synchronizes the stream of o, and host buffers
\* in scope with it; Owner: an object that is destroyed on the way out.
Try(o, buffers) == [do |-> "enter", on |-> o, owns |-> FALSE, buffers |-> buffers]
Owner(o) == [do |-> "enter", on |-> o, owns |-> TRUE, buffers |-> [b \in {} |-> {}]]
Leave == [do |-> "leave"]
Adopt(o) == [do |-> "adopt", on |-> o]
Copy(from, to) == [do |-> "copy", from |-> from, to |-> to]

-----------------------------------------------------------------------------
\* The methods.

Scope(b, tags) == [x \in {b} |-> tags]
Scopes(b, tags, c, others) == [x \in {b, c} |-> IF x = b THEN tags ELSE others]
Optional(condition, steps) == IF condition THEN steps ELSE <<>>

\* CorrespondenceSearch::CorrespondenceSearch; tags are the inputs behind the
\* packed reference points.
Constructor(o, strategy, tags) ==
    <<Owner(o), Try(o, Scope("packed", tags)), CreateStream(o),
      Malloc(o, "reference", 1), Malloc(o, "queries", 1), Malloc(o, "indices", 1),
      Submit(o, {OnHost("packed")}, {}, {<<o, "reference">>}, 0)>>
    \o Optional(strategy = "indexed",
         <<Malloc(o, "nodes", 1), Malloc(o, "original_indices", 1),
           Submit(o, {OnHost("packed")}, {}, {<<o, "nodes">>}, 0),
           Submit(o, {OnHost("packed")}, {}, {<<o, "original_indices">>}, 0)>>)
    \o <<Sync(o), Leave>>

\* The nearest-neighbour kernel of the strategy.
NearestKernel(o, strategy) ==
    Submit(o, {<<o, "reference">>, <<o, "queries">>} \union
              (IF strategy = "indexed" THEN {<<o, "original_indices">>, <<o, "nodes">>} ELSE {}),
           {}, {<<o, "indices">>}, 0)

\* query_into, number n; the caller's result vector lives as long as the call.
QueryInto(o, strategy, n) ==
    <<Try(o, Scopes("points", {<<"queries", n>>}, "result", {})),
      Submit(o, {OnHost("points")}, {}, {<<o, "queries">>}, 0), NearestKernel(o, strategy),
      Submit(o, {<<o, "indices">>}, {}, {OnHost("result")}, 0), Sync(o), Leave>>

\* The reference in its original order: a copy when it was never packed.
RestoreOrder(o, strategy) ==
    Submit(o, {<<o, "reference">>} \union (IF strategy = "indexed" THEN {<<o, "original_indices">>} ELSE {}),
           {}, {<<o, "original_reference">>}, 0)

\* Fault: the search counts as resident before its workspace is there.
PrepareResidentEarly(o, strategy, normals) ==
    <<Try(o, Scope("normals", {<<"reference_normals", 0>>})), Set(o, "resident", TRUE),
      Malloc(o, "original_reference", 1),
      RestoreOrder(o, strategy),
      Malloc(o, "scan", 1), Malloc(o, "scan_normals", 1), Malloc(o, "transformed", 1),
      Malloc(o, "equations", 1), Malloc(o, "equation", 1), Sync(o), Leave>>

PrepareResident(o, strategy, normals) ==
    <<Try(o, Scope("normals", {<<"reference_normals", 0>>})), Malloc(o, "original_reference", 1),
      RestoreOrder(o, strategy)>>
    \o Optional(normals, <<Malloc(o, "reference_normals", 1),
                           Submit(o, {OnHost("normals")}, {}, {<<o, "reference_normals">>}, 0)>>)
    \o <<Malloc(o, "scan", 1), Malloc(o, "scan_normals", 1), Malloc(o, "transformed", 1),
         Malloc(o, "equations", 1), Malloc(o, "equation", 1), Sync(o), Set(o, "resident", TRUE), Leave>>

\* Buffers for k neighbours; larger ones are kept.
PrepareKnn(o, capacity, k) ==
    Optional(k > capacity,
      <<Free(o, "knn_indices"), Free(o, "knn_distances"), Set(o, "knn_capacity", 0),
        Malloc(o, "knn_indices", k), Malloc(o, "knn_distances", k), Set(o, "knn_capacity", k)>>)

ExactKnn(o, k) ==
    Submit(o, {<<o, "reference">>, <<o, "original_indices">>, <<o, "nodes">>, <<o, "original_reference">>},
           {<<"neighbors", k>>}, {<<o, "knn_indices">>, <<o, "knn_distances">>}, k)

\* Sorts each row of neighbours and computes its covariance, or sets the flag.
CovarianceKernel(o, k) ==
    Submit(o, {<<o, "original_reference">>, <<o, "knn_indices">>}, {<<"neighbors", k>>},
           {<<o, "knn_indices">>, <<o, "covariances">>, <<o, "invalid_covariance">>}, k)

InBatches(steps) == FlattenSeq([b \in 1 .. call.session.batches |-> steps])

Knn(o, capacity, k) ==
    PrepareKnn(o, capacity, k) \o <<Try(o, Scope("result", {}))>>
    \o InBatches(<<ExactKnn(o, k), Submit(o, {<<o, "knn_indices">>}, {}, {OnHost("result")}, k), Sync(o)>>)
    \o <<Leave>>

\* Fault: buffers are allocated whether or not an earlier attempt did.
PrepareGicpAgain(o, capacity, present, k) ==
    PrepareKnn(o, capacity, k)
    \o <<Malloc(o, "covariances", 1), Malloc(o, "invalid_covariance", 1), Try(o, Scope("invalid", {})),
         Submit(o, {}, {}, {<<o, "invalid_covariance">>}, 0)>>
    \o InBatches(<<ExactKnn(o, k), CovarianceKernel(o, k)>>)
    \o <<Submit(o, {<<o, "invalid_covariance">>}, {}, {OnHost("invalid")}, 0), Sync(o), Check,
         Set(o, "covariance_neighbors", k), Leave>>

\* Buffers a failed attempt left behind are used again.
PrepareGicp(o, capacity, present, k) ==
    PrepareKnn(o, capacity, k)
    \o Optional("covariances" \notin present, <<Malloc(o, "covariances", 1)>>)
    \o Optional("invalid_covariance" \notin present, <<Malloc(o, "invalid_covariance", 1)>>)
    \o <<Try(o, Scope("invalid", {})), Submit(o, {}, {}, {<<o, "invalid_covariance">>}, 0)>>
    \o InBatches(<<ExactKnn(o, k), CovarianceKernel(o, k)>>)
    \o <<Submit(o, {<<o, "invalid_covariance">>}, {}, {OnHost("invalid")}, 0), Sync(o), Check,
         Set(o, "covariance_neighbors", k), Leave>>

\* Fault: the count of the scan before stays until the new one is complete.
UploadScanKeeps(members, next, n, normals) ==
    <<Try("self", Scopes("points", {<<"scan", n>>}, "normals", {<<"normals", n>>})),
      Submit("self", {OnHost("points")}, {}, {<<"self", "scan">>}, 0)>>
    \o Optional(normals, <<Submit("self", {OnHost("normals")}, {}, {<<"self", "scan_normals">>}, 0)>>)
    \o <<Sync("self"), Check, Set("self", "has_scan_normals", normals), Set("self", "scan_count", n), Leave>>

\* upload_scan, number n; for GICP it builds the next scan_search.
UploadScan(members, next, n, normals) ==
    <<Set("self", "scan_count", 0),
      Try("self", Scopes("points", {<<"scan", n>>}, "normals", {<<"normals", n>>})),
      Submit("self", {OnHost("points")}, {}, {<<"self", "scan">>}, 0)>>
    \o Optional(normals, <<Submit("self", {OnHost("normals")}, {}, {<<"self", "scan_normals">>}, 0)>>)
    \o <<Sync("self")>>
    \o Optional(members.covariance_neighbors # 0,
         <<Check>> \o Constructor(next, "indexed", {<<"scan", n>>})
         \o PrepareResident(next, "indexed", FALSE)
         \o PrepareGicp(next, 0, {}, members.covariance_neighbors) \o <<Adopt(next)>>)
    \o <<Set("self", "has_scan_normals", normals), Set("self", "scan_count", n), Leave>>

TransformResident(o, pose) ==
    Submit(o, {<<o, "scan">>}, {pose}, {<<o, "transformed">>, <<o, "queries">>}, 0)

\* The sums of each block, from whatever pointers are not null.
ResidentEquations(o, members, normals, pose) ==
    Submit(o, {<<o, "original_reference">>, <<o, "transformed">>, <<o, "queries">>, <<o, "indices">>}
              \union (IF normals THEN {<<o, "reference_normals">>} ELSE {})
              \union (IF members.has_scan_normals THEN {<<o, "scan_normals">>} ELSE {})
              \union (IF members.covariance_neighbors # 0 THEN {<<o, "covariances">>} ELSE {})
              \union (IF members.scan_search # "none" THEN {<<members.scan_search, "covariances">>} ELSE {}),
           {pose}, {<<o, "equations">>}, 0)

\* The sums of the blocks are added up.
MergeEquations(o) == Submit(o, {<<o, "equations">>}, {}, {<<o, "equation">>}, 0)

\* evaluate, number n, for the pose of that number.
Evaluate(members, normals, n) ==
    LET o == "self" IN
    <<Try(o, Scope("result", {})), TransformResident(o, <<"pose", n>>), NearestKernel(o, members.strategy),
      ResidentEquations(o, members, normals, <<"pose", n>>), MergeEquations(o),
      Submit(o, {<<o, "equation">>}, {}, {OnHost("result")}, 0), Sync(o), Check, Leave>>

\* cudaMemcpy returns when the copy is complete; nothing is left to drain.
DownloadCovariances ==
    <<Try("self", Scope("result", {})), Copy(<<"self", "covariances">>, OnHost("result")), Leave>>

-----------------------------------------------------------------------------
\* The host.

Members == impl["self"]
Has(b) == <<"self", b>> \in DOMAIN alloc

\* A call begins; one whose arguments or state are refused changes nothing.
Begin(method, k, steps) ==
    /\ call.number < call.session.calls
    /\ method \in call.session.methods
    /\ k \in call.session.neighbors \union {0}
    /\ pc' = "call"
    /\ call' = [method |-> method, number |-> call.number + 1, ok |-> TRUE, k |-> k, session |-> call.session]
    /\ script' = steps
    /\ UNCHANGED <<device, frames, live>>

Construct(strategy) ==
    /\ pc = "none"
    /\ strategy \in call.session.strategies
    /\ Begin("constructor", 0, Constructor("self", strategy, {<<"reference", 0>>}) \o <<Leave>>)
    /\ object' = TRUE
    /\ impl' = [impl EXCEPT !["self"] = Assigned(Blank, "strategy", strategy)]
    /\ uploaded' = NoUpload

Invoke(method, k, steps) == /\ pc = "idle"
                            /\ Begin(method, k, steps)
                            /\ UNCHANGED <<object, impl>>

CallQuery ==
    /\ Invoke("query_into", 0, QueryInto("self", Members.strategy, call.number + 1))
    /\ UNCHANGED uploaded

CallPrepareResident(normals) ==
    /\ ~Members.resident /\ ~Has("scan") /\ ~Has("reference_normals") /\ ~Has("original_reference")
    /\ Invoke("prepare_resident", 0, PrepareResident("self", Members.strategy, normals))
    /\ UNCHANGED uploaded

CallKnn(k) ==
    /\ Members.resident /\ Members.strategy = "indexed"
    /\ Invoke("knn", k, Knn("self", Members.knn_capacity, k))
    /\ UNCHANGED uploaded

\* The registration context prepares GICP before it uploads a scan.
CallPrepareGicp(k) ==
    /\ Members.covariance_neighbors = 0
    /\ Members.resident /\ Members.strategy = "indexed"
    /\ uploaded = NoUpload
    /\ Invoke("prepare_gicp", k, PrepareGicp("self", Members.knn_capacity, {b \in Owned : Has(b)}, k))
    /\ UNCHANGED uploaded

CallUploadScan(normals) ==
    /\ Members.resident
    /\ Invoke("upload_scan", 0, UploadScan(Members, IF Members.scan_search = "a" THEN "b" ELSE "a",
                                           call.number + 1, normals))
    /\ uploaded' = NoUpload

CallEvaluate ==
    /\ Members.resident
    /\ Members.scan_count # 0
    /\ Invoke("evaluate", 0, Evaluate(Members, Has("reference_normals"), call.number + 1))
    /\ UNCHANGED uploaded

CallDownloadCovariances ==
    /\ Members.covariance_neighbors # 0
    /\ Invoke("download_covariances", Members.covariance_neighbors, DownloadCovariances)
    /\ UNCHANGED uploaded

\* The next step of the script, if it is of this kind.
Doing(kind) == /\ pc = "call"
               /\ script # <<>>
               /\ Head(script).do = kind
               /\ script' = Tail(script)
               /\ UNCHANGED <<pc, call, object, uploaded>>
Step == Head(script)

\* Buffers of the searches in gone are freed, their streams destroyed.
Destroyed(gone) == /\ alloc' = [l \in {m \in DOMAIN alloc : m[1] \notin gone \/ m[2] \notin Owned} |-> alloc[l]]
                   /\ streams' = streams \ gone
                   /\ impl' = [o \in Searches |-> IF o \in gone THEN Blank ELSE impl[o]]

StreamCreate == /\ Doing("stream") /\ ~faulted
                /\ streams' = streams \union {Step.on}
                /\ UNCHANGED <<impl, alloc, content, stream, faulted, frames, live>>

CudaMalloc == /\ Doing("malloc") /\ ~faulted
              /\ alloc' = [l \in DOMAIN alloc \union {Step.at} |-> IF l = Step.at THEN Step.size ELSE alloc[l]]
              /\ content' = [content EXCEPT ![Step.at] = Garbage]
              /\ UNCHANGED <<impl, stream, streams, faulted, frames, live>>

CudaFree == /\ Doing("free") /\ ~faulted
            /\ alloc' = [l \in DOMAIN alloc \ {Step.at} |-> alloc[l]]
            /\ UNCHANGED <<impl, content, stream, streams, faulted, frames, live>>

SubmitWork == /\ Doing("submit") /\ ~faulted
              /\ stream' = [stream EXCEPT ![Step.on] = Append(@, Step)]
              /\ UNCHANGED <<impl, alloc, content, streams, faulted, frames, live>>

Synchronize == /\ Doing("sync") /\ ~faulted
               /\ stream[Step.on] = <<>>
               /\ UNCHANGED <<impl, device, frames, live>>

Passed == /\ Doing("check")
          /\ UNCHANGED <<impl, device, frames, live>>

SetMember == /\ Doing("set")
             /\ impl' = [impl EXCEPT ![Step.on] = Assigned(@, Step.field, Step.value)]
             /\ UNCHANGED <<device, frames, live>>

Enter == /\ Doing("enter")
         /\ frames' = Append(frames, [on |-> Step.on, owns |-> Step.owns, buffers |-> DOMAIN Step.buffers])
         /\ live' = live \union DOMAIN Step.buffers
         /\ content' = [l \in Locations |-> IF l[1] = "host" /\ l[2] \in DOMAIN Step.buffers
                                            THEN Step.buffers[l[2]] ELSE content[l]]
         /\ UNCHANGED <<impl, alloc, stream, streams, faulted>>

LeaveScope == /\ Doing("leave")
              /\ frames' = Front(frames)
              /\ live' = live \ Last(frames).buffers
              /\ UNCHANGED <<impl, device>>

\* scan_search is replaced; the one before is destroyed, its stream drained.
AdoptScanSearch ==
    /\ Doing("adopt")
    /\ LET old == Members.scan_search IN
         /\ old # "none" => stream[old] = <<>>
         /\ alloc' = [l \in {m \in DOMAIN alloc : m[1] # old} |-> alloc[l]]
         /\ streams' = streams \ {old}
         /\ impl' = [o \in Searches |-> IF o = old THEN Blank
                                        ELSE IF o = "self" THEN Assigned(impl[o], "scan_search", Step.on)
                                        ELSE impl[o]]
    /\ frames' = Front(frames)
    /\ UNCHANGED <<content, stream, faulted, live>>

\* cudaMemcpy, which waits for its own transfer only.
CopyBack == /\ Doing("copy") /\ ~faulted
            /\ content' = [content EXCEPT ![Step.to] = content[Step.from]]
            /\ UNCHANGED <<impl, alloc, stream, streams, faulted, frames, live>>

\* checked(...) throws: any call may report an error of its own, all do once
\* the device has failed, and a failing wait has nothing left to wait for.
Throw == /\ pc = "call"
         /\ script # <<>>
         /\ \/ Step.do \in {"stream", "malloc", "submit", "check", "copy"}
            \/ Step.do \in {"sync", "free"} /\ faulted
         /\ pc' = "unwind"
         /\ script' = <<>>
         /\ call' = [call EXCEPT !.ok = FALSE]
         /\ UNCHANGED <<object, impl, device, frames, live, uploaded>>

\* Fault: the handlers do not drain the stream.
UnwindUndrained ==
    /\ pc = "unwind" /\ frames # <<>>
    /\ LET f == Last(frames) IN
         /\ f.owns => stream[f.on] = <<>>
         /\ live' = live \ f.buffers
         /\ IF f.owns THEN Destroyed({f.on}) ELSE UNCHANGED <<alloc, streams, impl>>
         /\ object' = (object /\ ~(f.owns /\ f.on = "self"))
    /\ frames' = Front(frames)
    /\ UNCHANGED <<content, stream, faulted, pc, call, script, uploaded>>

\* One frame is left: the handler drains the stream, then the locals end; an
\* object is destroyed, which drains its stream too.
Unwind ==
    /\ pc = "unwind" /\ frames # <<>>
    /\ LET f == Last(frames) IN
         /\ stream[f.on] = <<>>
         /\ live' = live \ f.buffers
         /\ IF f.owns THEN Destroyed({f.on}) ELSE UNCHANGED <<alloc, streams, impl>>
         /\ object' = (object /\ ~(f.owns /\ f.on = "self"))
    /\ frames' = Front(frames)
    /\ UNCHANGED <<content, stream, faulted, pc, call, script, uploaded>>

\* Fault: a failure is not reported.
ReturnOnSuccess == /\ pc = "call" /\ script = <<>>
                   /\ pc' = IF object THEN "idle" ELSE "none"
                   /\ uploaded' = IF call.method = "upload_scan"
                                  THEN [number |-> call.number, normals |-> Members.has_scan_normals] ELSE uploaded
                   /\ UNCHANGED <<object, impl, device, call, script, frames, live>>

\* The call returns or its exception reaches the caller.
Return == /\ \/ pc = "call" /\ script = <<>>
             \/ pc = "unwind" /\ frames = <<>>
          /\ pc' = IF object THEN "idle" ELSE "none"
          /\ uploaded' = IF call.method = "upload_scan" /\ call.ok
                         THEN [number |-> call.number, normals |-> Members.has_scan_normals] ELSE uploaded
          /\ UNCHANGED <<object, impl, device, call, script, frames, live>>

\* The searches ~Impl of self destroys.
Released == {"self", Members.scan_search}

\* ~Impl
Destroy == /\ pc = "idle"
           /\ \A o \in Released \intersect Searches : stream[o] = <<>>
           /\ Destroyed(Released)
           /\ object' = FALSE
           /\ pc' = "none"
           /\ UNCHANGED <<content, stream, faulted, call, script, frames, live, uploaded>>

-----------------------------------------------------------------------------
\* The device (external): each stream in order.

Execute(o) ==
    /\ stream[o] # <<>>
    /\ LET w == Head(stream[o]) IN
         content' = [l \in Locations |-> IF l \in w.to THEN w.args \union UNION {content[m] : m \in w.from}
                                         ELSE content[l]]
    /\ stream' = [stream EXCEPT ![o] = Tail(@)]
    /\ UNCHANGED <<object, impl, alloc, streams, faulted, host, uploaded>>

\* A failure during execution ends all work of the context.
DeviceFault ==
    /\ \E o \in Searches : stream[o] # <<>>
    /\ faulted' = TRUE
    /\ stream' = [o \in Searches |-> <<>>]
    /\ UNCHANGED <<object, impl, alloc, content, streams, host, uploaded>>

HostStep == \/ StreamCreate \/ CudaMalloc \/ CudaFree \/ SubmitWork \/ Synchronize \/ Passed \/ SetMember
            \/ Enter \/ LeaveScope \/ AdoptScanSearch \/ CopyBack \/ Throw \/ Unwind \/ Return

Caller == \/ \E s \in {"indexed", "tiled"} : Construct(s)
          \/ CallQuery \/ CallEvaluate \/ CallDownloadCovariances
          \/ \E b \in BOOLEAN : CallPrepareResident(b) \/ CallUploadScan(b)
          \/ \E k \in UNION {s.neighbors : s \in Sessions} : CallKnn(k) \/ CallPrepareGicp(k)
          \/ Destroy

Next == \/ Caller
        \/ HostStep
        \/ \E o \in Searches : Execute(o)
        \/ DeviceFault

\* A call in progress goes on, and so does the device.
Spec == Init /\ [][Next]_vars /\ WF_vars(HostStep) /\ \A o \in Searches : WF_vars(Execute(o))

-----------------------------------------------------------------------------
\* Properties

\* Every variable has its type, and work is only ever queued on a stream that
\* exists.
TypeOK == /\ object \in BOOLEAN /\ faulted \in BOOLEAN
          /\ streams \subseteq Searches
          /\ DOMAIN alloc \subseteq Locations /\ \A l \in DOMAIN alloc : alloc[l] \in Nat
          /\ live \subseteq HostBuffers
          /\ pc \in {"none", "idle", "call", "unwind"}
          /\ \A o \in Searches : stream[o] # <<>> => o \in streams
          /\ \A o \in Searches : impl[o].knn_capacity \in call.session.neighbors \union {0}

\* Unfinished work never touches a host buffer that has gone out of scope, a
\* device buffer that was freed, or a KNN buffer too small for its rows,
\* whichever call failed and however slow the device is; between calls there
\* is none.
OperandsAlive ==
    /\ TypeOK
    /\ \A o \in Searches : \A i \in DOMAIN stream[o] :
         LET w == stream[o][i] IN
         \A l \in w.from \union w.to :
           IF l[1] = "host" THEN l[2] \in live
           ELSE /\ l \in DOMAIN alloc
                /\ l[2] \in {"knn_indices", "knn_distances"} => alloc[l] >= w.k
    /\ pc \in {"none", "idle"} => \A o \in Searches : stream[o] = <<>>

\* Nothing is leaked: no pointer is overwritten while its buffer is
\* allocated, every allocated buffer belongs to a search that exists, and
\* after destruction or a failed constructor nothing is left.
NoLeak ==
    /\ pc = "call" /\ script # <<>> /\ Step.do = "malloc" => Step.at \notin DOMAIN alloc
    /\ pc \in {"none", "idle"} =>
         \A o \in Searches : (o \in streams \/ \E l \in DOMAIN alloc : l[1] = o) =>
                                 object /\ o \in {"self", Members.scan_search}

\* The members say what is there: a resident search has its whole workspace
\* and a KNN capacity has its buffers, however often preparation failed
\* before.
MembersTruthful ==
    \A o \in Searches :
      /\ impl[o].resident =>
           {<<o, b>> : b \in {"original_reference", "scan", "scan_normals", "transformed", "equations", "equation"}}
             \subseteq DOMAIN alloc
      /\ ~faulted /\ impl[o].knn_capacity # 0 /\ pc = "idle" =>
           \A b \in {"knn_indices", "knn_distances"} :
             <<o, b>> \in DOMAIN alloc /\ alloc[<<o, b>>] >= impl[o].knn_capacity

\* A call that returns normally returns what it was asked for: an equation of
\* the present pose and of the points, normals and covariances of the last
\* scan, all of the same upload and only of one that succeeded; indices of
\* the present queries; neighbours of the present k.
ResultCurrent ==
    pc = "idle" /\ call.ok =>
      LET result == content[OnHost("result")]
          tag(condition, t) == IF condition THEN {t} ELSE {} IN
      CASE call.method = "evaluate" ->
             /\ uploaded # NoUpload
             /\ result = {<<"reference", 0>>, <<"pose", call.number>>, <<"scan", uploaded.number>>}
                         \union tag(Has("reference_normals"), <<"reference_normals", 0>>)
                         \union tag(uploaded.normals, <<"normals", uploaded.number>>)
                         \union tag(Members.covariance_neighbors # 0, <<"neighbors", Members.covariance_neighbors>>)
        [] call.method = "query_into" -> result = {<<"reference", 0>>, <<"queries", call.number>>}
        [] call.method \in {"knn", "download_covariances"} -> result = {<<"reference", 0>>, <<"neighbors", call.k>>}
        [] OTHER -> TRUE

\* Every call comes back to its caller, whatever fails.
CallsReturn == pc = "call" ~> pc \in {"idle", "none"}
=============================================================================
