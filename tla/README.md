# TLA+ models of pointcloud-ad-cpp

pointcloud-ad-cpp compares a scanned surface with a reference surface: it
registers the scan, computes where the two differ, groups the differences into
defect regions and says PASS, FAIL or INDETERMINATE. This directory holds TLA+
models of the parts in which control, ordering, failure and exact tie rules
matter, TLC configurations that check them, and TLAPS proofs.

Paths below are relative to `src/`, the root of the repository.

## 1. Inventory

| Part | State | Operations | Interacts with |
|---|---|---|---|
| `CpuExecutor` (`src/registration/cpu_executor.hpp`) | thread pool; `job_`, `blocks_`, `pending_`, `generation_`, `stopping_`, `errors_`; a mutex and two condition variables | constructor, `run`, `worker_loop`, `execute`, `stop`, destructor | called by the solver, the covariance estimation and preprocessing |
| Inspection pipeline and context (`src/pipeline/inspection_pipeline.cpp`) | the report under construction; in a context the prepared reference and a registration context | `InspectionPipeline::run`, `InspectionContext::create/run`, move | calls every part below in a fixed order of stages |
| Registration context and solver (`src/registration/registration_engine.cpp`, `backend_policy.hpp`, `src/backends/pcl/pcl_registration_backend.cpp`) | snapshot of the reference, capacity, work buffers reused from call to call | `create`, `align`, `register_surfaces` | executor, CPU or CUDA search |
| Registration gate (`src/registration/registration_gate.cpp`) | none | `evaluate_gate` | pipeline |
| CUDA search, host side (`src/backends/cuda/cuda_correspondence.cu`) | device buffers, a stream, scalar members saying what is prepared, a nested search per scan | constructor, `query_into`, `prepare_resident`, `knn`, `prepare_gicp`, `upload_scan`, `evaluate`, `download_covariances`, destructor | solver; the device runs asynchronously |
| Neighbour kernels and spatial index (`cuda_correspondence.cu`, `spatial_index.hpp`) | a flat hierarchy of boxes | build, nearest neighbour (indexed, tiled), k nearest neighbours | CUDA search; must agree with the CPU |
| Comparison fields (`src/comparison/*.cpp`, `src/backends/pcl/pcl_comparison_backend.cpp`) | none | deviation, coverage, statistics | pipeline |
| Detection and measurement (`src/detection/*.cpp`) | none | cluster, measure, severity | pipeline, clustering |
| Euclidean clustering (`src/backends/pcl/pcl_cluster_backend.cpp`) | a union-find forest | `euclidean_cluster` | detection |
| Surfaces, geometry, units (`include/pointcloud_ad/surface.hpp`, `geometry.hpp`, `normalization.hpp`) | points, normals, mask, grid with padded rows; owned, or borrowed from arrays the caller may change | `SurfaceView::create`, `OwnedSurface::create`, `RigidTransform::create`, `normalize_surface` | everything |
| Preprocessing (`src/preprocess/*.cpp`, `src/backends/pcl/pcl_preprocess_backend.cpp`) | none | `apply_validity_mask`, `voxel_sample`, `prepare_normals_and_boundaries` | pipeline (the last one only), executor |
| Point clouds and files (`src/io/*.cpp`, `src/backends/pcl/pcl_io_backend.cpp`, `pcl_backend.cpp`) | a file | `read_ply/pcd`, `write_ply/pcd`, `to_pcl_surface`, `from_pcl_surface` | command line, PCL |
| Configuration and its JSON form (`include/pointcloud_ad/config.hpp`, `src/serialization/json_serialization.cpp`) | 35 settings, most of them optional | `validate_config`, `serialize_config`, `parse_config` | command line; registration and preprocessing check the values again |
| Command line (`src/cli/main.cpp`) | two output files | `inspect`, `validate-config` | pipeline, file system |
| Result documents, digests, CPU kernels | none | formatting, arithmetic | command line, solver |

What is hard here:

* **Threads.** The executor reads `job_`, `blocks_` and `errors_` without its
  mutex and notifies after unlocking; a lost wakeup, a worker that answers
  twice, or an early return from `run` would show once in a million runs.
* **An asynchronous device.** A CUDA method that throws leaves while copies to
  and from its local variables are queued; a preparation that fails half way
  leaves some buffers and no others.
* **State kept between calls.** Contexts are created once and used for scan
  after scan, also after a call that failed.
* **Many ways to end.** The pipeline has a return in every stage, and a report
  that was cut short must never read as a PASS.
* **Ties.** Two backends and several traversal orders must give the same
  neighbour, the same neighbourhood, the same labels.
* **Padding and borrowed arrays.** A row of a grid may be longer than its width,
  nothing is promised of what lies in between, and a view is checked once
  although its owner may change the arrays.
* **Four ways to say nothing.** A setting can be unset, null, absent or not
  finite; a configuration must not become complete on its way through a file.
* **Two files.** The command line replaces two files that belong together, and
  may be killed or refused in between.

What makes each part correct is stated in section 4; `PROJECT.json` lists the
hazards with the lines where they bite.

## 2. Modules

| Module | Models | Lines up with the code as follows |
|---|---|---|
| `ParallelFor` | what `CpuExecutor::run` promises | abstract: every block once in any order, the exception of the lowest failing block |
| `CpuExecutor` | `cpu_executor.hpp` | one variable per member, `pc` per thread; a critical section is a step, unlocked reads and notifications after an unlock are steps of their own |
| `CpuExecutorProofs`, `CliProofs`, `RegistrationProofs`, `ConfigProofs`, `InspectionPipelineProofs`, `EuclideanClusterProofs`, `SurfaceStoreProofs`, `CudaCorrespondenceProofs` | | the proofs about the module each extends, section 5 |
| `Comparison`, `Detection` | comparison fields, candidates, clusters, severity | operators on a one-dimensional profile of heights with masks, padding and normals |
| `Inspection` | what an inspection promises | abstract: a request is refused, or answered by a report that follows from the scan and what the registration found |
| `InspectionPipeline` | `run_impl`, the gate, `InspectionContext` | one action per stage, one per measured region; an error ends the call without a report |
| `EuclideanCluster` | `pcl_cluster_backend.cpp` | `parent_` and `rank_` as in the code; one action per `unite`, one per label |
| `SpatialIndex` | `spatial_index.hpp` | recursive operators that build nodes and packing |
| `NearestSearch` | the two nearest-neighbour kernels and `Search::query` | the loop of one query, one action per node, point or candidate |
| `KnnSearch` | `exact_knn`, the ordering in `covariance_kernel`, `estimate_covariances` | the stack and the rows of one thread, one action per node or point |
| `Registration` | `RegistrationContext`, `register_surfaces` and `Prepared::align` | one action per phase of a round; for each buffer, which scan and which pose it was computed from |
| `CudaCorrespondence` | the host side of the CUDA search | a method is the sequence of CUDA calls it makes; host and device take turns freely; any call may fail; frames are unwound one by one |
| `Cli` | `main.cpp` | one action per stage and per open, write and close; a crash between any two |
| `Surface` | `surface.hpp`, `geometry.hpp`, `normalization.hpp`, `src/preprocess`, the PCL conversions and the file codec | operators on the storage layout of the code: arrays from 0, empty if absent, rows padded to `row_stride`; a call yields the set of its possible results, empty for an error |
| `SurfaceStore` | a caller at work on surfaces | one action per operation of `Surface`, on the last product or on arrays that change behind a view; a file that other programs replace |
| `Config` | `config.hpp`, the configuration half of `json_serialization.cpp`, `validate_registration_parameters` | one table of fields and kinds; `Checks` lists the checks of `validate_config` in their order; caller and author change one field or section at a time |

Operators that begin with the name of another and are introduced by "Fault:" are
deliberately wrong variants; each shows that some property notices that mistake
(`mutants` in `PROJECT.json`). No specification uses them.

Composition: `InspectionPipeline` extends `Detection`, which extends
`Comparison`, and instantiates `Inspection`, which it implements; `CpuExecutor`
instantiates `ParallelFor`; `NearestSearch` and `KnnSearch` extend
`SpatialIndex`; `SurfaceStore` extends `Surface`. The solver is composed with
its parts by what they promise: `Registration` takes a parallel loop to be one step because
`CpuExecutor` implements `ParallelFor`, and an `evaluate` to return the
equation of the last upload because of `ResultCurrent`. `InspectionPipeline`
takes clusters to be chained classes because of `LabelsExact`, and
registration metrics to be arbitrary.

### Abstractions

* Numbers: coordinates are small integers, distances are squared, nothing is
  rounded but numbers printed to an ASCII file. Fitness and coverage are percentages compared without division.
  The solver's pair counts, ranks, residuals and steps are chosen freely.
* Geometry of the pipeline: a profile of points with a height, a normal that is
  up, down or missing, and a translation along the height as the only pose.
  Every branch of the comparison (mask, distance, normal, angle, boundary)
  has points that take it.
* Points of `Surface` have one coordinate, in which a rotation is a half turn or
  none and a matrix entry of 2 stands for one that is no rotation. Neighbouring
  units differ by `Scale`; `MaxFloat`, `MaxSize` and `KeyLimit` are scaled down,
  and one value, `NaN`, stands for everything that is not finite. PCA yields any
  direction or none, and the angle that makes an unorganized point a boundary
  point is chosen freely.
* Clouds and files of `Surface`: the code keeps counts in `std::uint32_t`, here
  in `0 .. MaxUInt32`, and `uint32` is the conversion that cuts them
  (`pcl_io_backend.cpp:208`, `pcl_backend.cpp:70`) and the product in that type
  (`pcl_io_backend.cpp:210`). A point takes `PlainStep` bytes or, with its
  normal, `NormalStep` (13 and 25 in the code). `std::size_t` is wide enough for
  any product of two such counts (`SurfaceAssumption`), as on the 64-bit builds
  the presets make. Storage is told in points, and lengths in bytes follow from
  `point_step`. Once `row_step` is cut, `write_field` lets rows overlap; no
  reader accepts such a cloud, so its contents are not told apart.
* PCL's readers and writers are external. A file hands back the cloud that was
  written, with `row_step` computed anew, or nothing; PCL is taken to have no
  limits of its own. In ASCII it prints eight digits, so a number above
  `Precise` may come back as a neighbour (`Reading`), always the same one for
  the same number.
* In `Config` a double is an integer or `NonFinite`, and the widths of the two
  integer types are scaled down (`UInt32Modulus`, `UInt64Modulus`) but stay above
  every limit the code states. Strings are the names that matter.
* `pcl::KdTreeFLANN` is external. It returns a nearest point and breaks ties
  freely; the radii of the instances lie strictly between distances, so that
  nothing depends on whether its radius test is strict.
* CUDA is external. Streams run in order; a call may fail; a failure during
  execution is sticky, after which waiting and freeing fail as well. Waiting
  and freeing do not fail otherwise. A buffer holds the set of inputs its
  contents come from.
* `prepare_gicp` is called before any scan is uploaded, as the constructor of
  `Prepared` does. Called later it would pass covariances of the reference
  without those of the scan to a kernel that reads both.
* Messages, formatting, provenance, areas, volumes and boxes are left out: no
  decision depends on them.

## 3. Runs and bounds

| Run | Configuration | Bounds, and why they are enough |
|---|---|---|
| `executor` | three threads; runs of 0, 2 and 4 blocks with every set of failing blocks; `SizeModulus = 2` | two workers race with each other and with the caller; fewer blocks than threads and a thread with two blocks; with a modulus of 2 `generation_` wraps at every second run, so the number of runs is not bounded |
| `pipeline` | a profile of six points, 26 scans, nine registration results, three sets of boundary points | thresholds met exactly and just missed, every reason a sample can have, both kinds of call in any sequence |
| `sign` | the same | see section 6 |
| `clustering` | all neighbourhood relations on five candidates, neighbours in any order | rank 2 and compression over two links |
| `nearest` | five points on four locations, three queries, three radii, leaves of two | an inner node below the root, coincident points, ties across subtrees, a radius of zero |
| `knn` | six points on three locations, k of 2 and 3, leaves of two | two levels of inner nodes on both sides, equal distances in different subtrees |
| `registration` | two calls of `align` or `register_surfaces`, three rounds, usable and unusable scans, scans of one block, two blocks and above the capacity | a smaller scan after a larger one and the reverse, after a failure at any step |
| `cuda` | one caller that makes the constructor and any three calls, with two sizes of neighbourhood and two batches; another that makes six of the calls of a registration context on an indexed search | growing and reusing the KNN buffers, every retry after a failure; two uploads with GICP, so that a scan search is replaced, and an evaluation after a failed upload |
| `cli` | three runs of the program | a complete run, a failed or killed one over its files, and another |
| `cli_written` | one run | see section 6 |
| `surface` | thirteen inputs (clouds, padded grids, a grid of one row, a row too long for 32 bits, counts too large for 32 bits, arrays that break the contract), thirteen foreign files, `MaxUInt32 = 15` with points of two and three bytes, `Precise = 9`, three calls | normalization before and after another one, a mask or normals computed from a product, a write, a read and one more operation, a change behind a view before any of them; a row of six points with normals does not fit, sixteen points are counted as none and seventeen as one, and a coordinate moved to 11 is printed inexactly |
| `config` | a valid configuration, two changes by caller or author, for every kind of field the values at and beyond its limits, unset, null, absent and mistyped | rules relate at most two fields (threshold and budget), and a round trip needs one change |

Deadlock checking is off where a model really ends: after the destructor, at
the return of a function, when the bound on calls, changes or runs is used up. The
pipeline never ends and is checked for deadlock.

### Fairness

Weak fairness of what a thread does on its own, never of what its owner may
choose: the caller and each worker inside the executor (the operating system
schedules runnable threads, callbacks return), the steps of an inspection, of
an `align` and of a CUDA call that has begun, the steps of the device, the steps
of the program once started. The clustering and the searches have no fairness
and no liveness property: TLC explores them to their ends, and their loops are
bounded by the code. `SurfaceStore` and `Config` consist of single calls. Nobody
has to begin a call, destroy an object or wake up spuriously, and no failure is
required to happen or not to happen.

## 4. What the properties say

*Executor.* `PendingIsExact`: `pending_` counts exactly the workers that owe an
answer, despite spurious, early or late wakeups and a wrapping generation.
`NoRace`: no unlocked write overlaps a worker's unlocked reads.
`DisjointBlocks`, `Implements`: it is a parallel for. `RunReturns`,
`StopReturns`: no wakeup is lost.

*Pipeline.* `Implements`: the ten stages implement `Inspection`. In particular a
verdict is PASS or FAIL only after an accepted registration, with enough
coverage and some valid sample, and FAIL exactly if a rejectable defect exists;
regions are exactly the clusters, numbered without gap in order of type; gate
failure, diagnostics and timings tell which stages ran; a failure yields no
report. The mapping makes the evidence (the examined scan, its boundary flags
and the metrics) visible from the end of the registration on and hides
everything the stages compute from it. `PassMeansCovered` says of PASS what a
user relies on, in terms of the surfaces alone. `EvidenceUsable`: the reason
`normal_missing` is unreachable through the pipeline, and measuring never fails
on a cluster. `CallReturns`.

*Clustering.* `LabelsExact`: labels are the chained classes in order of first
member and do not depend on the order of neighbours. `ForestShallow`: the
recursive `find` terminates and stays shallow.

*Searches.* `NearestExact`: three searches, one exact answer with the lowest
index among equals. `PassedNoBetter`: pruning is safe at every step.
`IndexWellFormed`. `SameNeighborhood`: CPU and device estimate a covariance from
the same indices in the same order. `VisitedOnce`: the stack loses nothing and
visits nothing twice. `StackBounded`: the array of 64 entries, which is never
checked, suffices.

*Registration.* `SumsFresh`: what is solved or reported was computed from this
scan at this pose in every block, and never needs more blocks than the context
has room for. `ConvergenceMeans`: the convergence reported
is the reason the loop was left. `AlignReturns`.

*CUDA.* `OperandsAlive`: queued work never refers to memory that is gone or too
small. `NoLeak`. `MembersTruthful`: members say what is there after any
failure. `ResultCurrent`: a result stems from the present pose and from one
upload, one that succeeded. `CallsReturn`.

*Command line.* `ManifestNotAhead`: a complete manifest never belongs to a later
run than the result beside it. `ExitCodeTruthful`: what the exit code says of
the directory. `RunEnds`.

*Surfaces.* `SoundProducts`: every product honours the contract, whatever has
happened to the arrays behind a view. `Traceable`: through any sequence of calls
a valid point lies where one unit conversion and the composition of all
transforms put it, and was valid at the start. `ReadsBack`: as long as 32 bits
can count the points of a row, a file is never read as another surface than it
was written from, up to the digits ASCII keeps, and it can be read if and only
if 32 bits can also count the bytes of a row. `MaskExplained`, `VoxelsExact`,
`BoundaryExact`: mask, voxel lists and boundary flags against definitions
that do not follow the code (the cells of a grid of cubes; four valid
neighbours in row-major order).

*Configuration.* `NoImplicitDefault`: what is accepted gives every setting itself,
method and backend excepted. `RoundTripFaithful`: a document that was written
and read is judged as the configuration it was written from, at the same field.
`AcceptedEverywhere`: no later stage refuses what `validate_config` accepted.

## 5. Proofs

Eight modules hold proofs. Each theorem is about every value of the constants
that meets the assumptions of its module, where a run of section 3 fixes one;
`Inductive` states `Spec => []IInv` for the inductive invariant, from which the
others follow. Every `IInv` has also been checked by TLC on the instance of its
run, except that of the CUDA search: it asks for contents of all buffers and for
a sequence of states, over which TLC cannot quantify.

| Module | Theorem | Property P in `Spec => []P`, or conclusion |
|---|---|---|
| `CpuExecutorProofs` | `TypeCorrect` | `TypeOK` |
| | `PendingCorrect` | `PendingIsExact` |
| | `RaceFree` | `NoRace` |
| | `BlocksDisjoint` | `DisjointBlocks` |
| | `Refinement` | `Spec => Implements` |
| `InspectionPipelineProofs` | `EvidenceCorrect` | `EvidenceUsable` |
| | `PassCorrect` | `PassMeansCovered` |
| | `Implementation` | `Spec => Implements` |
| `EuclideanClusterProofs` | `ForestCorrect` | `ForestShallow` |
| | `LabelsCorrect` | `LabelsExact` |
| `RegistrationProofs` | `FreshSums` | `SumsFresh` |
| | `ConvergenceCorrect` | `ConvergenceMeans` |
| `CliProofs` | `ManifestCorrect` | `ManifestNotAhead` |
| | `ExitCorrect` | `ExitCodeTruthful` |
| `SurfaceStoreProofs` | `ProductsCorrect` | `SoundProducts` |
| | `TraceCorrect` | `Traceable` |
| | `FilesCorrect` | `ReadsBack` |
| | `MaskCorrect` | `MaskExplained` |
| | `VoxelsCorrect` | `VoxelsExact` |
| | `BoundaryCorrect` | `BoundaryExact` |
| `ConfigProofs` | `NoDefaults` | `NoImplicitDefault` |
| | `NoLateRefusal` | `AcceptedEverywhere` |
| | `RoundTrip` | `RoundTripFaithful` |
| `CudaCorrespondenceProofs` | `OperandsStayAlive` | `OperandsAlive` |
| | `NothingLeaks` | `NoLeak` |
| | `MembersStayTruthful` | `MembersTruthful` |
| | `ResultsAreCurrent` | `ResultCurrent` |

### The executor

For every thread budget, capacity, block size, thread limit, set of run sizes
and width of `std::size_t` of at least one bit (`ExecutorAssumption`), `IInv` is
the conjunction of the type invariant, `PendingIsExact` and four parts that it
needs:

* `Lifecycle`: which threads exist, when `stopping_` is set, that a worker not
  yet started has observed generation 0;
* `Answering`: between runs nobody owes an answer, and a working worker has
  seen the present generation. Without it `pending_` could be exact now and
  wrong after the next publication;
* `Publication`: what is published is what the caller asked for, and recorded
  errors are those of the completed blocks that fail;
* `Partition`: thread *t* works on blocks congruent to *t*, and a block is
  complete exactly if its thread has passed it. This is why `pending_ = 0` means
  that every block is done, and it carries the refinement.

There is one lemma per action or group of similar actions. The arithmetic
(`StrideKeepsResidue`, `StrideSkipsNothing`, `GenerationChanges`) is in lemmas
of its own: the only fact about `generation_` is that its successor modulo at
least 2 differs from it, so a modulus of 2 in the run loses nothing.

### The pipeline

For any reference, scans, boundary flags, estimated normals, registrations and
thresholds that are numbers and surfaces whose arrays are as long as their
storage (`PipelineAssumption`, with the ranges of `ComparisonAssumption` and
`DetectionAssumption`). `Evolution` says which of the submitted, prepared and aligned
scan a stage holds, `Fields` that the two comparison fields are those of some
way to break ties, `Drafted` which clocks and diagnostics the report has
received, and `Measuring` that the regions so far and the clusters still queued
make up the clusters in order of type. The refinement lemma of a stage compares
these with what `Inspection` derives from the surfaces: the sets it mentions
(regions, clusters, coverage) are shown to be the ones the loop has built.
`PassMeansCovered` needs that a sample is counted as covered only if some usable
scan point is near, whatever the ties.

### Clustering

For any number of candidates (`ClusterAssumption`) and any reflexive and
symmetric relation. `Sound` is the forest with its weights: ranks grow along
`parent_`, and a root of rank *k* holds at least 2^*k* candidates. That ranks
stay below `Count`, and that `find` reaches a root within `Count` steps, is
derived from it. `Within` (trees join only what chains join) and `United`
(neighbours the loop has passed are in one tree) are both needed for the
partition to be exactly the chained classes once the loop ends; path compression
is one lemma, that it changes no root. `Labelled` counts the roots met so far.

### Registration

For all block sizes, capacities, scans, numbers of calls and rounds and all
residuals (`RegistrationAssumption`). `Pipeline` says that each buffer
has been filled for the present scan and pose before the next step reads it;
`Bounded` that the buffers never outgrow the capacity; `Rounds` relates the
counters and the flags of the loop to what `report` will tell, and `Told` keeps
that true after the call, until the next one starts.

### Command line

For any number of runs, each of which may fail or be killed anywhere.
`Progress` says which of the two files the present run has written at each
point, `NotAhead` that no file is of a run to come: that the next run starts
from files of earlier runs is what `ManifestNotAhead` rests on.

### Surfaces

For all arrays, grids, units, transforms, regions, cell sizes, radii, hints,
foreign files and any number of calls (`SurfaceAssumption`, `StoreAssumption`:
numbers are numbers, the counts of a cloud that was parsed have 32 bits and its
`row_step` is computed from them). The invariant is short: a view has the shape of a surface
whatever its caller writes into it (`ViewInv`), a held surface honours the
contract and the history in `origin` explains each of its valid points
(`HeldInv`), and a file that was written holds the encoding of what was saved
(`FileInv`). The work is in the lemmas about the operators:

* `Layout`: the size of the storage is what the grid says, since
  `validate_surface_data` compares the two without overflow; `Slot` numbers the points that are not padding
  without collision, which is why files, masks and traces can be compared
  position by position;
* a cloud that passes `validate_fields` has a `row_step` that was not cut and
  storage for every point its header counts (`StorageHolds`); hence a file whose
  rows are too long is refused (`LongRowRefused`), and any other reads back
  (`FileReadsBack`);
* an operation on a source that is merely shaped like a surface, because its
  arrays have changed since they were checked, still yields a sound product;
* `Ascending` lists a finite set of integers in order, and flattening the lists
  of the voxels puts each of them between its offsets (`SourceSegments`); the
  mean of a voxel lies in its cell (`CentreInside`) because rounding down keeps
  it between bounds that are integers;
* the four neighbours of a cell of a grid are its neighbours in row-major order,
  so that the flags of a padded grid are those of the definition.

### Configuration

For any values callers and authors give any number of fields
(`ConfigAssumption`, `ValuesAssumption`: values of a field have its C++ type, a
field of a text is a JSON value). `Origin` says that a remembered source is the
configuration the text was written from, `Reading` that what was parsed is what
the text says, `Verdicts` that the verdict is that of `validate_config`.
`FirstFound` characterises the check that `validate_config` reports, and the
round trip follows a configuration to its text and back field by field: a valid
value comes back as it was, and whatever is lost on the way (a number that is not
finite, an unset string) makes the first failing check fail at the same field.

### The CUDA search

For any set of callers: any strategies, methods and numbers of calls, any sizes of
neighbourhood of at least three, any number of batches (`CudaAssumption`). Host
and device run at their own speeds and any call may fail, so what is allocated,
queued and computed at one moment says little; the invariant speaks of where a call is going.

* A *machine* is the state of the host with the contents the buffers will have
  once the queued work is done (`Now`). `Device` relates it to the real device:
  the queue of the one search that is in use takes the real contents to those of
  the machine (`Drains`), and its operands are there. A step of the device
  changes the queue and the contents, not the machine, and a failure of the
  device ends the relation for good.
* `After` is what a step of a script does to a machine, `Ok` when it is legal:
  a buffer is allocated only if its pointer owns none and somebody will free it,
  work is submitted only inside the scope whose handler drains its stream,
  memory is freed only with the stream empty. `Sound` holds of every machine such
  steps lead to: streams and buffers belong to a search that a scope or the
  caller will destroy (`Ownership`), members imply their buffers (`Equipped`),
  and the buffers that outlive a call hold what the members say (`Facts`). `KnnTrue`,
  that a KNN capacity has its buffers, is apart: between the `cudaFree` of
  the old buffers and the assignment of 0 in `prepare_knn` it does not hold, and
  the proof shows that no exception can leave just there.
* `Control`: what is left of the script of a call leads through legal steps to a
  machine fit for the next call, with the result asked for (`Runs`, `Final`). A step
  of the host consumes a step of the script, so that this is kept by one lemma
  per kind of step; an exception leaves a machine from which unwinding the scopes
  one by one is sound (`Steady`, `Linked`).
* That the script of a call does lead there is shown where the call begins, by
  executing each method symbolically on an arbitrary machine between two calls
  (`QueryRuns`, `PrepareResidentRuns`, `KnnRuns`, `PrepareGicpRuns`, `UploadRuns`,
  `EvaluateRuns`, ...); `upload_scan` runs the constructor, `prepare_resident`
  and `prepare_gicp` of the next search in the middle of its own script, and
  these lemmas are about any search, so that they serve twice. The
  batches of 16384 points are an induction over their number.

`ResultCurrent` of `upload_scan` and `evaluate` together needs `Linked`: a scan
counts only if it is the last one uploaded. `upload_scan` clears `scan_count`
before it touches the device, and without that assignment the lemma
about its first steps fails.

### What stays with TLC

* Liveness (`RunReturns`, `StopReturns`, `CallReturns`, `AlignReturns`,
  `CallsReturn`, `RunEnds`): fairness and `ENABLED` are beyond the proof system.
* `SpatialIndex`, `NearestSearch` and `KnnSearch`: the hierarchy is built by
  recursive operators, about which the installed provers cannot reason.
* `Inspection` and `ParallelFor` have no theorem of their own: they are the
  specifications the refinement theorems are about.

## 6. Findings

1. **Signs without proof of orientation** (run `sign`, `SignNeedsProof`).
   `docs/architecture/README.md:107-108` says that absent evidence leaves the
   orientation unproven "so later dent/bump logic must not infer a sign". The
   pipeline passes an empty hint for reference and scan
   (`inspection_pipeline.cpp:169`, `179`) and classifies dents and bumps all the
   same (`333`).
2. **A failed flush goes unnoticed** (run `cli_written`, `OkMeansWritten`).
   `write_text_file` tests its stream before it is flushed
   (`cli/main.cpp:85`); the destructor drops the error, and `inspect` prints
   "wrote:" and returns 0 with an incomplete file.
Five smaller disagreements were met while modelling. No run is about them; the
models behave as the code does, and the properties allow for it.

* Normals of the wrong type are read. Three float64 fields satisfy the check
  whose message is "normal fields must be complete float32 triples"
  (`pcl_io_backend.cpp:95-101`), because it only refuses a mixture;
  `decode_cloud` then asks whether `normal_x` exists (`138`) and reads the bytes
  as floats (`Misread` in `Surface`).
* A grid of one row is lost. `docs/tasks/PCAD-IO-002.md:22` asks for "organized
  topology"; the reader makes a grid only if the height exceeds 1
  (`pcl_io_backend.cpp:185`). `ReadsBack` asks for the samples, not the grid,
  of such a surface.
* Large surfaces are written and cannot be read. `docs/tasks/PCAD-IO-001.md:24`
  and `PCAD-IO-002.md:22` ask that a file preserve row-major order, masks, normals
  and topology, and set no limit. `encode_cloud` computes `row_step` in 32 bits
  (`pcl_io_backend.cpp:210`): from about 172 million points with normals in a row,
  or 330 million without, it wraps, the write reports success and
  `validate_fields` refuses the file (`114`). From 2^32 points the count itself
  is cut (`208`); a count cut to zero is then divided by (`50`), any other
  leaves a file that counts too few points. `ReadsBack` states the refusal and
  claims nothing beyond the count. `through_pcl` refuses such a surface
  (`pcl_backend.cpp:122`).
* Unset units and frames are not null. `json_serialization.hpp:11-12` says
  "Optional fields are emitted as null"; units and frames become empty strings
  (`json_serialization.cpp:165-173`), which `parse_config` refuses.
  `RoundTripFaithful` allows that refusal.
* Counts are converted, not checked. `get<std::uint32_t>`
  (`json_serialization.cpp:257`) takes a number modulo 2^32 and a boolean as 0 or
  1, so that `validate-config` accepts documents whose counts break the rules
  (`Value` in `Config`).

## 7. Not modelled

* The arithmetic: CPU and AVX2 kernels, linear algebra, covariances, PCA, angles,
  areas, volumes and boxes. No state or control depends on them beyond the
  choices the models make freely.
* The result document, the manifest, SHA-256 and attribute files: formatting.
  When they are written is in `Cli`.
* The parsers of PCL and nlohmann::json, and the checks of path names. A failed
  read is a failing stage in `Cli`; field types and values of a file that could
  be parsed are in `Surface` and `Config`.
* Two processes writing into one directory: the program takes no lock and
  promises nothing. A `StageClock` whose destructor throws during unwinding. A
  search over a scan whose arrays changed while it runs.

## 8. Plan

Done: executor with proofs; the pipeline and the abstract inspection it
implements; clustering, searches, registration, CUDA host side, command line;
surfaces, preprocessing, files; configuration; proofs of every safety property
of all of them but the searches.

Left to model: a composition of `Registration` with an abstract device search,
shown to be implemented by `CudaCorrespondence`.

Left to prove: that composition, once it is stated; and the two searches, which
needs the index as a recursive function instead of recursive operators.
