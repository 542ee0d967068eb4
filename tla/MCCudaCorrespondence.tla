------------------------ MODULE MCCudaCorrespondence ------------------------
(***************************************************************************)
(* Two callers.  One uses every method: the constructor and any three      *)
(* further calls, with two sizes of neighbourhood and two batches.  The    *)
(* other is a registration context: six calls of the methods it uses, so   *)
(* that with GICP a second upload replaces scan_search and is evaluated.   *)
(***************************************************************************)
EXTENDS CudaCorrespondence

AnyCaller == [strategies |-> {"indexed", "tiled"}, neighbors |-> {3, 4}, batches |-> 2, calls |-> 4,
              methods |-> {"constructor", "query_into", "prepare_resident", "knn", "prepare_gicp",
                           "upload_scan", "evaluate", "download_covariances"}]

Context == [strategies |-> {"indexed"}, neighbors |-> {3}, batches |-> 1, calls |-> 6,
            methods |-> {"constructor", "prepare_resident", "prepare_gicp", "upload_scan", "evaluate"}]

MCSessions == {AnyCaller, Context}
=============================================================================
