---------------------------- MODULE MCKeyRegistry ----------------------------
(* KeyRegistry on two fingerprints of both types of one cluster.           *)
EXTENDS KeyRegistry

(* Batches for one group: any of its keys, one status, any primary flags.  *)
MCBatch ==
  {{[cluster |-> c, type |-> t, fp |-> f, status |-> s, primary |-> f \in P, from |-> NoKey]
      : f \in T} : c \in Cluster, t \in KeyType, s \in Status,
                   T \in SUBSET Fingerprint, P \in SUBSET Fingerprint}
===============================================================================
