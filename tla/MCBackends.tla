------------------------------ MODULE MCBackends ------------------------------
(* Environments and keys for checking Backends with TLC. *)
EXTENDS Backends

CONSTANTS k

OneKey == {k}

Environments ==
    [secrets : {"memory", "kms", "vault"},
     logs : {"memory", "sqlite", "postgres", "mysql"},
     kms_key_id : {k, NoKey},
     aws : BOOLEAN, pg_dsn : BOOLEAN, otter_client : BOOLEAN]
=============================================================================
