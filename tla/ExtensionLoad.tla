----------------------------- MODULE ExtensionLoad -----------------------------
(***************************************************************************)
(* LoadInternal: what loading the extension registers, in which order, for *)
(* the databases of one process.                                           *)
(*                                                                         *)
(* Functions and the secret type belong to a database. The two copies that *)
(* are made of read_parquet are globals of the process: every load assigns *)
(* them again, and every scan of every database uses them, also after the  *)
(* database they were copied from is closed. A database runs one load at a *)
(* time, but a function can be called as soon as it is registered, by      *)
(* another connection while the load still runs.                           *)
(*                                                                         *)
(* A load ends early when the parquet extension cannot be had, and may be  *)
(* tried again; DuckDB refuses to register a secret type twice.            *)
(*                                                                         *)
(* Left out: httpfs, whose absence never fails the load, the options and   *)
(* the secret functions, which are replaced when they exist.               *)
(***************************************************************************)
EXTENDS Naturals, Sequences

CONSTANTS
    Databases,      \* the databases of a process
    NoFunction      \* the globals before the first load

ASSUME ExtensionLoadAssumption == NoFunction \notin Databases

VARIABLES
    available,      \* the databases that can load the parquet extension
    at,             \* the step of each database's load, 0 when none runs
    secretTypes,    \* the databases with the secret type delta_sharing
    registered,     \* each database's functions
    refused,        \* the databases whose load failed on the secret type
    base_parquet_scan_function, \* the database it was copied from, or NoFunction
    g_read_parquet_function     \* likewise

globals  == <<base_parquet_scan_function, g_read_parquet_function>>
loadVars == <<available, at, secretTypes, registered, refused, globals>>

Scans     == {"delta_share_read", "delta_share_change_data_feed"}
Functions == {"delta_share_list", "delta_share_list_all_tables", "delta_share_list_files"}
                 \cup Scans

-------------------------------------------------------------------------------

\* Faulty: the dependency is ensured where it is used; or the scans are registered
\* before the globals they use are assigned.
LoadOrderParquetLater ==
    <<"secret_type", "parquet", "listings", "scan_function", "read_parquet",
      "delta_share_read", "delta_share_change_data_feed", "delta_share_list_files">>

LoadOrderScansFirst ==
    <<"parquet", "secret_type", "listings", "scan_function", "delta_share_read",
      "delta_share_change_data_feed", "read_parquet", "delta_share_list_files">>

\* The steps of LoadInternal.
LoadOrder ==
    <<"parquet", "secret_type", "listings", "scan_function", "read_parquet",
      "delta_share_read", "delta_share_change_data_feed", "delta_share_list_files">>

AtStep(d, step) == at[d] \in DOMAIN LoadOrder /\ LoadOrder[at[d]] = step

\* After the last step the database is loaded, and stays at the step behind it.
Go(d)   == at' = [at EXCEPT ![d] = @ + 1]
Fail(d) == at' = [at EXCEPT ![d] = 0]

LoadInit ==
    /\ available \in SUBSET Databases
    /\ at = [d \in Databases |-> 0]
    /\ secretTypes = {}
    /\ registered = [d \in Databases |-> {}]
    /\ refused = {}
    /\ base_parquet_scan_function = NoFunction
    /\ g_read_parquet_function = NoFunction

BeginLoad(d) ==
    /\ at[d] = 0
    /\ Go(d)
    /\ UNCHANGED <<available, secretTypes, registered, refused, globals>>

\* ensure_extension_loaded("parquet", true)
EnsureParquet(d) ==
    /\ AtStep(d, "parquet")
    /\ d \in available
    /\ Go(d)
    /\ UNCHANGED <<available, secretTypes, registered, refused, globals>>

ParquetMissing(d) ==
    /\ AtStep(d, "parquet")
    /\ d \notin available
    /\ Fail(d)
    /\ UNCHANGED <<available, secretTypes, registered, refused, globals>>

\* It throws for a type that is registered already.
RegisterSecretType(d) ==
    /\ AtStep(d, "secret_type")
    /\ secretTypes' = secretTypes \cup {d}
    /\ refused' = IF d \in secretTypes THEN refused \cup {d} ELSE refused
    /\ IF d \in secretTypes THEN Fail(d) ELSE Go(d)
    /\ UNCHANGED <<available, registered, globals>>

RegisterFunctions(d, names) ==
    /\ registered' = [registered EXCEPT ![d] = @ \cup names]
    /\ Go(d)
    /\ UNCHANGED <<available, secretTypes, refused, globals>>

RegisterListings(d) ==
    /\ AtStep(d, "listings")
    /\ RegisterFunctions(d, {"delta_share_list", "delta_share_list_all_tables"})

CopyScanFunction(d) ==
    /\ AtStep(d, "scan_function")
    /\ base_parquet_scan_function' = d
    /\ Go(d)
    /\ UNCHANGED <<available, secretTypes, registered, refused, g_read_parquet_function>>

CopyReadParquet(d) ==
    /\ AtStep(d, "read_parquet")
    /\ g_read_parquet_function' = d
    /\ Go(d)
    /\ UNCHANGED <<available, secretTypes, registered, refused, base_parquet_scan_function>>

RegisterScan(d) ==
    \E name \in Scans \cup {"delta_share_list_files"} :
        /\ AtStep(d, name)
        /\ RegisterFunctions(d, {name})

-------------------------------------------------------------------------------
\* Around the load

Loaded(d) == at[d] = Len(LoadOrder) + 1

\* The user installs the parquet extension.
InstallParquet(d) ==
    /\ d \notin available
    /\ available' = available \cup {d}
    /\ UNCHANGED <<at, secretTypes, registered, refused, globals>>

\* The database is closed, and opened as a new instance. The globals stay.
Reopen(d) ==
    /\ at[d] = 0 \/ Loaded(d)
    /\ at' = [at EXCEPT ![d] = 0]
    /\ secretTypes' = secretTypes \ {d}
    /\ registered' = [registered EXCEPT ![d] = {}]
    /\ refused' = refused \ {d}
    /\ UNCHANGED <<available, globals>>

LoadStep(d) ==
    \/ BeginLoad(d)
    \/ EnsureParquet(d)
    \/ ParquetMissing(d)
    \/ RegisterSecretType(d)
    \/ RegisterListings(d)
    \/ CopyScanFunction(d)
    \/ CopyReadParquet(d)
    \/ RegisterScan(d)
    \/ InstallParquet(d)

LoadNext == \E d \in Databases : LoadStep(d) \/ Reopen(d)

LoadSpec == LoadInit /\ [][LoadNext]_loadVars

-------------------------------------------------------------------------------
\* Properties

LoadTypeOK ==
    /\ available \in SUBSET Databases
    /\ at \in [Databases -> 0..Len(LoadOrder) + 1]
    /\ secretTypes \in SUBSET Databases
    /\ registered \in [Databases -> SUBSET Functions]
    /\ refused \in SUBSET Databases
    /\ base_parquet_scan_function \in Databases \cup {NoFunction}
    /\ g_read_parquet_function \in Databases \cup {NoFunction}

\* Wherever a scan can be bound, by any connection and while any load is under way,
\* both globals have been assigned: no bind finds read_parquet missing, and no scan
\* of a table with files returns nothing because there is no function to read them.
BindsFindFunction ==
    \A d \in Databases :
        registered[d] \cap Scans # {} =>
            /\ base_parquet_scan_function # NoFunction
            /\ g_read_parquet_function # NoFunction

\* A load that failed can be tried again in the same database: none is refused
\* because an earlier one got as far as the secret type.
LoadCanBeRetried == refused = {}

===============================================================================
