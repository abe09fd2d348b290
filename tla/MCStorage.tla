----------------------------- MODULE MCStorage ------------------------------
(***************************************************************************)
(* The database and what fills and queries it, one part at a time in small *)
(* instances: the partitions of the log table, the boosted catch-up whose  *)
(* queue is seeded while results come in, the logs kept per contract, and  *)
(* the queries of logs by range.  The behaviours are those of the four     *)
(* specifications: the variable part says which one runs, and the others   *)
(* do not start.                                                           *)
(***************************************************************************)
EXTENDS LogPartitions, Sequences

VARIABLE part

VARIABLES bs_stored, bs_nextAssign, bs_nextWrite, bs_pending, bs_recall, bs_results,
  bs_cache, bs_chan, bs_wpc, bs_wtask, bs_dpc, bs_batch, bs_apc, bs_cnt,
  bs_todo, bs_bump, bs_seen, bs_ppc, bs_collected, bs_cancelled, bs_closed,
  bs_high, bs_raced, bs_errs, bs_faults, bs_alarms

bsVars == <<bs_stored, bs_nextAssign, bs_nextWrite, bs_pending, bs_recall,
           bs_results, bs_cache, bs_chan, bs_wpc, bs_wtask, bs_dpc, bs_batch,
           bs_apc, bs_cnt, bs_todo, bs_bump, bs_seen, bs_ppc, bs_collected,
           bs_cancelled, bs_closed, bs_high, bs_raced, bs_errs, bs_faults,
           bs_alarms>>

VARIABLES cl_chain, cl_db, cl_pops, cl_rd

clVars == <<cl_chain, cl_db, cl_pops, cl_rd>>

VARIABLES lq_chain, lq_stored, lq_f, lq_q

lqVars == <<lq_chain, lq_stored, lq_f, lq_q>>

\* Chains of five blocks for the queries, in three epochs of the core space or
\* five of the eth space; ns says how many logs each block has.
LogsOf(b, n) ==
  [i \in 1 .. n |-> [b |-> b, i |-> i, hit |-> (b + i) % 2 = 0, size |-> IF b = 3 THEN 2 ELSE 1]]
ChainOf(space, epochs, ns) ==
  [space |-> space,
   blocks |-> [k \in 1 .. 5 |-> [epoch |-> epochs[k], logs |-> LogsOf(k - 1, ns[k])]]]
Counts == {<<0, 2, 1, 1, 2>>, <<1, 1, 0, 4, 1>>, <<0, 0, 3, 0, 3>>}
Chains == {ChainOf("cfx", <<0, 1, 1, 2, 2>>, ns) : ns \in Counts}
          \cup {ChainOf("eth", <<0, 1, 2, 3, 4>>, ns) : ns \in Counts}

\* The filters: by epochs, by blocks and by hashes; -1 is an end that is not
\* given, -2 the latest and -3 a hash that is not known.
Ends == {-1, -2, 0, 1, 2}
Queries ==
  [fe : Ends, te : Ends, fb : {-1}, tb : {-1}, hashes : {<<>>, <<1>>}, topics : BOOLEAN]
  \cup [fe : {-1}, te : {-1}, fb : Ends \cup {3, 4}, tb : Ends \cup {3, 4}, hashes : {<<>>},
        topics : BOOLEAN]
  \cup [fe : {-1}, te : {-1}, fb : {-1}, tb : {-1}, topics : BOOLEAN,
        hashes : {<<3, 1, 3>>, <<4, 2>>, <<3>>, <<4, -3>>, <<-3>>, <<1, 2, 3, 4>>}]

Seed == INSTANCE Boost WITH
  Workers <- {"w1", "w2"}, LastEpoch <- 2, TaskQueueSize <- 3,
  ResultQueueSize <- 8, WriteBufferSize <- 1, DefaultTaskSize <- 1,
  MinTaskSize <- 1, MaxTaskSize <- 2, Threshold <- 1,
  MaxErrs <- 1, MaxFaults <- 0, MaxAlarms <- 0, Nil <- Nil,
  stored <- bs_stored, nextAssign <- bs_nextAssign, nextWrite <- bs_nextWrite,
  pending <- bs_pending, recall <- bs_recall, results <- bs_results,
  cache <- bs_cache, chan <- bs_chan, wpc <- bs_wpc, wtask <- bs_wtask,
  dpc <- bs_dpc, batch <- bs_batch, apc <- bs_apc, cnt <- bs_cnt,
  todo <- bs_todo, bump <- bs_bump, seen <- bs_seen, ppc <- bs_ppc,
  collected <- bs_collected, cancelled <- bs_cancelled, closed <- bs_closed,
  high <- bs_high, raced <- bs_raced, errs <- bs_errs, faults <- bs_faults,
  alarms <- bs_alarms

CL == INSTANCE ContractLogs WITH
  Contracts <- {"a", "b"}, Table <- [a |-> 1, b |-> 1], Threshold <- 2,
  MaxLogLimit <- 1, MaxEpochs <- 3, MaxBatch <- 1, MaxPops <- 1,
  Ranges <- {<<0, 1>>}, chain <- cl_chain, db <- cl_db, pops <- cl_pops,
  rd <- cl_rd

LQ == INSTANCE LogQuery WITH
  Chains <- Chains, Filters <- Queries, MaxLogLimit <- 2,
  MaxLogQuerySetSize <- 4, MaxLogRange <- 2, MaxHashes <- 3, MaxBytes <- 3,
  Hardfork <- 1, chain <- lq_chain, stored <- lq_stored, f <- lq_f, q <- lq_q

-----------------------------------------------------------------------------
\* Any query serves as the one that does not start.
FirstQuery == CHOOSE q \in Queries : ~q.topics /\ q.hashes = <<3>>

StorageInit ==
  /\ part \in {"partitions", "boost", "contracts", "queries"}
  /\ Init /\ Seed!Init /\ CL!Init
  /\ LQ!Init /\ (part # "queries" => lq_stored = 0 /\ lq_f = FirstQuery
                                     /\ lq_chain = ChainOf("eth", <<0, 1, 2, 3, 4>>, <<0, 2, 1, 1, 2>>))

Partitions == part = "partitions" /\ Next /\ UNCHANGED <<part, bsVars, clVars, lqVars>>
Boosted == part = "boost" /\ Seed!OverlapNext /\ UNCHANGED <<part, vars, clVars, lqVars>>
PerContract == part = "contracts" /\ CL!Next /\ UNCHANGED <<part, vars, bsVars, lqVars>>
Querying == part = "queries" /\ LQ!Next /\ UNCHANGED <<part, vars, bsVars, clVars>>

StorageNext == Partitions \/ Boosted \/ PerContract \/ Querying

StorageSpec == StorageInit /\ [][StorageNext]_<<part, vars, bsVars, clVars, lqVars>>
-----------------------------------------------------------------------------
\* Seeding the queue while results are handled loses no epoch and delivers all
\* in order (assignTasks is run by run and by the dispatch loop).
SeedingIsSafe == part = "boost" => Seed!NothingLost /\ Seed!DeliveredInOrder

\* The tables by address and by contract hold the logs of the stored epochs, each
\* once, through migrations, pushes that fail and pops; what a query answers is
\* exact, and the range it suggests fits (migrate, Add, Popn, GetLogs).
ContractLogsAreExact ==
  part = "contracts" =>
    CL!TypeOK /\ CL!LogsAreStoredOnce /\ CL!AnswersAreExact /\ CL!SuggestionsFit

\* An answer to a query of logs has exactly the logs of its range, in order,
\* wherever splitLogFilter cuts it between the database and the full node, and a
\* suggested range is smaller and has an answer.
QueriesAreComplete == part = "queries" => LQ!TypeOK /\ LQ!AnswersAreComplete /\ LQ!SuggestionsHelp
=============================================================================
