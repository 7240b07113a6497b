---------------------------- MODULE ClientRequest ----------------------------
(***************************************************************************)
(* Parsing of a client command: ClientRequest::from_user_input,           *)
(* extract_action, extract_expiry, and the ClientAction conversions       *)
(* consensus_required and to_write_request.                                *)
(*                                                                         *)
(* Source: src/duva/src/presentation/clients/request.rs.  A request is a  *)
(* sequence of argument strings.  Letter case is abstracted away: the     *)
(* command is the upper-cased token and the words the code compares with  *)
(* eq_ignore_ascii_case or to_uppercase are given in one case.  A number  *)
(* is a string that parses; NumVal gives its value.  Times are in         *)
(* milliseconds on a scaled axis: Now for Utc::now(), DateBound for the   *)
(* range chrono can represent, U64Mod for 2^64.                            *)
(***************************************************************************)
EXTENDS Integers, Sequences, SequencesExt

CONSTANTS
    Word,       \* argument strings that are not numbers
    NumVal,     \* numeric argument strings -> the integer they parse to
    Now,        \* Utc::now(), in ms since the epoch
    DateBound,  \* chrono::DateTime holds the instants -DateBound..DateBound ms
    U64Mod,     \* the modulus of an `as u64` cast (2^64, scaled)
    MaxArgs     \* bound: arguments after the command

Num == DOMAIN NumVal
Token == Word \cup Num

ASSUME Now > 0 /\ DateBound > Now /\ U64Mod > DateBound
ASSUME \A t \in Num : NumVal[t] \in -(U64Mod \div 2)..(U64Mod \div 2 - 1)  \* parses as i64

(* The command names extract_action matches, and one it does not.         *)
Command == {"SET", "APPEND", "GET", "KEYS", "DEL", "EXISTS", "PING", "ECHO",
            "INFO", "CLUSTER", "REPLICAOF", "ROLE", "CONFIG", "SAVE", "INCR",
            "DECR", "TTL", "INCRBY", "DECRBY", "MGET", "FLUSHALL"}

VARIABLES input, result

vars == <<input, result>>

-----------------------------------------------------------------------------
(* Results: Ok(kind, num) is Ok(ClientAction::kind) with the number the   *)
(* action carries (index, increment, expiry instant); Err(why) an error.  *)
(* "Panic" is a panic of the parsing task.                                 *)
Ok(kind, num) == [ok |-> TRUE, kind |-> kind, num |-> num]
Err(why) == [ok |-> FALSE, kind |-> why, num |-> 0]
Pending == Err("Pending")

ParsesInt(t) == t \in Num
ParsesUnsigned(t) == t \in Num /\ NumVal[t] >= 0
BindAddr(t) == t = "host:port"

(* require_exact_args and require_non_empty_args                          *)
RequireExactArgs(args, count) == Len(args) = count
RequireNonEmptyArgs(args) == Len(args) > 0

(* The commands whose only check is one of the two helpers, and the       *)
(* ClientAction each yields.                                               *)
ExactArgs == ("KEYS" :> 1) @@ ("PING" :> 0) @@ ("ECHO" :> 1) @@ ("ROLE" :> 0)
             @@ ("CONFIG" :> 2) @@ ("SAVE" :> 0) @@ ("INCR" :> 1) @@ ("DECR" :> 1)
             @@ ("TTL" :> 1)
NonEmptyArgs == {"DEL", "EXISTS", "INFO", "MGET"}
ActionName == ("KEYS" :> "Keys") @@ ("PING" :> "Ping") @@ ("ECHO" :> "Echo")
              @@ ("ROLE" :> "Role") @@ ("CONFIG" :> "Config") @@ ("SAVE" :> "Save")
              @@ ("INCR" :> "Incr") @@ ("DECR" :> "Decr") @@ ("TTL" :> "Ttl")
              @@ ("DEL" :> "Delete") @@ ("EXISTS" :> "Exists") @@ ("INFO" :> "Info")
              @@ ("MGET" :> "MGet") @@ ("INCRBY" :> "IncrBy") @@ ("DECRBY" :> "DecrBy")

(* extract_expiry: parse an i64, then Utc::now() + milliseconds, which     *)
(* panics when the instant is outside chrono's range.                       *)
ExtractExpiry(t) ==
    IF ~ParsesInt(t) THEN Err("Parse")
    ELSE IF Now + NumVal[t] > DateBound \/ Now + NumVal[t] < -DateBound THEN Err("Panic")
    ELSE Ok("Expiry", Now + NumVal[t])

(* the "SET" arm: two arguments, or four with PX third                     *)
ExtractSet(args) ==
    IF ~(Len(args) = 2 \/ (Len(args) = 4 /\ args[3] = "px")) THEN Err("Arity")
    ELSE IF Len(args) = 2 THEN Ok("Set", 0)
    ELSE LET e == ExtractExpiry(args[4])
         IN  IF e.ok THEN Ok("SetWithExpiry", e.num) ELSE e

(* A GET whose index is parsed as a signed integer.                         *)
ExtractGetSigned(args) ==
    CASE Len(args) = 1 -> Ok("Get", 0)
      [] Len(args) = 2 -> IF ParsesInt(args[2]) THEN Ok("IndexGet", NumVal[args[2]])
                          ELSE Err("Parse")
      [] OTHER -> Err("Arity")

(* the "GET" arm: a key, or a key and an index that parses as u64          *)
ExtractGet(args) ==
    CASE Len(args) = 1 -> Ok("Get", 0)
      [] Len(args) = 2 -> IF ParsesUnsigned(args[2]) THEN Ok("IndexGet", NumVal[args[2]])
                          ELSE Err("Parse")
      [] OTHER -> Err("Arity")

(* the "CLUSTER" arm: the sub-command is args[0], upper-cased              *)
ExtractCluster(args) ==
    IF ~RequireNonEmptyArgs(args) THEN Err("Arity")
    ELSE CASE args[1] = "nodes" -> Ok("ClusterNodes", 0)
           [] args[1] = "info" -> Ok("ClusterInfo", 0)
           [] args[1] = "forget" ->
                 IF Len(args) # 2 THEN Err("Arity")
                 ELSE IF BindAddr(args[2]) THEN Ok("ClusterForget", 0) ELSE Err("Parse")
           [] args[1] = "meet" /\ Len(args) = 2 ->
                 IF BindAddr(args[2]) THEN Ok("ClusterMeet", 0) ELSE Err("Parse")
           [] args[1] = "meet" /\ Len(args) = 3 ->
                 IF args[3] \in {"lazy", "eager"} /\ BindAddr(args[2])
                 THEN Ok("ClusterMeet", 0) ELSE Err("Parse")
           [] args[1] = "meet" -> Err("Arity")
           [] args[1] = "reshard" -> Ok("ClusterReshard", 0)
           [] OTHER -> Err("UnknownSubcommand")

(* extract_action                                                           *)
ExtractAction(cmd, args) ==
    CASE cmd = "SET" -> ExtractSet(args)
      [] cmd = "APPEND" -> IF Len(args) # 2 THEN Err("Arity") ELSE Ok("Append", 0)
      [] cmd = "GET" -> ExtractGet(args)
      [] cmd = "CLUSTER" -> ExtractCluster(args)
      [] cmd = "REPLICAOF" ->
            IF ~RequireExactArgs(args, 2) THEN Err("Arity")
            ELSE IF ParsesUnsigned(args[2]) THEN Ok("ReplicaOf", 0) ELSE Err("Parse")
      [] cmd \in {"INCRBY", "DECRBY"} ->
            IF ~RequireExactArgs(args, 2) THEN Err("Arity")
            ELSE IF ParsesInt(args[2]) THEN Ok(ActionName[cmd], NumVal[args[2]]) ELSE Err("Parse")
      [] cmd \in DOMAIN ExactArgs ->
            IF RequireExactArgs(args, ExactArgs[cmd]) THEN Ok(ActionName[cmd], 0) ELSE Err("Arity")
      [] cmd \in NonEmptyArgs ->
            IF RequireNonEmptyArgs(args) THEN Ok(ActionName[cmd], 0) ELSE Err("Arity")
      [] OTHER -> Err("UnknownCommand")

(* ClientRequest::from_user_input: the first value is the command          *)
FromUserInput(v) == IF v = <<>> THEN Err("Format") ELSE ExtractAction(Head(v), Tail(v))

(* consensus_required without the Append variant                            *)
ConsensusRequiredNoAppend(a) ==
    a.ok /\ a.kind \in {"Set", "SetWithExpiry", "Delete", "Incr", "Decr", "IncrBy", "DecrBy"}

(* ClientAction::consensus_required                                         *)
ConsensusRequired(a) ==
    a.ok /\ a.kind \in {"Set", "SetWithExpiry", "Append", "Delete", "Incr", "Decr",
                        "IncrBy", "DecrBy"}

(* ClientAction::to_write_request; any other action reaches unreachable!.  *)
(* expires_at is expiry.timestamp_millis() as u64.                          *)
ToWriteRequest(a) ==
    CASE a.kind = "Set" -> [op |-> "Set", delta |-> 0, expiresAt |-> -1]
      [] a.kind = "SetWithExpiry" -> [op |-> "Set", delta |-> 0, expiresAt |-> a.num % U64Mod]
      [] a.kind = "Append" -> [op |-> "Append", delta |-> 0, expiresAt |-> -1]
      [] a.kind = "Delete" -> [op |-> "Delete", delta |-> 0, expiresAt |-> -1]
      [] a.kind = "Incr" -> [op |-> "Incr", delta |-> 1, expiresAt |-> -1]
      [] a.kind = "Decr" -> [op |-> "Decr", delta |-> 1, expiresAt |-> -1]
      [] a.kind = "IncrBy" -> [op |-> "Incr", delta |-> a.num, expiresAt |-> -1]
      [] a.kind = "DecrBy" -> [op |-> "Decr", delta |-> a.num, expiresAt |-> -1]
      [] OTHER -> [op |-> "Unreachable", delta |-> 0, expiresAt |-> -1]

-----------------------------------------------------------------------------
(* A client sends one request; the connection handler parses it.           *)
Inputs == {<<>>} \cup {<<c>> \o a : c \in Command, a \in BoundedSeq(Token, MaxArgs)}

Init == input \in Inputs /\ result = Pending

Parse ==
    /\ result = Pending
    /\ result' = FromUserInput(input)
    /\ UNCHANGED input

Spec == Init /\ [][Parse]_vars

-----------------------------------------------------------------------------
Result == [ok : BOOLEAN, kind : STRING, num : Int]

(* IndexGet's index is a u64 *)
TypeOK ==
    /\ input \in Inputs
    /\ result \in Result
    /\ result.kind = "IndexGet" => result.num \in 0..(U64Mod - 1)

(* The commands the client surface lists as needing consensus: SET, SET PX, *)
(* APPEND, DEL, INCR, DECR, INCRBY, DECRBY.                                  *)
SurfaceWrites == {"SET", "APPEND", "DEL", "INCR", "DECR", "INCRBY", "DECRBY"}

(* A parsed request goes through consensus exactly when it is one of the    *)
(* surface's writes (consensus_required on the result of extract_action),  *)
(* and every such action converts in to_write_request without reaching     *)
(* its unreachable! arm.                                                      *)
WritesReachConsensus ==
    result.ok =>
        /\ ConsensusRequired(result) <=> Head(input) \in SurfaceWrites
        /\ ConsensusRequired(result) => ToWriteRequest(result).op # "Unreachable"

(* SET k v PX ms stores the key with expires_at the instant now + ms, so a  *)
(* key set with ms <= 0 is already expired (to_write_request's cast of       *)
(* timestamp_millis to u64).                                                  *)
ExpiryIsRequestedInstant ==
    result.kind = "SetWithExpiry" => ToWriteRequest(result).expiresAt = result.num

(* Parsing a request never panics the connection task: every input ends in  *)
(* Ok or Err (extract_expiry adds the client's milliseconds to Utc::now()).  *)
ParseNeverPanics == result.kind # "Panic"

====
