----------------------------- MODULE BlockDevice ------------------------------
(***************************************************************************)
(* What a program wants of its disks: blocks that keep what was written to *)
(* them, one request at a time.  A request that fails, or that the program *)
(* gives up, may leave its own block damaged if it is a write, and nothing *)
(* else.                                                                   *)
(*                                                                         *)
(* If the medium can fail, there are two failures that no request reports, *)
(* and they are all of them: a request may be misled and work on another   *)
(* part of the disk, and a block written last may lose what was written as *)
(* long as no later request to the disk was served.                        *)
(***************************************************************************)
CONSTANTS
  Block,     \* the blocks of all the disks
  DiskOf,    \* of each block: its disk
  Value,     \* what a block can hold
  Fails,     \* whether the medium can fail
  NoReq, NoReply, Failure

VARIABLES
  store,     \* what each block holds
  req,       \* the request under way: its operation, block and value
  reply,     \* the answer to the last request
  misled,    \* the request under way is served elsewhere, and nobody knows
  unsettled  \* the blocks that may still lose what was last written to them

vars == <<store, req, reply, misled, unsettled>>

Reads  == [op : {"read"}, block : Block]
Writes == [op : {"write"}, block : Block, value : Value]

Submit(r) ==
  /\ req = NoReq
  /\ req' = r /\ reply' = NoReply
  /\ UNCHANGED <<store, misled, unsettled>>

\* A request under way.  A write changes its own block bit by bit, unless it is misled
\* to others of the disk; an unsettled block may lose what it was written.
Work ==
  /\ req # NoReq
  /\ misled' \in {misled, Fails}
  /\ \A b \in Block :
       LET own == \/ req \in Writes /\ b = req.block
                  \/ misled' /\ DiskOf[b] = DiskOf[req.block]
       IN  /\ store'[b] # store[b] => own \/ (Fails /\ b \in unsettled)
           /\ b \in unsettled' \ unsettled => own
  /\ UNCHANGED <<req, reply>>

Over(answer) ==
  /\ req # NoReq
  /\ req' = NoReq /\ reply' = answer /\ misled' = FALSE
  /\ UNCHANGED <<store, unsettled>>

\* A request that was not misled has settled all the requests before it.  A read that
\* was may answer anything.
Complete ==
  \/ /\ misled
     /\ req \in Writes => reply' = req.value
     /\ Over(reply')
  \/ /\ ~misled /\ req \in Reads
     /\ unsettled = {}
     /\ Over(store[req.block])
  \/ /\ ~misled /\ req \in Writes
     /\ store[req.block] = req.value /\ unsettled \subseteq {req.block}
     /\ Over(req.value)

Fail == Fails /\ Over(Failure)

GiveUp == Over(NoReply)

Next == \/ \E r \in Reads \cup Writes : Submit(r)
        \/ Work \/ Complete \/ Fail \/ GiveUp

Init == req = NoReq /\ reply = NoReply /\ misled = FALSE /\ unsettled = {}

Spec == Init /\ [][Next]_vars

===============================================================================
