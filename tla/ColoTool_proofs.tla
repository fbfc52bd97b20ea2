--------------------------- MODULE ColoTool_proofs ---------------------------
(***************************************************************************)
(* The tool and the colod it calls: what was typed is what colod runs, the *)
(* answer to it is what the tool prints, the save file the tool reads      *)
(* beside colod is the one SaveList_proofs is about, and a record in it    *)
(* names a definition file that was written before it.                     *)
(***************************************************************************)
EXTENDS ColoTool, CommandLine_proofs, SaveList_proofs, Wire_proofs

-----------------------------------------------------------------------------
\* Only the functions that write have documents to write.
LEMMA WrittenIsListed ==
  ASSUME NEW d \in Domain, NEW function, NEW doc \in Written(function, d), Truncate(doc)
  PROVE  ListWrite
<1>1. function \in {"define", "peer-save-domain", "undefine", "start", "destroy",
                    "colo-enable", "colo-disable", "connect-peer"}
  BY DEF Written
<1> QED
  BY <1>1 DEF ListWrite

\* A handler that begins to write, in its definition file or in the list.
LEMMA BeginsWrite == ASSUME NEW d \in Domain, NEW function, Begins(function, d) PROVE [ListNext]_listVars
<1>1. CASE function = "define"
  BY <1>1 DEF Begins, define_truncates, listVars
<1>2. CASE function # "define"
  <2>1. PICK doc \in Written(function, d) : Truncate(doc)
    BY <1>2 DEF Begins
  <2> QED
    BY <2>1, WrittenIsListed DEF ListNext
<1> QED
  BY <1>1, <1>2

\* The define colod is at.
DefiningKnown == defining = NoDefine \/ defining \in [of : Domain, next : {"write", "save"}]

\* Who begins, goes on with and ends a define.
LEMMA DefiningSteps ==
  ASSUME [ToolNext]_vars
  PROVE  \/ UNCHANGED <<defining, definition, torn, copied>>
         \/ \E d \in Domain : \E function : Idle /\ Begins(function, d)
         \/ define_writes \/ define_saves \/ peer_transfers \/ Crashes
<1>1. CASE ToolStep
  BY <1>1 DEF ToolStep, pretest, refuse, first_call, Call, recv_timeout, recv_reply, Unchanged,
              EnableCall, get_domain, load_definition, get_domain_config_file_path, transfer,
              definitionVars
<1>2. CASE Handle
  <2> DEFINE name == request_name(request)
  <2>1. Idle /\ (UNCHANGED definitionVars \/ \E d \in Domain : Begins(name[1], d))
    BY <1>2 DEF Handle
  <2> HIDE DEF name
  <2> QED
    BY <2>1 DEF definitionVars
<1>3. CASE OtherCaller
  BY <1>3 DEF OtherCaller
<1>4. CASE Answer \/ Finishes \/ UNCHANGED vars
  BY <1>4 DEF Answer, Finishes, vars, definitionVars
<1> QED
  BY <1>1, <1>2, <1>3, <1>4 DEF ToolNext, ColodStep

\* One define at a time, of a domain, with a next step.
LEMMA DefiningKnownStep == DefiningKnown /\ [ToolNext]_vars => DefiningKnown'
<1> SUFFICES ASSUME DefiningKnown, [ToolNext]_vars PROVE DefiningKnown'
  OBVIOUS
<1>1. CASE UNCHANGED <<defining, definition, torn, copied>>
  BY <1>1 DEF DefiningKnown
<1>2. ASSUME NEW d \in Domain, NEW function, Begins(function, d)
      PROVE  DefiningKnown'
  BY <1>2 DEF Begins, define_truncates, DefiningKnown
<1>3. CASE define_writes
  BY <1>3 DEF define_writes, DefiningKnown, NoDefine
<1>4. CASE define_saves \/ peer_transfers \/ Crashes
  BY <1>4 DEF define_saves, peer_transfers, Crashes, DefiningKnown
<1> QED
  BY <1>1, <1>2, <1>3, <1>4, DefiningSteps

\* Whatever the tool and colod do, the save file sees a write, a step of one, or nothing.
LEMMA ToolListStep == DefiningKnown /\ [ToolNext]_vars => [ListNext]_listVars
<1> SUFFICES ASSUME DefiningKnown, [ToolNext]_vars PROVE [ListNext]_listVars
  OBVIOUS
<1>1. CASE ToolStep
  BY <1>1 DEF ToolStep, pretest, refuse, first_call, Call, recv_timeout, recv_reply, Unchanged,
              EnableCall, get_domain, load_definition, get_domain_config_file_path, transfer
<1>2. CASE Handle
  <2> DEFINE name == request_name(request)
  <2>1. UNCHANGED listVars \/ \E d \in Domain : Begins(name[1], d)
    BY <1>2 DEF Handle
  <2> HIDE DEF name
  <2> QED
    BY <2>1, BeginsWrite
<1>3. CASE Answer \/ define_writes \/ peer_transfers
  BY <1>3 DEF Answer, define_writes, peer_transfers
<1>4. CASE OtherCaller
  BY <1>4, BeginsWrite DEF OtherCaller
<1>5. CASE define_saves
  <2>1. CASE UNCHANGED listVars
    BY <2>1
  <2>2. CASE ~UNCHANGED listVars
    <3>1. PICK doc \in Written("define", defining.of) : Truncate(doc)
      BY <1>5, <2>2 DEF define_saves
    <3> QED
      <4>1. defining.of \in Domain
        BY <1>5 DEF define_saves, DefiningKnown, NoDefine
      <4> QED
        BY <3>1, <4>1, WrittenIsListed DEF ListNext
  <2> QED
    BY <2>1, <2>2
<1>6. CASE Finishes
  BY <1>6 DEF Finishes, ListNext
<1>7. CASE Crashes
  BY <1>7 DEF Crashes, ListNext
<1>8. CASE UNCHANGED vars
  BY <1>8 DEF vars
<1> QED
  BY <1>1, <1>2, <1>3, <1>4, <1>5, <1>6, <1>7, <1>8 DEF ToolNext, ColodStep

(***************************************************************************)
(* The save file under the tool and its colod is the save file of SaveList *)
(* (config_parser.cpp), so what was proved of it holds here: colod, other  *)
(* callers and crashes only write it the way its functions do.             *)
(***************************************************************************)
THEOREM ToolWritesTheList == ToolSpec => ListSpec
<1>1. ToolInit => ListInit /\ DefiningKnown
  BY DEF ToolInit, DefiningKnown
<1> QED
  BY <1>1, DefiningKnownStep, ToolListStep, PTL DEF ToolSpec, ListSpec

(***************************************************************************)
(* ReadersAgree: whatever the tool does and whoever else calls colod, a    *)
(* complete save file can be read by every reader, as what was last        *)
(* written.                                                                *)
(***************************************************************************)
THEOREM ToolReadersAgree == ToolSpec => []ReadersAgree
BY ToolWritesTheList, ReadersAgreeAlways, PTL

(***************************************************************************)
(* ListKeepsPromise: under the same runs the list is one record per name,  *)
(* changed by one function at a time or lost as a whole.                   *)
(***************************************************************************)
THEOREM ToolListKeepsPromise == ToolSpec => ListKeepsPromise
BY ToolWritesTheList, ListKeepsPromiseAlways, PTL

-----------------------------------------------------------------------------
\* The section of the addresses is not in an empty file, and an assignment to the
\* list leaves it alone.
LEMMA SectionKept ==
  ASSUME NEW doc, IsDoc(doc), ConnectStatusReads(doc), NEW v
  PROVE  ConnectStatusReads(Put(doc, "domains", v))
<1>1. doc # Null
  <2>1. At(At(Null, "save_status"), "host_ip") = Undefined
    BY DEF At, Get, Null, Undefined, Zombie
  <2>2. ~Converts(Undefined, "string")
    BY DEF Converts, Undefined, IsScalar
  <2> QED
    BY <2>1, <2>2 DEF ConnectStatusReads, AddressKeys
<1>2. PICK pairs : doc = MapNode(pairs)
  BY <1>1 DEF IsDoc
<1> DEFINE g == [k \in DOMAIN pairs \cup {"domains"} |-> IF k = "domains" THEN v ELSE pairs[k]]
<1>3. Put(doc, "domains", v) = MapNode(g)
  BY <1>2 DEF Put, MapNode
<1>4. At(MapNode(g), "save_status") = At(MapNode(pairs), "save_status")
  <2>1. /\ "save_status" \in DOMAIN g <=> "save_status" \in DOMAIN pairs
        /\ "save_status" \in DOMAIN pairs => g["save_status"] = pairs["save_status"]
    OBVIOUS
  <2> HIDE DEF g
  <2> QED
    BY <2>1 DEF At, Get, MapNode
<1> HIDE DEF g
<1> QED
  BY <1>2, <1>3, <1>4 DEF ConnectStatusReads

\* connect-peer writes the section anew, and the shipped file has it.
LEMMA SectionWritten ==
  /\ \A doc, addr : IsDoc(doc) => ConnectStatusReads(save_colo_status(doc, addr))
  /\ ConnectStatusReads(Shipped)
<1>1. ASSUME NEW section, NEW v, section = MapNode([k \in AddressKeys |-> v[k]]),
             \A k \in AddressKeys : v[k].type \in {"Null", "Scalar"},
             NEW doc, At(doc, "save_status") = section
      PROVE  ConnectStatusReads(doc)
  <2> DEFINE g == [k \in AddressKeys |-> v[k]]
  <2>1. ASSUME NEW k \in AddressKeys PROVE Converts(At(MapNode(g), k), "string")
    <3>1. k \in DOMAIN g /\ g[k] = v[k]
      OBVIOUS
    <3> HIDE DEF g
    <3>2. At(MapNode(g), k) = v[k]
      BY <1>1, <3>1, AtMap
    <3> QED
      BY <1>1, <3>2 DEF Converts
  <2> QED
    BY <1>1, <2>1 DEF ConnectStatusReads
<1>2. ASSUME NEW doc, NEW addr, IsDoc(doc)
      PROVE  ConnectStatusReads(save_colo_status(doc, addr))
  <2> DEFINE v == [k \in AddressKeys |-> Text(addr)]
             section == MapNode([k \in AddressKeys |-> Text(addr)])
  <2>1. At(Put(doc, "save_status", section), "save_status") = section
    <3>1. PICK g : Put(doc, "save_status", section) = MapNode(g)
                   /\ "save_status" \in DOMAIN g /\ g["save_status"] = section
      <4>1. CASE doc = Null
        <5> DEFINE g == [k \in {"save_status"} |-> section]
        <5>1. Put(doc, "save_status", section) = MapNode(g)
          BY <4>1 DEF Put, Null
        <5>2. "save_status" \in DOMAIN g /\ g["save_status"] = section
          OBVIOUS
        <5> HIDE DEF g
        <5> QED
          BY <5>1, <5>2
      <4>2. CASE doc # Null
        <5>1. PICK pairs : doc = MapNode(pairs)
          BY <1>2, <4>2 DEF IsDoc
        <5> HIDE DEF section
        <5> DEFINE g == [k \in DOMAIN pairs \cup {"save_status"} |->
                           IF k = "save_status" THEN section ELSE pairs[k]]
        <5>2. Put(doc, "save_status", section) = MapNode(g)
          BY <5>1 DEF Put, MapNode
        <5>3. "save_status" \in DOMAIN g /\ g["save_status"] = section
          OBVIOUS
        <5> HIDE DEF g
        <5> QED
          BY <5>2, <5>3
      <4> QED
        BY <4>1, <4>2
    <3>2. section.type # "Zombie"
      BY DEF MapNode
    <3> HIDE DEF section
    <3> QED
      BY <3>1, <3>2, AtMap
  <2>2. section = MapNode([k \in AddressKeys |-> v[k]])
    OBVIOUS
  <2>3. \A k \in AddressKeys : v[k].type \in {"Null", "Scalar"}
    BY DEF Text, Scalar
  <2>4. save_colo_status(doc, addr) = Put(doc, "save_status", section)
    BY DEF save_colo_status
  <2> HIDE DEF v, section
  <2> QED
    BY <1>1, <2>1, <2>2, <2>3, <2>4
<1>3. ConnectStatusReads(Shipped)
  <2> DEFINE Set == {"host_file_path", "peer_file_path"}
             v == [k \in AddressKeys |->
                     IF k \in Set THEN Text("/usr/local/etc/colod/") ELSE Null]
             section == MapNode([k \in AddressKeys |->
                     IF k \in Set THEN Text("/usr/local/etc/colod/") ELSE Null])
             whole == [save_status |-> section, domains |-> Null]
  <2>1. section = MapNode([k \in AddressKeys |-> v[k]])
    OBVIOUS
  <2>2. \A k \in AddressKeys : v[k].type \in {"Null", "Scalar"}
    BY DEF Text, Scalar, Null
  <2>3. section.type # "Zombie"
    BY DEF MapNode
  <2>4. Shipped = MapNode(whole)
    BY DEF Shipped
  <2> HIDE DEF section, v
  <2>5. "save_status" \in DOMAIN whole /\ whole["save_status"] = section
    OBVIOUS
  <2> HIDE DEF whole
  <2>6. At(Shipped, "save_status") = section
    BY <2>3, <2>4, <2>5, AtMap
  <2> QED
    BY <1>1, <2>1, <2>2, <2>6
<1> QED
  BY <1>2, <1>3

\* No handler writes a file without it.
LEMMA WrittenReads ==
  ASSUME IsDoc(disk), ConnectStatusReads(disk), NEW d, NEW function, NEW doc \in Written(function, d)
  PROVE  ConnectStatusReads(doc)
<1>1. \A v : ConnectStatusReads(Put(disk, "domains", v))
  BY SectionKept
<1>2. \A fields : ConnectStatusReads(ChangeFirst(disk, d, fields))
  BY <1>1 DEF ChangeFirst
<1>3. \A p : ConnectStatusReads(list_save_domain_info(disk, d, p))
  BY <1>1 DEF list_save_domain_info
<1>4. ConnectStatusReads(list_vm_undefine(disk, d))
  BY <1>1 DEF list_vm_undefine
<1>5. \A addr : ConnectStatusReads(save_colo_status(disk, addr))
  BY SectionWritten
<1>6. /\ \A pid : ConnectStatusReads(list_save_domain_pid(disk, d, pid))
      /\ ConnectStatusReads(list_remove_domain_pid(disk, d))
      /\ \A r : ConnectStatusReads(list_set_domain_colo_enable(disk, d, r))
      /\ ConnectStatusReads(list_set_domain_colo_disable(disk, d))
  BY <1>2 DEF list_save_domain_pid, list_remove_domain_pid, list_set_domain_colo_enable,
              list_set_domain_colo_disable
<1> QED
  BY <1>3, <1>4, <1>5, <1>6 DEF Written

\* What the file keeps as long as no write is cut short: the addresses.
SectionStays ==
  ~cut => IF after = NoDocument THEN ConnectStatusReads(disk) ELSE ConnectStatusReads(after)

\* The records and the addresses together survive every step of a write.
LEMMA SectionStep == ListInv /\ SectionStays /\ [ListNext]_listVars => SectionStays'
<1> SUFFICES ASSUME ListInv, SectionStays, [ListNext]_listVars PROVE SectionStays'
  OBVIOUS
<1>1. CASE ListWrite
  <2>1. PICK d \in Domain,
             function \in {"define", "peer-save-domain", "undefine", "start", "destroy",
                           "colo-enable", "colo-disable", "connect-peer"} :
               \E doc \in Written(function, d) : Truncate(doc)
    BY <1>1 DEF ListWrite
  <2>2. PICK doc \in Written(function, d) : Truncate(doc)
    BY <2>1
  <2>3. after = NoDocument /\ after' = doc /\ cut' = cut
    BY <2>2 DEF Truncate
  <2>4. Holds(disk, file)
    BY <2>3 DEF ListInv
  <2>5. IsDoc(disk) /\ doc # NoDocument
    BY <2>4, WrittenHolds, IsWritten DEF Holds, HoldsIn
  <2>6. ~cut => ConnectStatusReads(doc)
    BY <2>3, <2>5, WrittenReads DEF SectionStays
  <2> QED
    BY <2>3, <2>5, <2>6 DEF SectionStays
<1>2. CASE WriteOut
  BY <1>2 DEF WriteOut, SectionStays
<1>3. CASE EndsInWrite
  BY <1>3 DEF EndsInWrite, SectionStays
<1>4. CASE UNCHANGED listVars
  BY <1>4 DEF listVars, SectionStays
<1> QED
  BY <1>1, <1>2, <1>3, <1>4 DEF ListNext

-----------------------------------------------------------------------------
\* The names of a list are domains, and those its contents have saved.
LEMMA HeldNames ==
  ASSUME NEW doc, NEW f, Holds(doc, f), NEW x
  PROVE  HasDomain(doc, x) <=> x \in Domain /\ f[x].saved
<1>1. PICK s : HoldsIn(doc, s, f)
  BY DEF Holds
<1>2. x \in Names(s) <=> HasDomain(doc, x)
  BY <1>1, OneRecord DEF HasDomain
<1>3. x \in Names(s) => x \in Domain
  BY <1>1 DEF HoldsIn, Names
<1>4. x \in Domain => (x \in Names(s) <=> f[x].saved)
  BY <1>1 DEF HoldsIn, Name, NotSaved
<1> QED
  BY <1>2, <1>3, <1>4

\* Only define and peer-save-domain bring a name into the list, their own.
LEMMA WrittenNames ==
  ASSUME NEW f, Holds(disk, f), NEW d \in Domain, NEW function, NEW doc \in Written(function, d),
         NEW x, HasDomain(doc, x)
  PROVE  /\ x \in Domain
         /\ HasDomain(disk, x) \/ (x = d /\ function \in {"define", "peer-save-domain"})
<1>1. PICK s : HoldsIn(disk, s, f)
  BY DEF Holds
<1>2. f \in [Name -> SavedDomain] /\ Domain \subseteq Name
  BY <1>1 DEF HoldsIn, SaveContents, Name
<1>3. ASSUME NEW g, Holds(doc, g), \A y \in Domain : y # d /\ g[y].saved => f[y].saved
      PROVE  x \in Domain /\ (HasDomain(disk, x) \/ x = d)
  BY <1>3, HeldNames
<1>4. ASSUME NEW g, Holds(doc, g), \A y \in Domain : g[y].saved => f[y].saved
      PROVE  x \in Domain /\ HasDomain(disk, x)
  BY <1>4, HeldNames
<1>5. CASE function \in {"define", "peer-save-domain"}
  <2>1. PICK p \in BOOLEAN : doc = list_save_domain_info(disk, d, p)
    BY <1>5 DEF Written
  <2>2. Holds(doc, Saved(f, d, p))
    BY <1>1, <2>1, SaveInfo
  <2>3. \A y \in Domain : y # d => Saved(f, d, p)[y] = f[y]
    BY <1>2, SavedContents DEF SaveContents
  <2> QED
    BY <1>3, <1>5, <2>2, <2>3
<1>6. CASE function = "undefine"
  <2>1. HasDomain(disk, d) /\ doc = list_vm_undefine(disk, d)
    BY <1>6 DEF Written
  <2>2. Holds(doc, vm_undefine(f, d))
    BY <1>1, <2>1, Undefine
  <2>3. \A y \in Domain : vm_undefine(f, d)[y].saved => f[y].saved
    BY <1>2 DEF vm_undefine, NotSaved
  <2> QED
    BY <1>4, <2>2, <2>3
<1>7. CASE function = "start"
  <2>1. PICK pid \in Pid : doc = list_save_domain_pid(disk, d, pid)
    BY <1>7 DEF Written
  <2>2. Holds(doc, save_domain_pid(f, d, pid))
    BY <2>1, SettingHolds
  <2>3. \A y \in Domain : save_domain_pid(f, d, pid)[y].saved => f[y].saved
    BY <1>2 DEF save_domain_pid, SavedDomain
  <2> QED
    BY <1>4, <2>2, <2>3
<1>8. CASE function = "destroy"
  <2>1. doc = list_remove_domain_pid(disk, d)
    BY <1>8 DEF Written
  <2>2. Holds(doc, remove_domain_pid(f, d))
    BY <2>1, SettingHolds
  <2>3. \A y \in Domain : remove_domain_pid(f, d)[y].saved => f[y].saved
    BY <1>2 DEF remove_domain_pid, SavedDomain
  <2> QED
    BY <1>4, <2>2, <2>3
<1>9. CASE function = "colo-enable"
  <2>1. PICK r \in {"primary", "secondary"} : doc = list_set_domain_colo_enable(disk, d, r)
    BY <1>9 DEF Written
  <2>2. Holds(doc, set_domain_colo_enable(f, d, r))
    BY <2>1, SettingHolds
  <2>3. \A y \in Domain : set_domain_colo_enable(f, d, r)[y].saved => f[y].saved
    BY <1>2 DEF set_domain_colo_enable, SavedDomain
  <2> QED
    BY <1>4, <2>2, <2>3
<1>10. CASE function = "colo-disable"
  <2>1. doc = list_set_domain_colo_disable(disk, d)
    BY <1>10 DEF Written
  <2>2. Holds(doc, set_domain_colo_disable(f, d))
    BY <2>1, SettingHolds
  <2>3. \A y \in Domain : set_domain_colo_disable(f, d)[y].saved => f[y].saved
    BY <1>2 DEF set_domain_colo_disable, SavedDomain
  <2> QED
    BY <1>4, <2>2, <2>3
<1>11. CASE function = "connect-peer"
  <2>1. PICK addr : doc = save_colo_status(disk, addr)
    BY <1>11 DEF Written
  <2>2. Holds(doc, f)
    BY <1>1, <2>1, SaveAddresses DEF Holds
  <2> QED
    BY <1>4, <2>2
<1>12. function \in {"define", "peer-save-domain", "undefine", "start", "destroy",
                     "colo-enable", "colo-disable", "connect-peer"}
  BY DEF Written
<1> QED
  BY <1>5, <1>6, <1>7, <1>8, <1>9, <1>10, <1>11, <1>12

-----------------------------------------------------------------------------
(***************************************************************************)
(* The definition files.  An empty one is one a define writes, or left, or *)
(* a copy; and what the list names, now or when the write of it is done,   *)
(* was defined before or copied.                                           *)
(***************************************************************************)
Listed(x) == IF after = NoDocument THEN HasDomain(disk, x) ELSE HasDomain(after, x)
IsThere(x) == definition[x] # "none" \/ x \in copied
Writing(x) == defining = [of |-> x, next |-> "write"]

DefinitionsKnown == definition \in [Domain -> {"none", "empty", "whole"}] /\ DefiningKnown
EmptyIsCut ==
  \A x \in Domain : definition[x] = "empty" => Writing(x) \/ x \in torn \cup copied
SavedIsThere ==
  \A x \in Domain : defining = [of |-> x, next |-> "save"] => IsThere(x)
ListedIsThere == \A x \in Domain : Listed(x) => IsThere(x)
LoadedIsThere ==
  pc = "load_definition" => TypedDomain \in Domain /\ IsThere(TypedDomain)

DefinitionInv ==
  DefinitionsKnown /\ EmptyIsCut /\ SavedIsThere /\ ListedIsThere /\ LoadedIsThere

\* A definition file never goes away, and a copy was a copy ever after.
LEMMA StaysThere ==
  ASSUME DefinitionInv, [ToolNext]_vars
  PROVE  DefinitionsKnown' /\ \A x \in Domain : IsThere(x) => IsThere(x)'
<1>1. CASE UNCHANGED <<defining, definition, torn, copied>>
  BY <1>1 DEF DefinitionInv, DefinitionsKnown, DefiningKnown, IsThere
<1>2. ASSUME NEW d \in Domain, NEW function, Begins(function, d)
      PROVE  /\ definition' \in [Domain -> {"none", "empty", "whole"}]
             /\ \A x \in Domain : IsThere(x) => IsThere(x)'
  BY <1>2 DEF Begins, define_truncates, DefinitionInv, DefinitionsKnown, IsThere
<1>3. CASE define_writes
  <2>1. defining.of \in Domain
    BY <1>3 DEF define_writes, DefinitionInv, DefinitionsKnown, DefiningKnown, NoDefine
  <2>2. /\ definition' \in [Domain -> {"none", "empty", "whole"}]
        /\ \A x \in Domain : IsThere(x) => IsThere(x)'
    BY <1>3, <2>1 DEF define_writes, DefinitionInv, DefinitionsKnown, IsThere
  <2> QED
    BY <2>2, DefiningKnownStep DEF DefinitionInv, DefinitionsKnown
<1>4. CASE peer_transfers
  <2>1. PICK d \in Domain, state \in {"empty", "whole"} :
          definition' = [definition EXCEPT ![d] = state] /\ copied' = copied \cup {d}
    BY <1>4 DEF peer_transfers
  <2> QED
    BY <1>4, <2>1, DefiningKnownStep DEF DefinitionInv, DefinitionsKnown, IsThere
<1>5. CASE define_saves \/ Crashes
  BY <1>5, DefiningKnownStep DEF define_saves, Crashes, DefinitionInv, DefinitionsKnown, IsThere
<1> QED
  BY <1>1, <1>2, <1>3, <1>4, <1>5, DefiningSteps, DefiningKnownStep DEF DefinitionInv, DefinitionsKnown

\* Only a define, an end of colod in it or a copy leaves an empty definition file.
LEMMA EmptyIsCutStep == ASSUME DefinitionInv, [ToolNext]_vars PROVE EmptyIsCut'
<1> USE DEF Writing
<1>1. CASE UNCHANGED <<defining, definition, torn, copied>>
  BY <1>1 DEF DefinitionInv, EmptyIsCut
<1>2. ASSUME NEW d \in Domain, NEW function, Idle, Begins(function, d)
      PROVE  EmptyIsCut'
  <2>1. \A x \in Domain : definition[x] = "empty" => x \in torn \cup copied
    BY <1>2 DEF Idle, NoDefine, DefinitionInv, EmptyIsCut
  <2> QED
    BY <1>2, <2>1 DEF Begins, define_truncates, DefinitionInv, DefinitionsKnown, EmptyIsCut
<1>3. CASE define_writes
  BY <1>3 DEF define_writes, DefinitionInv, DefinitionsKnown, DefiningKnown, EmptyIsCut
<1>4. CASE define_saves
  BY <1>4 DEF define_saves, DefinitionInv, EmptyIsCut
<1>5. CASE peer_transfers
  <2>1. PICK d \in Domain, state \in {"empty", "whole"} :
          definition' = [definition EXCEPT ![d] = state] /\ copied' = copied \cup {d}
    BY <1>5 DEF peer_transfers
  <2> QED
    BY <1>5, <2>1 DEF peer_transfers, DefinitionInv, DefinitionsKnown, EmptyIsCut
<1>6. CASE Crashes
  BY <1>6 DEF Crashes, DefinitionInv, EmptyIsCut
<1> QED
  BY <1>1, <1>2, <1>3, <1>4, <1>5, <1>6, DefiningSteps

\* The record is saved only when the definition file was written.
LEMMA SavedIsThereStep == ASSUME DefinitionInv, [ToolNext]_vars PROVE SavedIsThere'
<1>1. \A x \in Domain : IsThere(x) => IsThere(x)'
  BY StaysThere
<1>2. CASE defining' = defining
  BY <1>1, <1>2 DEF DefinitionInv, SavedIsThere
<1>3. ASSUME NEW d \in Domain, NEW function, Begins(function, d), defining' # defining
      PROVE  SavedIsThere'
  BY <1>3 DEF Begins, define_truncates, SavedIsThere
<1>4. CASE define_writes
  BY <1>4 DEF define_writes, DefinitionInv, DefinitionsKnown, DefiningKnown, SavedIsThere, IsThere
<1>5. CASE define_saves \/ Crashes
  BY <1>5 DEF define_saves, Crashes, SavedIsThere, NoDefine
<1>6. CASE peer_transfers
  BY <1>2, <1>6 DEF peer_transfers
<1> QED
  BY <1>2, <1>3, <1>4, <1>5, <1>6, DefiningSteps

\* A name comes into the list by a define that wrote the file, or with a copy.
LEMMA ListedIsThereStep == ASSUME DefinitionInv, ListInv, [ToolNext]_vars PROVE ListedIsThere'
<1>1. \A x \in Domain : IsThere(x) => IsThere(x)'
  BY StaysThere
<1>2. ASSUME NEW d \in Domain, NEW function, NEW doc \in Written(function, d), Truncate(doc),
             function \in {"define", "peer-save-domain"} => IsThere(d)'
      PROVE  ListedIsThere'
  <2>1. after = NoDocument /\ after' = doc
    BY <1>2 DEF Truncate
  <2>2. Holds(disk, file)
    BY <2>1 DEF ListInv
  <2>3. doc # NoDocument
    BY <2>2, WrittenHolds, IsWritten
  <2>4. ASSUME NEW x \in Domain, HasDomain(doc, x)
        PROVE  IsThere(x)'
    <3>1. HasDomain(disk, x) \/ (x = d /\ function \in {"define", "peer-save-domain"})
      BY <2>2, <2>4, WrittenNames
    <3> QED
      BY <1>1, <1>2, <2>1, <3>1 DEF DefinitionInv, ListedIsThere, Listed
  <2> QED
    BY <2>1, <2>3, <2>4 DEF ListedIsThere, Listed
<1>3. CASE UNCHANGED listVars
  BY <1>1, <1>3 DEF DefinitionInv, ListedIsThere, Listed, listVars, HasDomain
<1>4. ASSUME NEW d \in Domain, NEW function, Begins(function, d), ~UNCHANGED listVars
      PROVE  ListedIsThere'
  <2>1. function # "define"
    BY <1>4 DEF Begins, define_truncates
  <2>2. PICK doc \in Written(function, d) : Truncate(doc)
    BY <1>4, <2>1 DEF Begins
  <2>3. function = "peer-save-domain" => IsThere(d)'
    BY <1>4, <2>1 DEF Begins, IsThere
  <2> QED
    BY <1>2, <2>1, <2>2, <2>3
<1>5. ASSUME define_saves, ~UNCHANGED listVars
      PROVE  ListedIsThere'
  <2>1. PICK doc \in Written("define", defining.of) : Truncate(doc)
    BY <1>5 DEF define_saves
  <2>2. defining.of \in Domain /\ defining = [of |-> defining.of, next |-> "save"]
    BY <1>5 DEF define_saves, DefinitionInv, DefinitionsKnown, DefiningKnown, NoDefine
  <2>3. IsThere(defining.of)
    BY <2>2 DEF DefinitionInv, SavedIsThere
  <2> HIDE DEF IsThere
  <2>4. PICK d \in Domain : d = defining.of
    BY <2>2
  <2>5. IsThere(d)'
    BY <1>1, <2>3, <2>4
  <2> QED
    BY <1>2, <2>1, <2>4, <2>5
<1>6. CASE WriteOut
  BY <1>1, <1>6 DEF WriteOut, DefinitionInv, ListedIsThere, Listed, HasDomain
<1>7. CASE EndsInWrite
  <2>1. after # NoDocument /\ after' = NoDocument /\ disk' = Null
    BY <1>7 DEF EndsInWrite, ListInv
  <2>2. \A x \in Domain : ~HasDomain(Null, x)
    BY EmptyHolds, HeldNames DEF EmptySave, NotSaved, Name
  <2> QED
    BY <2>1, <2>2 DEF ListedIsThere, Listed
<1>8. UNCHANGED listVars \/ WriteOut \/ EndsInWrite \/ define_saves
      \/ \E d \in Domain : \E function : Begins(function, d)
  <2>1. CASE ToolStep
    BY <2>1 DEF ToolStep, pretest, refuse, first_call, Call, recv_timeout, recv_reply, Unchanged,
                EnableCall, get_domain, load_definition, get_domain_config_file_path, transfer
  <2>2. CASE Handle
    <3> DEFINE name == request_name(request)
    <3>1. UNCHANGED listVars \/ \E d \in Domain : Begins(name[1], d)
      BY <2>2 DEF Handle
    <3> HIDE DEF name
    <3> QED
      BY <3>1
  <2>3. CASE OtherCaller
    BY <2>3 DEF OtherCaller
  <2>4. CASE Answer \/ define_writes \/ define_saves \/ Finishes \/ Crashes \/ peer_transfers
             \/ UNCHANGED vars
    BY <2>4 DEF Answer, define_writes, Finishes, Crashes, peer_transfers, vars
  <2> QED
    BY <2>1, <2>2, <2>3, <2>4 DEF ToolNext, ColodStep
<1> QED
  BY <1>3, <1>4, <1>5, <1>6, <1>7, <1>8

\* The tool loads what a record named when it looked.
LEMMA LoadedIsThereStep == ASSUME DefinitionInv, ListInv, [ToolNext]_vars PROVE LoadedIsThere'
<1>1. \A x \in Domain : IsThere(x) => IsThere(x)'
  BY StaysThere
<1>2. SUFFICES ASSUME pc' = "load_definition"
               PROVE  TypedDomain' \in Domain /\ IsThere(TypedDomain)'
  BY DEF LoadedIsThere
<1>3. ~pretest
  BY <1>2 DEF pretest, Ends
<1>4. parsed' = parsed /\ (pc' = pc \/ get_domain)
  BY <1>2, <1>3 DEF ToolNext, ToolStep, ColodStep, refuse, first_call, Call, recv_timeout, recv_reply,
              get_domain, load_definition, get_domain_config_file_path, transfer, Ends, Unchanged,
              EnableCall, Handle, Answer, OtherCaller, define_writes, define_saves, Finishes, Crashes,
              peer_transfers, UnchangedTool, vars, toolVars
<1>5. TypedDomain' = TypedDomain
  BY <1>4 DEF TypedDomain, Given
<1>6. TypedDomain \in Domain /\ IsThere(TypedDomain)
  <2>1. CASE pc = "load_definition"
    BY <2>1 DEF DefinitionInv, LoadedIsThere
  <2>2. CASE pc # "load_definition"
    <3>1. get_domain /\ HasDomain(disk, TypedDomain)
      BY <1>2, <1>4, <2>2 DEF get_domain, Ends, EnableCall
    <3>2. after = NoDocument
      <4>1. after # NoDocument => Holds(disk, EmptySave)
        BY EmptyHolds DEF ListInv
      <4>2. \A x \in Domain : ~EmptySave[x].saved
        BY DEF EmptySave, NotSaved, Name
      <4> QED
        BY <3>1, <4>1, <4>2, HeldNames
    <3>3. TypedDomain \in Domain
      BY <3>1, <3>2, HeldNames DEF ListInv
    <3> QED
      BY <3>1, <3>2, <3>3 DEF DefinitionInv, ListedIsThere, Listed
  <2> QED
    BY <2>1, <2>2
<1> HIDE DEF IsThere
<1>7. PICK x \in Domain : x = TypedDomain
  BY <1>6
<1>8. IsThere(x)'
  BY <1>1, <1>6, <1>7
<1> QED
  BY <1>5, <1>7, <1>8 DEF IsThere

(***************************************************************************)
(* The definitions' invariant, along every run of the tool beside colod,   *)
(* with other callers, copies and ends of colod (vm_define, get_domain).   *)
(***************************************************************************)
THEOREM DefinitionsAlways == ToolSpec => []DefinitionInv
<1>1. ToolInit => DefinitionInv
  <2> SUFFICES ASSUME ToolInit PROVE DefinitionInv
    OBVIOUS
  <2>1. /\ definition = [d \in Domain |-> "none"] /\ defining = NoDefine
        /\ pc = "pretest" /\ disk = Shipped /\ after = NoDocument
    BY DEF ToolInit, ListInit
  <2>2. \A x \in Domain : ~HasDomain(disk, x)
    BY <2>1, EmptyHolds, HeldNames DEF EmptySave, NotSaved, Name
  <2> QED
    BY <2>1, <2>2 DEF DefinitionInv, DefinitionsKnown, DefiningKnown, EmptyIsCut, SavedIsThere,
                      ListedIsThere, LoadedIsThere, Listed, NoDefine
<1>2. DefinitionInv /\ ListInv /\ [ToolNext]_vars => DefinitionInv'
  BY StaysThere, EmptyIsCutStep, SavedIsThereStep, ListedIsThereStep, LoadedIsThereStep
     DEF DefinitionInv
<1> QED
  BY <1>1, <1>2, ToolWritesTheList, ListInvariant, PTL DEF ToolSpec

-----------------------------------------------------------------------------
\* Only the readers of the tool end with an exception.
LEMMA WhoThrows ==
  ASSUME ToolNext, said # said', said' = <<"exception">>
  PROVE  \/ pc = "get_domain" /\ ~PathNamed(disk, TypedDomain)
         \/ pc = "load_definition" /\ definition[TypedDomain] # "whole"
         \/ pc = "get_status" /\ ~ConnectStatusReads(disk)
<1> USE DEF Ends
<1>0. \A x, y : <<x>> = <<y>> => x = y
  OBVIOUS
<1>1. ASSUME pretest PROVE FALSE
  BY <1>1 DEF pretest
<1>2. ASSUME refuse PROVE FALSE
  <2>1. Checked(argv, parsed) # "exception"
    BY DEF Checked
  <2>2. Refusal(parsed) # "exception"
    BY DEF Refusal
  <2>3. said' = <<Checked(argv, parsed)>> \/ said' = <<Refusal(parsed)>>
    BY <1>2 DEF refuse
  <2> QED
    BY <1>0, <2>1, <2>2, <2>3
<1>3. ASSUME first_call \/ get_domain_config_file_path PROVE FALSE
  BY <1>3 DEF first_call, Call, get_domain_config_file_path, Unchanged, EnableCall
<1>4. ASSUME recv_timeout PROVE FALSE
  BY <1>0, <1>4 DEF recv_timeout
<1>5. ASSUME recv_reply PROVE FALSE
  <2>1. /\ said' = <<"exception">> => said' # <<"connect to colod timeout.">>
        /\ said' = <<"exception">> => said' # <<"canot colo enable a running domain.">>
    BY <1>0
  <2>2. \A x, y : <<x, y>> # <<"exception">>
    OBVIOUS
  <2> QED
    BY <1>5, <2>1, <2>2 DEF recv_reply
<1>6. ASSUME ColodStep PROVE FALSE
  BY <1>6 DEF ColodStep, Handle, Answer, OtherCaller, define_writes, define_saves, Finishes, Crashes,
              peer_transfers, UnchangedTool, toolVars
<1>7. ASSUME get_domain PROVE pc = "get_domain" /\ ~PathNamed(disk, TypedDomain)
  BY <1>7 DEF get_domain, EnableCall, Call
<1>8. ASSUME load_definition PROVE pc = "load_definition" /\ definition[TypedDomain] # "whole"
  BY <1>8 DEF load_definition, EnableCall, Call
<1>9. ASSUME transfer PROVE pc = "get_status" /\ ~ConnectStatusReads(disk)
  BY <1>9 DEF transfer, EnableCall, Call
<1> QED
  BY <1>1, <1>2, <1>3, <1>4, <1>5, <1>6, <1>7, <1>8, <1>9 DEF ToolNext, ToolStep

(***************************************************************************)
(* ExceptionOnlyOnCutFile: of its four reads, made while colod and a copy  *)
(* may write (domain.cpp's colo_enable), the tool throws only at an empty  *)
(* path, at a definition a define or a copy cut short or is writing, and   *)
(* in the middle of a write of the save file or after one that was cut     *)
(* short: never because define has listed what it had not written.         *)
(***************************************************************************)
THEOREM ExceptionOnlyOnCutFileAlways == ToolSpec => ExceptionOnlyOnCutFile
<1>1. ListInit => SectionStays
  BY SectionWritten DEF ListInit, SectionStays
<1>2. ListSpec => []SectionStays
  BY <1>1, SectionStep, ListInvariant, PTL DEF ListSpec
<1> DEFINE Cause ==
             CASE pc = "get_domain"      -> ~PathNamed(disk, TypedDomain)
               [] pc = "load_definition" -> \/ defining = [of |-> TypedDomain, next |-> "write"]
                                            \/ TypedDomain \in torn \cup copied
               [] pc = "get_status"      -> disk = Null \/ cut
               [] OTHER                  -> FALSE
<1>3. ASSUME ListInv, SectionStays, DefinitionInv, [ToolNext]_vars
      PROVE  [said # said' /\ said' = <<"exception">> => Cause]_vars
  <2> SUFFICES ASSUME ToolNext, said # said', said' = <<"exception">>
               PROVE  Cause
    BY <1>3
  <2>1. CASE pc = "get_domain" /\ ~PathNamed(disk, TypedDomain)
    BY <2>1
  <2>2. CASE pc = "load_definition" /\ definition[TypedDomain] # "whole"
    <3>1. /\ TypedDomain \in Domain /\ IsThere(TypedDomain)
          /\ definition[TypedDomain] \in {"none", "empty", "whole"}
      BY <1>3, <2>2 DEF DefinitionInv, LoadedIsThere, DefinitionsKnown
    <3>2. Writing(TypedDomain) \/ TypedDomain \in torn \cup copied
      BY <1>3, <2>2, <3>1 DEF DefinitionInv, EmptyIsCut, IsThere
    <3> QED
      BY <2>2, <3>2 DEF Writing
  <2>3. CASE pc = "get_status" /\ ~ConnectStatusReads(disk)
    <3>1. disk = Null \/ cut
      BY <1>3, <2>3 DEF SectionStays, ListInv
    <3> QED
      BY <2>3, <3>1
  <2> QED
    BY <2>1, <2>2, <2>3, WhoThrows
<1> QED
  BY <1>2, <1>3, ToolWritesTheList, ListInvariant, DefinitionsAlways, PTL
     DEF ToolSpec, ExceptionOnlyOnCutFile

-----------------------------------------------------------------------------
\* The loops of WriteAll and ReadAll up to each field.
WrittenTo(types, values, h, i) ==
  IF i = 0 THEN << >> ELSE h[i - 1] \o Write(types[i], values[i])

ReadTo(in, types, h, i) ==
  IF i = 0 THEN [values |-> << >>, rest |-> in]
  ELSE LET t == Read(h[i - 1].rest, types[i])
       IN [values |-> Append(h[i - 1].values, t.v), rest |-> t.rest]

\* Both loops run to their end, whatever they write or read.
LEMMA WriteLoopExists ==
  ASSUME NEW types, NEW values
  PROVE  \A n \in Nat : \E h : h = [i \in 0 .. n |-> WrittenTo(types, values, h, i)]
<1> DEFINE S == {n \in Nat : \E h : h = [i \in 0 .. n |-> WrittenTo(types, values, h, i)]}
<1>1. 0 \in S
  <2> DEFINE h == [i \in 0 .. 0 |-> << >>]
  <2>1. h = [i \in 0 .. 0 |-> << >>]
    OBVIOUS
  <2> HIDE DEF h
  <2>2. \A i \in 0 .. 0 : WrittenTo(types, values, h, i) = << >>
    BY DEF WrittenTo
  <2>3. h = [i \in 0 .. 0 |-> WrittenTo(types, values, h, i)]
    BY <2>1, <2>2
  <2> QED
    BY <2>3
<1>2. ASSUME NEW n \in Nat, n \in S
      PROVE  n + 1 \in S
  <2>1. PICK h : h = [i \in 0 .. n |-> WrittenTo(types, values, h, i)]
    BY <1>2
  <2> DEFINE g == [i \in 0 .. n + 1 |-> IF i <= n THEN h[i] ELSE WrittenTo(types, values, h, i)]
  <2>2. ASSUME NEW i \in 0 .. n + 1
        PROVE  g[i] = WrittenTo(types, values, g, i)
    <3>1. i # 0 => i - 1 \in 0 .. n + 1 /\ i - 1 <= n /\ g[i - 1] = h[i - 1]
      <4>1. i # 0 => i - 1 \in 0 .. n + 1 /\ i - 1 <= n
        OBVIOUS
      <4> QED
        BY <4>1
    <3>2. i \in 0 .. n => h[i] = WrittenTo(types, values, h, i)
      BY <2>1
    <3>3. g[i] = WrittenTo(types, values, h, i)
      BY <3>2
    <3> HIDE DEF g
    <3>4. WrittenTo(types, values, g, i) = WrittenTo(types, values, h, i)
      BY <3>1 DEF WrittenTo
    <3> QED
      BY <3>3, <3>4
  <2>3. g = [i \in 0 .. n + 1 |-> WrittenTo(types, values, g, i)]
    BY <2>2
  <2> HIDE DEF g
  <2> QED
    BY <2>3
<1> HIDE DEF S
<1>3. Nat \subseteq S
  BY <1>1, <1>2, NatSetInduction
<1> QED
  BY <1>3 DEF S

\* The same of the reader's.
LEMMA ReadLoopExists ==
  ASSUME NEW in, NEW types
  PROVE  \A n \in Nat : \E h : h = [i \in 0 .. n |-> ReadTo(in, types, h, i)]
<1> DEFINE S == {n \in Nat : \E h : h = [i \in 0 .. n |-> ReadTo(in, types, h, i)]}
<1>1. 0 \in S
  <2> DEFINE h == [i \in 0 .. 0 |-> [values |-> << >>, rest |-> in]]
  <2>1. h = [i \in 0 .. 0 |-> [values |-> << >>, rest |-> in]]
    OBVIOUS
  <2> HIDE DEF h
  <2>2. \A i \in 0 .. 0 : ReadTo(in, types, h, i) = [values |-> << >>, rest |-> in]
    BY DEF ReadTo
  <2>3. h = [i \in 0 .. 0 |-> ReadTo(in, types, h, i)]
    BY <2>1, <2>2
  <2> QED
    BY <2>3
<1>2. ASSUME NEW n \in Nat, n \in S
      PROVE  n + 1 \in S
  <2>1. PICK h : h = [i \in 0 .. n |-> ReadTo(in, types, h, i)]
    BY <1>2
  <2> DEFINE g == [i \in 0 .. n + 1 |-> IF i <= n THEN h[i] ELSE ReadTo(in, types, h, i)]
  <2>2. ASSUME NEW i \in 0 .. n + 1
        PROVE  g[i] = ReadTo(in, types, g, i)
    <3>1. i # 0 => i - 1 \in 0 .. n + 1 /\ i - 1 <= n /\ g[i - 1] = h[i - 1]
      <4>1. i # 0 => i - 1 \in 0 .. n + 1 /\ i - 1 <= n
        OBVIOUS
      <4> QED
        BY <4>1
    <3>2. i \in 0 .. n => h[i] = ReadTo(in, types, h, i)
      BY <2>1
    <3>3. g[i] = ReadTo(in, types, h, i)
      BY <3>2
    <3> HIDE DEF g
    <3>4. ReadTo(in, types, g, i) = ReadTo(in, types, h, i)
      BY <3>1 DEF ReadTo
    <3> QED
      BY <3>3, <3>4
  <2>3. g = [i \in 0 .. n + 1 |-> ReadTo(in, types, g, i)]
    BY <2>2
  <2> HIDE DEF g
  <2> QED
    BY <2>3
<1> HIDE DEF S
<1>3. Nat \subseteq S
  BY <1>1, <1>2, NatSetInduction
<1> QED
  BY <1>3 DEF S

\* What the receiver gets for a value, and what may be sent over these cells.
Arrived(type, v) == IF type = "string" THEN Sent(v) ELSE v
Sendable(type, v, Cells, Char) ==
  IF type = "string" THEN v \in Seq(Char) ELSE Cell(type, v) \in Cells

\* One field arrives, and what follows it is where the next reader starts.
LEMMA FieldArrives ==
  ASSUME NEW Char, NEW Cells, CellsOf(Cells, Char), NEW type, NEW v,
         Sendable(type, v, Cells, Char)
  PROVE  /\ Write(type, v) \in Seq(Cells)
         /\ \A rest \in Seq(Cells) :
              Read(Write(type, v) \o rest, type) = Took(Arrived(type, v), rest)
<1>1. CASE type = "string"
  BY <1>1, WrittenString, StringArrives DEF Write, Read, Arrived, Sendable
<1>2. CASE type # "string"
  <2> DEFINE c == Cell(type, v)
  <2>1. c \in Cells /\ c.type = type /\ c.v = v
    BY <1>2 DEF Sendable, Cell
  <2>2. Write(type, v) = <<c>>
    BY <1>2 DEF Write, WritePod
  <2> HIDE DEF c
  <2>3. ASSUME NEW rest \in Seq(Cells)
        PROVE  Read(<<c>> \o rest, type) = Took(v, rest)
    <3>1. <<c>> \o rest # << >> /\ Head(<<c>> \o rest) = c /\ Tail(<<c>> \o rest) = rest
      BY <2>1
    <3> QED
      BY <1>2, <2>1, <3>1 DEF Read, ReadPod
  <2> QED
    BY <1>2, <2>1, <2>2, <2>3 DEF Arrived
<1> QED
  BY <1>1, <1>2

(***************************************************************************)
(* Fields that are written in a row are read in a row: package_params and  *)
(* get_tuple, and the operators << and >> of every struct, for any list of *)
(* types that both sides agree on and texts of any length.                 *)
(***************************************************************************)
THEOREM FieldsArrive ==
  ASSUME NEW Char, NEW Cells, CellsOf(Cells, Char), NEW types, NEW values, Len(types) \in Nat,
         \A i \in 1 .. Len(types) : Sendable(types[i], values[i], Cells, Char)
  PROVE  /\ WriteAll(types, values) \in Seq(Cells)
         /\ \A rest \in Seq(Cells) :
              ReadAll(WriteAll(types, values) \o rest, types)
                = [values |-> [i \in 1 .. Len(types) |-> Arrived(types[i], values[i])],
                   rest |-> rest]
<1> DEFINE n == Len(types)
           out[i \in 0 .. n] == IF i = 0 THEN << >> ELSE out[i - 1] \o Write(types[i], values[i])
           Got(in) == CHOOSE got : got = [i \in 0 .. n |-> ReadTo(in, types, got, i)]
           Arrivals == {Arrived(types[i], values[i]) : i \in 1 .. n}
           all == [j \in 1 .. n |-> Arrived(types[j], values[j])]
           upTo(i) == [j \in 1 .. i |-> all[j]]
<1>0. \A s, t, u \in Seq(Cells) : (s \o t) \o u = s \o (t \o u)
  BY ConcatAssociative
<1>1. WriteAll(types, values) = out[n]
  BY DEF WriteAll
<1>2. out = [i \in 0 .. n |-> WrittenTo(types, values, out, i)]
  <2>1. \E h : h = [i \in 0 .. n |-> WrittenTo(types, values, h, i)]
    BY WriteLoopExists, Zenon
  <2> QED
    BY <2>1 DEF WrittenTo
<1>3. \A in : Got(in) = [i \in 0 .. n |-> ReadTo(in, types, Got(in), i)]
  BY ReadLoopExists, Zenon
<1>4. \A in : ReadAll(in, types) = Got(in)[n]
  BY DEF ReadAll, ReadTo
<1> HIDE DEF out, Got, n
<1>5. n \in Nat
  BY DEF n
<1>6. ASSUME NEW i \in 0 .. n
      PROVE  /\ i = 0 => out[i] = << >> /\ \A in : Got(in)[i] = [values |-> << >>, rest |-> in]
             /\ i # 0 => /\ out[i] = out[i - 1] \o Write(types[i], values[i])
                         /\ \A in : LET t == Read(Got(in)[i - 1].rest, types[i])
                                    IN Got(in)[i] = [values |-> Append(Got(in)[i - 1].values, t.v),
                                                     rest |-> t.rest]
  <2>1. out[i] = WrittenTo(types, values, out, i)
    BY <1>2
  <2>2. \A in : Got(in)[i] = ReadTo(in, types, Got(in), i)
    BY <1>3
  <2> QED
    BY <2>1, <2>2 DEF WrittenTo, ReadTo
<1> DEFINE Done(i) == /\ out[i] \in Seq(Cells)
                      /\ \A rest \in Seq(Cells) :
                           Got(out[i] \o rest)[i] = [values |-> upTo(i), rest |-> rest]
           S == {i \in Nat : i <= n => Done(i)}
<1>7. 0 \in S
  <2>1. 0 \in 0 .. n
    BY <1>5
  <2>2. out[0] = << >> /\ \A in : Got(in)[0] = [values |-> << >>, rest |-> in]
    BY <1>6, <2>1
  <2>3. \A rest \in Seq(Cells) : << >> \o rest = rest
    OBVIOUS
  <2>4. upTo(0) = << >>
    OBVIOUS
  <2> HIDE DEF upTo, all
  <2>5. Done(0)
    BY <2>2, <2>3, <2>4
  <2> QED
    BY <2>5
<1>8. ASSUME NEW i \in Nat, i \in S
      PROVE  i + 1 \in S
  <2>0. i + 1 \in Nat
    OBVIOUS
  <2> SUFFICES ASSUME i + 1 <= n PROVE Done(i + 1)
    BY <2>0, Zenon
  <2> DEFINE W == Write(types[i + 1], values[i + 1])
             a == Arrived(types[i + 1], values[i + 1])
  <2>1. i + 1 \in 0 .. n /\ i + 1 # 0 /\ (i + 1) - 1 = i /\ i + 1 \in 1 .. n /\ i <= n
    BY <1>5
  <2>2. Done(i)
    BY <1>8, <2>1
  <2>3. W \in Seq(Cells) /\ \A rest \in Seq(Cells) : Read(W \o rest, types[i + 1]) = Took(a, rest)
    BY <2>1, FieldArrives DEF n
  <2>4. upTo(i) \in Seq(Arrivals) /\ a \in Arrivals /\ upTo(i + 1) = Append(upTo(i), a)
    <3>1. \A j \in 1 .. i + 1 : all[j] \in Arrivals
      <4>1. \A j \in 1 .. i + 1 : j \in 1 .. n
        BY <1>5
      <4>2. \A j \in 1 .. n : all[j] \in Arrivals
        OBVIOUS
      <4> HIDE DEF all, Arrivals
      <4> QED
        BY <4>1, <4>2
    <3>2. all[i + 1] = a
      BY <2>1
    <3> HIDE DEF all, a, Arrivals
    <3>3. upTo(i) \in Seq(Arrivals) /\ Len(upTo(i)) = i
      BY <3>1
    <3>4. upTo(i + 1) \in Seq(Arrivals) /\ Len(upTo(i + 1)) = i + 1
      BY <3>1
    <3>5. Append(upTo(i), a) \in Seq(Arrivals) /\ Len(Append(upTo(i), a)) = i + 1
      BY <3>1, <3>2, <3>3
    <3>6. \A j \in 1 .. i + 1 : Append(upTo(i), a)[j] = upTo(i + 1)[j]
      BY <3>2, <3>3
    <3>7. a \in Arrivals /\ i + 1 \in Nat
      BY <3>1, <3>2
    <3> HIDE DEF upTo
    <3>8. upTo(i + 1) = Append(upTo(i), a)
      BY <3>4, <3>5, <3>6, <3>7, SeqEqual
    <3> QED
      BY <3>3, <3>7, <3>8
  <2>5. /\ out[i + 1] = out[i] \o W
        /\ \A in : LET t == Read(Got(in)[i].rest, types[i + 1])
                   IN Got(in)[i + 1] = [values |-> Append(Got(in)[i].values, t.v), rest |-> t.rest]
    BY <1>6, <2>1
  <2> HIDE DEF W, a, upTo, Arrivals, all
  <2>6. out[i + 1] \in Seq(Cells)
    BY <2>2, <2>3, <2>5
  <2>7. ASSUME NEW rest \in Seq(Cells)
        PROVE  Got(out[i + 1] \o rest)[i + 1] = [values |-> upTo(i + 1), rest |-> rest]
    <3> DEFINE in == out[i + 1] \o rest
    <3>1. W \o rest \in Seq(Cells)
      BY <2>3
    <3>2. in = out[i] \o (W \o rest)
      <4>1. out[i] \in Seq(Cells) /\ W \in Seq(Cells)
        BY <2>2, <2>3
      <4>2. (out[i] \o W) \o rest = out[i] \o (W \o rest)
        BY <1>0, <4>1
      <4> QED
        BY <2>5, <4>2
    <3> HIDE DEF in
    <3>3. Got(in)[i] = [values |-> upTo(i), rest |-> W \o rest]
      BY <2>2, <3>1, <3>2
    <3>4. Read(W \o rest, types[i + 1]) = Took(a, rest)
      BY <2>3
    <3>5. Got(in)[i].values = upTo(i) /\ Got(in)[i].rest = W \o rest
      BY <3>3
    <3>6. Took(a, rest).v = a /\ Took(a, rest).rest = rest
      BY DEF Took
    <3>7. Got(in)[i + 1] = [values |-> Append(upTo(i), a), rest |-> rest]
      BY <2>5, <3>4, <3>5, <3>6
    <3> QED
      BY <2>4, <3>7 DEF in
  <2> QED
    BY <2>6, <2>7
<1> HIDE DEF S
<1>9. Nat \subseteq S
  BY <1>7, <1>8, NatSetInduction
<1>10. n \in S
  BY <1>5, <1>9
<1>11. Done(n)
  BY <1>5, <1>10 DEF S
<1> QED
  BY <1>1, <1>4, <1>11 DEF n

-----------------------------------------------------------------------------
\* The cells of messages whose texts are over Char and whose other values are in V.
PodTypes == {"int", "bool", "enum", "code", "spare"}
Alphabet(Char, V) ==
  {Cell("length", n) : n \in Nat} \cup {Cell("char", c) : c \in Char}
    \cup {Cell(type, v) : type \in PodTypes, v \in V}

\* The cells of that alphabet can carry any value of the parameter list.
LEMMA AlphabetHasCells ==
  ASSUME NEW Char, NEW V
  PROVE  /\ CellsOf(Alphabet(Char, V), Char)
         /\ \A type \in PodTypes, v \in V : Sendable(type, v, Alphabet(Char, V), Char)
         /\ \A s \in Seq(Char) : Sendable("string", s, Alphabet(Char, V), Char)
BY DEF CellsOf, Alphabet, Sendable, PodTypes

\* The arguments call_ takes from a message for a handler with these parameters.
ArgsOf(message, types) == ReadAll(request_data(message), types).values

\* A call arrives: call_ has the name and the values that were sent.
Arrives(name, types, args) ==
  /\ request_name(net_call_request(name, types, args)) = Sent(name)
  /\ ArgsOf(net_call_request(name, types, args), types)
       = [i \in 1 .. Len(types) |-> Arrived(types[i], args[i])]

(***************************************************************************)
(* What the handler gets: net_call and call_ agree, for every function     *)
(* whose bound types are the types of the arguments.                       *)
(***************************************************************************)
LEMMA RequestMeans ==
  ASSUME NEW Char, NEW V, 0 \in V, NEW name \in Seq(Char), NEW types, NEW args,
         Len(types) \in Nat,
         \A i \in 1 .. Len(types) : Sendable(types[i], args[i], Alphabet(Char, V), Char)
  PROVE  Arrives(name, types, args)
<1> DEFINE Cells == Alphabet(Char, V)
           A == WriteAll(types, args)
           message == net_call_request(name, types, args)
<1>1. CellsOf(Cells, Char) /\ Cell("spare", 0) \in Cells
  <2>1. CellsOf(Alphabet(Char, V), Char)
    BY AlphabetHasCells, Zenon
  <2>2. Cell("spare", 0) \in Alphabet(Char, V)
    BY DEF Alphabet, PodTypes
  <2> QED
    BY <2>1, <2>2
<1>2. /\ A \in Seq(Cells)
      /\ \A rest \in Seq(Cells) :
           ReadAll(A \o rest, types)
             = [values |-> [i \in 1 .. Len(types) |-> Arrived(types[i], args[i])], rest |-> rest]
  BY <1>1, FieldsArrive
<1>3. request_name(message) = Sent(name) /\ request_data(message) = A \o Spare \o Spare \o Spare
  BY <1>1, <1>2, RequestArrives
<1> HIDE DEF Cells, A, message
<1>4. Spare \in Seq(Cells)
  BY <1>1 DEF Spare
<1>5. A \o Spare \o Spare \o Spare = A \o (Spare \o (Spare \o Spare))
  <2>1. \A s, t, u \in Seq(Cells) : (s \o t) \o u = s \o (t \o u)
    BY ConcatAssociative
  <2>2. A \o Spare \in Seq(Cells) /\ Spare \o Spare \in Seq(Cells)
    BY <1>2, <1>4
  <2>3. ((A \o Spare) \o Spare) \o Spare = (A \o Spare) \o (Spare \o Spare)
    BY <1>4, <2>1, <2>2
  <2>4. (A \o Spare) \o (Spare \o Spare) = A \o (Spare \o (Spare \o Spare))
    BY <1>2, <1>4, <2>1, <2>2
  <2> QED
    BY <2>3, <2>4
<1>6. Spare \o (Spare \o Spare) \in Seq(Cells)
  BY <1>4
<1>7. ArgsOf(message, types)
        = [i \in 1 .. Len(types) |-> Arrived(types[i], args[i])]
  <2>1. ReadAll(A \o (Spare \o (Spare \o Spare)), types)
          = [values |-> [i \in 1 .. Len(types) |-> Arrived(types[i], args[i])],
             rest |-> Spare \o (Spare \o Spare)]
    BY <1>2, <1>6, Zenon
  <2>2. request_data(message) = A \o (Spare \o (Spare \o Spare))
    BY <1>3, <1>5, Zenon
  <2> QED
    BY <2>1, <2>2 DEF ArgsOf
<1> QED
  BY <1>3, <1>7 DEF message, Arrives

\* The tool reads the code and the text that colod's handler returned.
LEMMA AnswerRead ==
  ASSUME NEW Char, NEW val, val.msg \in Seq(Char)
  PROVE  read_answer(answer(val)) = [error_code |-> 0, code |-> val.code, msg |-> Sent(val.msg)]
<1> DEFINE V == {0, val.code}
           Cells == Alphabet(Char, V)
           types == <<"code", "string">>
           head == <<0, << >>>>
           ret == <<val.code, val.msg>>
           H == WriteAll(types, head)
           R == WriteAll(colod_ret_val_fields, ret)
<1>1. CellsOf(Cells, Char)
  BY AlphabetHasCells
<1>2. \A i \in 1 .. Len(types) : Sendable(types[i], head[i], Cells, Char)
  <2>1. Sendable("code", 0, Cells, Char) /\ Sendable("string", << >>, Cells, Char)
    <3>1. "code" \in PodTypes /\ 0 \in V /\ << >> \in Seq(Char)
      BY DEF PodTypes
    <3> HIDE DEF V
    <3> QED
      BY <3>1, AlphabetHasCells, Zenon
  <2> HIDE DEF Cells
  <2> QED
    BY <2>1
<1>3. \A i \in 1 .. Len(colod_ret_val_fields) :
        Sendable(colod_ret_val_fields[i], ret[i], Cells, Char)
  <2>1. Sendable("int", val.code, Cells, Char) /\ Sendable("string", val.msg, Cells, Char)
    <3>1. "int" \in PodTypes /\ val.code \in V
      BY DEF PodTypes
    <3> HIDE DEF V
    <3> QED
      BY <3>1, AlphabetHasCells, Zenon
  <2> HIDE DEF Cells
  <2> QED
    BY <2>1 DEF colod_ret_val_fields
<1>4. Len(types) = 2 /\ Len(colod_ret_val_fields) = 2
  BY DEF colod_ret_val_fields
<1> HIDE DEF Cells
<1>5. /\ H \in Seq(Cells)
      /\ \A rest \in Seq(Cells) :
           ReadAll(H \o rest, types)
             = [values |-> [i \in 1 .. Len(types) |-> Arrived(types[i], head[i])], rest |-> rest]
  <2>1. Len(types) \in Nat
    BY <1>4
  <2> HIDE DEF types, head
  <2> QED
    BY <1>1, <1>2, <2>1, FieldsArrive
<1>6. /\ R \in Seq(Cells)
      /\ \A rest \in Seq(Cells) :
           ReadAll(R \o rest, colod_ret_val_fields)
             = [values |-> [i \in 1 .. Len(colod_ret_val_fields)
                              |-> Arrived(colod_ret_val_fields[i], ret[i])], rest |-> rest]
  <2>1. Len(colod_ret_val_fields) \in Nat
    BY <1>4
  <2> HIDE DEF ret
  <2> QED
    BY <1>1, <1>3, <2>1, FieldsArrive
<1> HIDE DEF H, R
<1>7. answer(val) = H \o R
  BY DEF answer, H, R
<1>8. ReadAll(H \o R, types).values[1] = 0 /\ ReadAll(H \o R, types).rest = R
  <2>1. ReadAll(H \o R, types)
          = [values |-> [i \in 1 .. Len(types) |-> Arrived(types[i], head[i])], rest |-> R]
    BY <1>5, <1>6
  <2>2. Arrived(types[1], head[1]) = 0 /\ 1 \in 1 .. Len(types)
    BY DEF Arrived
  <2> QED
    BY <2>1, <2>2
<1>9. /\ ReadAll(R, colod_ret_val_fields).values[1] = val.code
      /\ ReadAll(R, colod_ret_val_fields).values[2] = Sent(val.msg)
  <2>1. R \o << >> = R /\ << >> \in Seq(Cells)
    BY <1>6
  <2>2. ReadAll(R, colod_ret_val_fields).values
          = [i \in 1 .. Len(colod_ret_val_fields) |-> Arrived(colod_ret_val_fields[i], ret[i])]
    <3> DEFINE arrived == [i \in 1 .. Len(colod_ret_val_fields)
                             |-> Arrived(colod_ret_val_fields[i], ret[i])]
    <3>1. ReadAll(R \o << >>, colod_ret_val_fields) = [values |-> arrived, rest |-> << >>]
      BY <1>6, <2>1, Zenon
    <3> HIDE DEF arrived
    <3>2. ReadAll(R, colod_ret_val_fields).values = arrived
      BY <2>1, <3>1
    <3> QED
      BY <3>2 DEF arrived
  <2>3. /\ Arrived(colod_ret_val_fields[1], ret[1]) = val.code
        /\ Arrived(colod_ret_val_fields[2], ret[2]) = Sent(val.msg)
    BY DEF Arrived, colod_ret_val_fields
  <2> QED
    BY <1>4, <2>2, <2>3
<1> QED
  BY <1>7, <1>8, <1>9 DEF read_answer

-----------------------------------------------------------------------------
\* colod binds every command with the types main passes.
LEMMA CommandsBound ==
  ASSUME NEW k \in command_type_map
  PROVE  <<k>> \in DOMAIN Bound /\ Bound[<<k>>] = ArgumentTypes(<<k>>)
<1>1. <<k>> \in DOMAIN Bound /\ Bound[<<k>>] = BoundTypes(k)
  <2>1. k \in BoundNames
    BY DEF command_type_map, OnDomain, BoundNames
  <2> QED
    BY <2>1 DEF Bound
<1>2. \A x, y : <<x>> = <<y>> => x = y
  OBVIOUS
<1>3. BoundTypes(k) = ArgumentTypes(<<k>>)
  BY <1>2 DEF BoundTypes, ArgumentTypes, command_type_map, OnDomain
<1> QED
  BY <1>1, <1>3

\* The texts of a command line, the values main passes, and the alphabet of the two.
NameChar  == command_type_map \cup Properties \cup {"default_config.yaml", "domain-test"}
TypedChar ==
  NameChar
    \cup UNION {{get(parsed, o).text[i] : i \in 1 .. Len(get(parsed, o).text)} : o \in Option}
TextsTyped == \A o \in Option : get(parsed, o).text \in Seq(TypedChar)
Passed == {0} \cup {Arguments(Command)[i] : i \in 1 .. Len(Arguments(Command))}

\* Arguments that a list of types describes.
Fits(types, args, Char) ==
  /\ Len(types) = Len(args) /\ Len(types) \in Nat /\ DOMAIN args = 1 .. Len(args)
  /\ \A i \in 1 .. Len(types) :
       IF types[i] = "string" THEN args[i] \in Seq(Char) ELSE types[i] \in PodTypes

\* A text of one character.
LEMMA OneCharacter == ASSUME NEW C, NEW c \in C PROVE <<c>> \in Seq(C)
OBVIOUS

\* The lists main has, whatever is passed for a value that is not a text.
LEMMA ListsFit ==
  ASSUME NEW Char, NEW s \in Seq(Char), NEW property \in Char, NEW x
  PROVE  /\ Fits(<< >>, << >>, Char)
         /\ Fits(<<"bool">>, <<x>>, Char)
         /\ Fits(<<"string">>, <<s>>, Char)
         /\ Fits(<<"string", "bool">>, <<s, x>>, Char)
         /\ Fits(<<"string", "string", "int">>, <<s, <<property>>, x>>, Char)
<1>1. Fits(<< >>, << >>, Char)
  BY DEF Fits
<1>2. Fits(<<"bool">>, <<x>>, Char)
  BY DEF Fits, PodTypes
<1>3. Fits(<<"string">>, <<s>>, Char)
  BY DEF Fits
<1>4. Fits(<<"string", "bool">>, <<s, x>>, Char)
  BY DEF Fits, PodTypes
<1>5. \A r \in Seq(Char) : Fits(<<"string", "string", "int">>, <<s, r, x>>, Char)
  BY DEF Fits, PodTypes
<1>6. <<property>> \in Seq(Char)
  BY OneCharacter
<1> QED
  BY <1>1, <1>2, <1>3, <1>4, <1>5, <1>6

\* The options whose texts main passes were added.
LEMMA OptionsNamed == {"domain", "vm-file", "config-file"} \subseteq Option
<1>1. {"domain", "vm-file", "config-file"} \subseteq DOMAIN Added
  BY DEF Added
<1> QED
  BY <1>1, OptionsAdded

\* main passes as many arguments as it names types, each of its type.
LEMMA ArgumentsFit ==
  ASSUME TextsTyped, NEW k \in command_type_map, Command = <<k>>, Refusal(parsed) = "go on"
  PROVE  Fits(ArgumentTypes(Command), Arguments(Command), TypedChar)
<1>0. \A x, y : <<x>> = <<y>> => x = y
  OBVIOUS
<1>1. Given("domain") \in Seq(TypedChar) /\ Given("vm-file") \in Seq(TypedChar)
      /\ Given("config-file") \in Seq(TypedChar)
  BY OptionsNamed DEF TextsTyped, Given
<1>2. "default_config.yaml" \in TypedChar
  BY DEF TypedChar, NameChar
<1>3. DefaultConfigFile \in Seq(TypedChar)
  <2>1. "default_config.yaml" \in TypedChar
    BY <1>2
  <2> QED
    BY <2>1, OneCharacter DEF DefaultConfigFile
<1>4. CASE k = "connect-status"
  <2>1. ArgumentTypes(Command) = << >> /\ Arguments(Command) = << >>
    BY <1>0, <1>4 DEF ArgumentTypes, Arguments
  <2> QED
    BY <1>1, <1>2, <2>1, ListsFit, Zenon
<1>5. CASE k = "list"
  <2>1. ArgumentTypes(Command) = <<"bool">>
    BY <1>0, <1>5 DEF ArgumentTypes
  <2>2. Arguments(Command) = <<exist(parsed, "all")>>
    BY <1>0, <1>5, Zenon DEF Arguments
  <2> QED
    BY <1>1, <1>2, <2>1, <2>2, ListsFit, Zenon
<1>6. CASE k = "start"
  <2>1. ArgumentTypes(Command) = <<"string", "bool">>
    BY <1>0, <1>6 DEF ArgumentTypes
  <2>2. Arguments(Command) = <<Given("domain"), exist(parsed, "colo")>>
    BY <1>0, <1>6, Zenon DEF Arguments
  <2> QED
    BY <1>1, <1>2, <2>1, <2>2, ListsFit, Zenon
<1>7. CASE k = "set-params"
  <2> DEFINE property == CHOOSE o \in GivenProperties : TRUE
  <2>1. ArgumentTypes(Command) = <<"string", "string", "int">>
    BY <1>0, <1>7 DEF ArgumentTypes
  <2>2. Arguments(Command) = <<Given("domain"), <<property>>, get(parsed, property).number>>
    BY <1>0, <1>7, Zenon DEF Arguments
  <2>3. property \in TypedChar
    <3>1. \E o \in Properties : exist(parsed, o)
      <4>1. Command \in {<<c>> : c \in OnDomain} /\ Command # <<"define">>
        BY <1>0, <1>7 DEF OnDomain
      <4>2. exist(parsed, "domain")
        BY <4>1 DEF Refusal, Command
      <4>3. {o \in Properties : exist(parsed, o)} # {}
        BY <1>7, <4>1, <4>2 DEF Refusal, Command
      <4> QED
        BY <4>3
    <3>2. property \in Properties
      BY <3>1 DEF GivenProperties
    <3> QED
      BY <3>2 DEF TypedChar, NameChar
  <2> HIDE DEF property
  <2> QED
    BY <1>1, <2>1, <2>2, <2>3, ListsFit, Zenon
<1>8. CASE k \notin {"connect-status", "list", "start", "set-params"}
  <2>1. ArgumentTypes(Command) = <<"string">>
    BY <1>0, <1>8 DEF ArgumentTypes
  <2>2. PICK s \in Seq(TypedChar) : Arguments(Command) = <<s>>
    BY <1>0, <1>1, <1>3, <1>8 DEF Arguments
  <2> QED
    BY <1>2, <2>1, <2>2, ListsFit, Zenon
<1> QED
  BY <1>4, <1>5, <1>6, <1>7, <1>8

\* A name arrives whole.
LEMMA NameArrives == ASSUME NEW k PROVE Sent(<<k>>) = <<k>>
<1>1. 1 % LenMod = 1
  BY LenModAssumption
<1>2. Sent(<<k>>) = SubSeq(<<k>>, 1, 1)
  BY <1>1 DEF Sent
<1> QED
  BY <1>2

\* The values of a call, as the handler gets them.
AsSent(types, args) ==
  [i \in DOMAIN args |-> IF types[i] = "string" THEN Sent(args[i]) ELSE args[i]]

\* A call whose arguments fit its types arrives at the function of its name.
ArrivesAsSent(name, types, args) ==
  /\ request_name(net_call_request(name, types, args)) = name
  /\ ArgsOf(net_call_request(name, types, args), types) = AsSent(types, args)

\* Whatever values a call has, its request arrives with them: the alphabet is taken from the call.
LEMMA CallArrives ==
  ASSUME NEW Char, NEW c \in Char, NEW types, NEW args, Fits(types, args, Char)
  PROVE  ArrivesAsSent(<<c>>, types, args)
<1> DEFINE Values == {0} \cup {args[i] : i \in 1 .. Len(args)}
<1>1. /\ \A type \in PodTypes, v \in Values : Sendable(type, v, Alphabet(Char, Values), Char)
      /\ \A s \in Seq(Char) : Sendable("string", s, Alphabet(Char, Values), Char)
  BY AlphabetHasCells, Zenon
<1>2. \A i \in 1 .. Len(types) : Sendable(types[i], args[i], Alphabet(Char, Values), Char)
  BY <1>1 DEF Fits
<1>3. 0 \in Values
  OBVIOUS
<1> HIDE DEF Values
<1>4. <<c>> \in Seq(Char) /\ Len(types) \in Nat
  BY OneCharacter DEF Fits
<1>5. Arrives(<<c>>, types, args)
  BY <1>2, <1>3, <1>4, RequestMeans, Zenon
<1>6. [i \in 1 .. Len(types) |-> Arrived(types[i], args[i])] = AsSent(types, args)
  BY DEF Arrived, AsSent, Fits
<1>7. Sent(<<c>>) = <<c>>
  BY NameArrives
<1> QED
  BY <1>5, <1>6, <1>7, Zenon DEF Arrives, ArrivesAsSent

\* The messages of the two calls.
TestRequest    == net_call_request(<<"domain-test">>, <<"string">>, <<Given("domain")>>)
CommandRequest == net_call_request(Command, ArgumentTypes(Command), Arguments(Command))

\* The handler of a request of the tool has what was typed.
LEMMA CommandArrives ==
  ASSUME TextsTyped, Refusal(parsed) = "go on"
  PROVE  /\ request_name(CommandRequest) = Command /\ Command \in DOMAIN Bound
         /\ ArgsOf(CommandRequest, Bound[Command])
              = AsSent(ArgumentTypes(Command), Arguments(Command))
<1>1. PICK k \in command_type_map : Command = <<k>>
  BY DEF Refusal, Command
<1>2. k \in TypedChar
  BY <1>1 DEF TypedChar, NameChar
<1>3. Fits(ArgumentTypes(Command), Arguments(Command), TypedChar)
  BY <1>1, ArgumentsFit
<1>4. Command \in DOMAIN Bound /\ Bound[Command] = ArgumentTypes(Command)
  BY <1>1, CommandsBound
<1>5. ArrivesAsSent(<<k>>, ArgumentTypes(Command), Arguments(Command))
  BY <1>2, <1>3, CallArrives, Zenon
<1> QED
  BY <1>1, <1>4, <1>5, Zenon DEF CommandRequest, ArrivesAsSent

\* And so has the test before colo-enable.
LEMMA TestArrives ==
  ASSUME TextsTyped
  PROVE  /\ request_name(TestRequest) = <<"domain-test">> /\ <<"domain-test">> \in DOMAIN Bound
         /\ ArgsOf(TestRequest, Bound[<<"domain-test">>])
              = AsSent(<<"string">>, <<Given("domain")>>)
<1>1. "domain-test" \in TypedChar
  BY DEF TypedChar, NameChar
<1>2. Given("domain") \in Seq(TypedChar)
  BY OptionsNamed DEF TextsTyped, Given
<1>3. Fits(<<"string">>, <<Given("domain")>>, TypedChar)
  BY <1>1, <1>2, ListsFit, Zenon
<1>4. <<"domain-test">> \in DOMAIN Bound /\ Bound[<<"domain-test">>] = <<"string">>
  <2>1. "domain-test" \in BoundNames
    BY DEF BoundNames
  <2>2. BoundTypes("domain-test") = <<"string">>
    BY DEF BoundTypes
  <2> QED
    BY <2>1, <2>2 DEF Bound
<1>5. ArrivesAsSent(<<"domain-test">>, <<"string">>, <<Given("domain")>>)
  BY <1>1, <1>3, CallArrives, Zenon
<1> QED
  BY <1>4, <1>5, Zenon DEF TestRequest, ArrivesAsSent

-----------------------------------------------------------------------------
\* What was typed, and what the parser made of it.
Lines ==
  /\ pc = "pretest" => argv \in Typed
  /\ pc = "parsed" => argv \in Typed /\ parsed = parse(argv)
  /\ \E line \in Typed \cup {<< >>} : parsed = parse(line)

\* The default of an option and the value a parser read for it are sequences of characters alike.
LEMMA LinesGiveTexts ==
  ASSUME Lines
  PROVE  TextsTyped
<1>1. PICK line \in Typed \cup {<< >>} : parsed = parse(line)
  BY DEF Lines
<1>2. IsLine(<< >>)
  BY DEF IsLine, IsSeq
<1>3. IsLine(line)
  BY <1>1, <1>2, TypedAssumption
<1>4. ASSUME NEW o \in Option
      PROVE  get(parsed, o).text \in Seq(TypedChar)
  <2> DEFINE s == get(parsed, o).text
             S == {s[i] : i \in 1 .. Len(s)}
  <2>1. s \in Seq(S)
    BY <1>1, <1>3, ParsedTexts DEF IsSeq
  <2>2. S \subseteq TypedChar
    BY DEF TypedChar
  <2> HIDE DEF s, S
  <2>3. s \in Seq(TypedChar)
    BY <2>1, <2>2
  <2> QED
    BY <2>3 DEF s
<1> QED
  BY <1>4 DEF TextsTyped

\* Before the first line is read the parser has read the empty one.
LEMMA LinesInit == ToolInit => Lines
BY DEF ToolInit, Lines

\* Only the start of the tool reads a line.
LEMMA LinesStep == Lines /\ [ToolNext]_vars => Lines'
<1> SUFFICES ASSUME Lines, [ToolNext]_vars PROVE Lines'
  OBVIOUS
<1>1. CASE pretest
  <2>1. argv \in Typed /\ argv' = argv /\ pc' \in {"ended", "parsed"}
    BY <1>1 DEF pretest, Ends, Lines
  <2>2. parsed' = parsed \/ parsed' = parse(argv)
    BY <1>1 DEF pretest
  <2>3. pc' = "parsed" => parsed' = parse(argv)
    BY <1>1 DEF pretest, Ends
  <2> QED
    BY <2>1, <2>2, <2>3 DEF Lines
<1>2. CASE ~pretest
  <2>1. parsed' = parsed /\ ((pc' = pc /\ argv' = argv) \/ pc' \notin {"pretest", "parsed"})
    BY <1>2 DEF ToolNext, ToolStep, ColodStep, refuse, first_call, Call, recv_timeout, recv_reply,
                get_domain, load_definition, get_domain_config_file_path, transfer, Ends, Unchanged,
                EnableCall, Handle, Answer, OtherCaller, define_writes, define_saves, Finishes, Crashes,
                peer_transfers, UnchangedTool, vars, toolVars, Waiting
  <2> QED
    BY <2>1 DEF Lines
<1> QED
  BY <1>1, <1>2

(***************************************************************************)
(* MeansWhatItSays: the line main acts on (parse_check, then get and exist *)
(* of its options) means what was typed or is refused, for any set of      *)
(* command lines, of any length.                                           *)
(***************************************************************************)
THEOREM MeansWhatItSaysAlways == ToolSpec => []MeansWhatItSays
<1>1. Lines => MeansWhatItSays
  BY TypedAssumption, ParseMeans DEF Lines, MeansWhatItSays
<1> QED
  BY <1>1, LinesInit, LinesStep, PTL DEF ToolSpec

-----------------------------------------------------------------------------
(***************************************************************************)
(* What is on its way is the test or the command that was typed.           *)
(***************************************************************************)
TestCall    == [name |-> <<"domain-test">>, args |-> AsSent(<<"string">>, <<Given("domain")>>)]
CommandCall == [name |-> Command, args |-> AsSent(ArgumentTypes(Command), Arguments(Command))]

Enables  == Command = <<"colo-enable">> /\ Refusal(parsed) = "go on"
Testing  == pc \in {"test", "ended"} /\ Enables
Calling  == pc \in {"call", "ended"} /\ Refusal(parsed) = "go on"

Accepted ==
  /\ pc \in {"test", "get_domain", "load_definition", "get_path", "get_status"} => Enables
  /\ pc = "call" => Refusal(parsed) = "go on"
  /\ m_error_code = "recv_timeout" => pc = "ended"
Quiet ==
  pc \notin {"test", "call", "ended"} =>
    request = NoMessage /\ handling = NoMessage /\ reply = NoMessage
One ==
  /\ reply # NoMessage => request = NoMessage /\ handling = NoMessage
  /\ handling # NoMessage => request = NoMessage
Requested ==
  request # NoMessage =>
    (Testing /\ request = TestRequest) \/ (Calling /\ request = CommandRequest)
Handled ==
  handling # NoMessage =>
    (Testing /\ handling = TestCall) \/ (Calling /\ handling = CommandCall)
Replied ==
  /\ IsSeq(served)
  /\ reply # NoMessage =>
       /\ served # << >> /\ Last(served).val \in Answers /\ reply = answer(Last(served).val)
       /\ pc = "call" => Last(served).call.name = Command
Told ==
  Len(said) = 2 =>
    /\ pc = "ended" /\ request = NoMessage /\ handling = NoMessage
    /\ served # << >> /\ Last(served).call.name = Command
    /\ said = <<Last(served).val.code, Sent(Last(served).val.msg)>>

ToolInv == Lines /\ Accepted /\ Quiet /\ One /\ Requested /\ Handled /\ Replied /\ Told

\* What was typed does not change once it has been read.
LEMMA SameLine ==
  ASSUME UNCHANGED parsed
  PROVE  /\ Command' = Command /\ Enables' = Enables /\ (Refusal(parsed))' = Refusal(parsed)
         /\ TestRequest' = TestRequest /\ CommandRequest' = CommandRequest
         /\ TestCall' = TestCall /\ CommandCall' = CommandCall
<1>1. Command' = Command /\ (Given("domain"))' = Given("domain")
  BY DEF Command, Given
<1>2. (Arguments(Command))' = Arguments(Command) /\ (Refusal(parsed))' = Refusal(parsed)
  BY <1>1 DEF Arguments, Given, GivenProperties
<1>3. (ArgumentTypes(Command))' = ArgumentTypes(Command)
  BY <1>1 DEF ArgumentTypes
<1> QED
  BY <1>1, <1>2, <1>3 DEF Enables, TestRequest, CommandRequest, TestCall, CommandCall

\* The call colo-enable makes is the command that was typed.
LEMMA EnableIsCommand ==
  ASSUME Command = <<"colo-enable">>
  PROVE  net_call_request(<<"colo-enable">>, <<"string">>, <<Given("domain")>>) = CommandRequest
<1>1. ArgumentTypes(Command) = <<"string">>
  BY DEF ArgumentTypes
<1>2. Arguments(Command) = <<Given("domain")>>
  BY DEF Arguments
<1> QED
  BY <1>1, <1>2 DEF CommandRequest

\* Nothing is on its way before the tool has started.
LEMMA ToolInvInit == ToolInit => ToolInv
<1> SUFFICES ASSUME ToolInit PROVE ToolInv
  OBVIOUS
<1>1. Lines
  BY LinesInit
<1>2. IsSeq(<< >>)
  BY DEF IsSeq
<1> QED
  BY <1>1, <1>2 DEF ToolInit, ToolInv, Accepted, Quiet, One, Requested, Handled, Replied, Told

\* The tool ends with a message of its own.
LEMMA EndsTold == ASSUME NEW x, Ends(<<x>>) PROVE pc' = "ended" /\ Len(said') # 2
<1>1. Len(<<x>>) # 2
  OBVIOUS
<1>2. pc' = "ended" /\ said' = <<x>>
  BY Zenon DEF Ends
<1> QED
  BY <1>1, <1>2, Zenon

\* The steps of the tool.
LEMMA PretestStep == ASSUME ToolInv, Lines', pretest PROVE ToolInv'
<1>1. /\ request = NoMessage /\ handling = NoMessage /\ reply = NoMessage /\ Len(said) # 2
      /\ m_error_code # "recv_timeout"
  BY DEF pretest, ToolInv, Quiet, Told, Accepted
<1>2. UNCHANGED <<request, m_error_code, handling, reply, served>>
  BY DEF pretest
<1>3. pc' \in {"ended", "parsed"} /\ Len(said') # 2
  <2>1. Ends(<<"please start colod.">>) \/ (pc' = "parsed" /\ UNCHANGED said)
    BY DEF pretest
  <2> QED
    BY <1>1, <2>1, EndsTold, Zenon
<1> QED
  BY <1>1, <1>2, <1>3 DEF ToolInv, Accepted, Quiet, One, Requested, Handled, Replied, Told

\* A refused command sends nothing and says nothing that could be taken for an answer.
LEMMA RefuseStep == ASSUME ToolInv, Lines', refuse PROVE ToolInv'
<1>1. /\ request = NoMessage /\ handling = NoMessage /\ reply = NoMessage
      /\ m_error_code # "recv_timeout"
  BY DEF refuse, ToolInv, Quiet, Accepted
<1>2. UNCHANGED <<request, m_error_code, handling, reply, served>>
  BY DEF refuse
<1>3. pc' = "ended" /\ Len(said') # 2
  <2>1. Ends(<<Checked(argv, parsed)>>) \/ Ends(<<Refusal(parsed)>>)
    BY Zenon DEF refuse
  <2> QED
    BY <2>1, EndsTold, Zenon
<1> QED
  BY <1>1, <1>2, <1>3 DEF ToolInv, Accepted, Quiet, One, Requested, Handled, Replied, Told

\* A call is made when nothing is on its way, and it is the one that was typed.
LEMMA CallStep ==
  ASSUME ToolInv, Lines', UNCHANGED <<parsed, m_error_code, handling, reply, served, said>>,
         pc \notin {"pretest", "test", "call", "ended"}, Refusal(parsed) = "go on",
         \/ pc' = "test" /\ Enables /\ request' = TestRequest
         \/ pc' = "call" /\ request' = CommandRequest
  PROVE  ToolInv'
<1>1. /\ request = NoMessage /\ handling = NoMessage /\ reply = NoMessage /\ Len(said) # 2
      /\ m_error_code # "recv_timeout" /\ IsSeq(served)
  BY DEF ToolInv, Quiet, Told, Accepted, Replied
<1>2. /\ Enables' = Enables /\ (Refusal(parsed))' = Refusal(parsed)
      /\ TestRequest' = TestRequest /\ CommandRequest' = CommandRequest
  BY SameLine
<1>3. Accepted'
  BY <1>1, <1>2 DEF Accepted
<1>4. Requested'
  BY <1>2 DEF Requested, Testing, Calling
<1> QED
  BY <1>1, <1>3, <1>4 DEF ToolInv, Quiet, One, Handled, Replied, Told

\* The first call is the test of the domain for colo-enable, for any other command the command.
LEMMA FirstCallStep == ASSUME ToolInv, Lines', first_call PROVE ToolInv'
<1>1. pc = "parsed" /\ Refusal(parsed) = "go on" /\ m_error_code # "recv_timeout"
  BY DEF first_call, ToolInv, Accepted
<1>2. UNCHANGED <<parsed, m_error_code, handling, reply, served, said>>
  BY DEF first_call, Call
<1>3. \/ pc' = "test" /\ Enables /\ request' = TestRequest
      \/ pc' = "call" /\ request' = CommandRequest
  BY <1>1 DEF first_call, Call, Enables, TestRequest, CommandRequest
<1> QED
  BY <1>1, <1>2, <1>3, CallStep

\* The reads of the save file: on to the next, a call, or the end.
LEMMA ReadStep ==
  ASSUME ToolInv, Lines', get_domain \/ load_definition \/ get_domain_config_file_path \/ transfer
  PROVE  ToolInv'
<1>1. /\ pc \in {"get_domain", "load_definition", "get_path", "get_status"}
      /\ Enables /\ m_error_code # "recv_timeout"
  BY DEF get_domain, load_definition, get_domain_config_file_path, transfer, ToolInv, Accepted
<1>2. \/ EnableCall
      \/ Ends(<<"exception">>) /\ Unchanged
      \/ pc' \in {"load_definition", "get_path", "get_status"} /\ UNCHANGED said /\ Unchanged
  BY DEF get_domain, load_definition, get_domain_config_file_path, transfer
<1>3. CASE EnableCall
  <2>1. /\ UNCHANGED <<parsed, m_error_code, handling, reply, served, said>>
        /\ pc' = "call" /\ request' = CommandRequest
    BY <1>1, <1>3, EnableIsCommand DEF EnableCall, Call, Enables
  <2> QED
    BY <1>1, <2>1, CallStep DEF Enables
<1>4. CASE ~EnableCall
  <2>1. UNCHANGED <<parsed, request, m_error_code, handling, reply, served>>
    BY <1>2, <1>4 DEF Unchanged
  <2>2. /\ request = NoMessage /\ handling = NoMessage /\ reply = NoMessage /\ Len(said) # 2
        /\ IsSeq(served)
    BY <1>1 DEF ToolInv, Quiet, Told, Replied
  <2>3. pc' \in {"load_definition", "get_path", "get_status", "ended"} /\ Len(said') # 2
    BY <1>2, <1>4, <2>2 DEF Ends
  <2>4. Enables' = Enables
    BY <2>1, SameLine
  <2> QED
    BY <1>1, <2>1, <2>2, <2>3, <2>4 DEF ToolInv, Accepted, Quiet, One, Requested, Handled, Replied, Told
<1> QED
  BY <1>3, <1>4

\* A tool that waited in vain ends: what is still on its way stays what it was.
LEMMA TimeoutStep == ASSUME ToolInv, Lines', recv_timeout PROVE ToolInv'
<1>1. UNCHANGED <<parsed, request, handling, reply, served>> /\ pc' = "ended" /\ Len(said') # 2
  <2>1. Ends(<<"connect to colod timeout.">>) /\ UNCHANGED <<parsed, request, handling, reply, served>>
    BY DEF recv_timeout
  <2> QED
    BY <2>1, EndsTold, Zenon
<1>2. pc \in {"test", "call"}
  BY DEF recv_timeout, Waiting
<1>3. /\ Enables' = Enables /\ (Refusal(parsed))' = Refusal(parsed)
      /\ TestRequest' = TestRequest /\ CommandRequest' = CommandRequest
      /\ TestCall' = TestCall /\ CommandCall' = CommandCall
  BY <1>1, SameLine
<1>4. Requested' /\ Handled'
  BY <1>1, <1>2, <1>3 DEF ToolInv, Requested, Handled, Testing, Calling
<1> QED
  BY <1>1, <1>4 DEF ToolInv, Accepted, Quiet, One, Replied, Told

\* An answer: it is that to the last call colod took.
LEMMA ReplyStep == ASSUME ToolInv, Lines', recv_reply PROVE ToolInv'
<1> DEFINE val == Last(served).val
           got == read_answer(reply)
<1>1. /\ UNCHANGED <<parsed, request, handling, served>> /\ reply' = NoMessage
      /\ m_error_code' = "success" /\ pc \in {"test", "call"} /\ reply # NoMessage
  BY DEF recv_reply, Waiting
<1>2. /\ request = NoMessage /\ handling = NoMessage /\ IsSeq(served) /\ served # << >>
      /\ val \in Answers /\ reply = answer(val)
      /\ pc = "call" => Last(served).call.name = Command
  BY <1>1 DEF ToolInv, One, Replied
<1>3. got.error_code = 0 /\ got.code = val.code /\ got.msg = Sent(val.msg)
  <2>1. val.msg \in Seq({val.msg[i] : i \in 1 .. Len(val.msg)})
    BY <1>2, AnswersAssumption DEF IsSeq
  <2> HIDE DEF val
  <2>2. read_answer(answer(val)) = [error_code |-> 0, code |-> val.code, msg |-> Sent(val.msg)]
    BY <2>1, AnswerRead
  <2> QED
    BY <1>2, <2>2
<1>4. Command' = Command /\ Enables' = Enables
  BY <1>1, SameLine
<1> HIDE DEF got, val
<1>5. \/ pc = "call" /\ Ends(<<got.code, got.msg>>)
      \/ pc = "test" /\ pc' = "get_domain" /\ UNCHANGED said
      \/ Ends(<<"canot colo enable a running domain.">>)
  BY <1>1, <1>3 DEF recv_reply, got
<1>6. Told'
  <2>1. CASE pc = "call" /\ Ends(<<got.code, got.msg>>)
    BY <1>1, <1>2, <1>3, <1>4, <2>1 DEF Told, Ends, val
  <2>2. CASE pc = "test" /\ pc' = "get_domain" /\ UNCHANGED said
    <3>1. Len(said) # 2 /\ said' = said
      BY <2>2 DEF Told, ToolInv
    <3>2. Len(said') # 2
      BY <3>1, Zenon
    <3> QED
      BY <3>2 DEF Told
  <2>3. CASE Ends(<<"canot colo enable a running domain.">>)
    BY <2>3, EndsTold, Zenon DEF Told
  <2> QED
    BY <1>5, <2>1, <2>2, <2>3
<1>7. Accepted'
  BY <1>1, <1>4, <1>5 DEF Accepted, ToolInv, Ends
<1> QED
  BY <1>1, <1>2, <1>6, <1>7 DEF ToolInv, Quiet, One, Requested, Handled, Replied

-----------------------------------------------------------------------------
\* A call that was taken is taken off its way.
LEMMA LastAppended ==
  ASSUME NEW s, IsSeq(s), NEW x
  PROVE  IsSeq(Append(s, x)) /\ Append(s, x) # << >> /\ Last(Append(s, x)) = x
<1>1. IsSeq(Append(s, x)) /\ Append(s, x) # << >>
  BY AppendIsSeq
<1>2. Last(Append(s, x)) = x
  <2> DEFINE S == {s[i] : i \in 1 .. Len(s)} \cup {x}
  <2>1. s \in Seq(S) /\ x \in S
    BY DEF IsSeq
  <2> HIDE DEF S
  <2> QED
    BY <2>1 DEF Last
<1> QED
  BY <1>1, <1>2

\* The handler is given the name and the arguments that were typed.
LEMMA HandleStep == ASSUME ToolInv, Lines', Handle PROVE ToolInv'
<1> DEFINE name == request_name(request)
           args == IF name \in DOMAIN Bound
                   THEN ReadAll(request_data(request), Bound[name]).values ELSE << >>
<1>1. /\ request # NoMessage /\ request' = NoMessage /\ handling = NoMessage
      /\ handling' = [name |-> name, args |-> args]
      /\ UNCHANGED <<pc, parsed, m_error_code, reply, served, said>>
  BY DEF Handle, UnchangedTool, Idle
<1>2. TextsTyped
  BY LinesGiveTexts DEF ToolInv
<1>3. /\ Enables' = Enables /\ (Refusal(parsed))' = Refusal(parsed) /\ Command' = Command
      /\ TestCall' = TestCall /\ CommandCall' = CommandCall
  BY <1>1, SameLine
<1>4. CASE Testing /\ request = TestRequest
  <2>1. name = <<"domain-test">> /\ args = AsSent(<<"string">>, <<Given("domain")>>)
    BY <1>2, <1>4, TestArrives, Zenon DEF ArgsOf
  <2>2. handling' = TestCall
    BY <1>1, <2>1, Zenon DEF TestCall
  <2> QED
    BY <1>1, <1>3, <1>4, <2>2 DEF ToolInv, Accepted, Quiet, One, Requested, Handled, Testing, Replied, Told
<1>5. CASE Calling /\ request = CommandRequest
  <2>1. name = Command /\ args = AsSent(ArgumentTypes(Command), Arguments(Command))
    BY <1>2, <1>5, CommandArrives, Zenon DEF ArgsOf, Calling
  <2>2. handling' = CommandCall
    BY <1>1, <2>1, Zenon DEF CommandCall
  <2> QED
    BY <1>1, <1>3, <1>5, <2>2 DEF ToolInv, Accepted, Quiet, One, Requested, Handled, Calling, Replied, Told
<1> QED
  BY <1>1, <1>4, <1>5 DEF ToolInv, Requested

\* The answer goes to the call that colod took last.
LEMMA AnswerStep == ASSUME ToolInv, Lines', Answer PROVE ToolInv'
<1>1. /\ handling # NoMessage /\ handling' = NoMessage
      /\ UNCHANGED <<pc, parsed, request, m_error_code, said>>
  BY DEF Answer, UnchangedTool
<1>2. PICK val \in Answers :
        /\ reply' = IF pc = "ended" THEN NoMessage
                    ELSE IF handling.name \in DOMAIN Bound THEN answer(val)
                    ELSE answer_not_bound(handling.name)
        /\ served' = Append(served, [call |-> handling, val |-> val])
  BY DEF Answer
<1>3. request = NoMessage /\ reply = NoMessage /\ Len(said) # 2 /\ IsSeq(served)
  BY <1>1 DEF ToolInv, One, Told, Replied
<1>4. /\ IsSeq(served') /\ served' # << >>
      /\ Last(served') = [call |-> handling, val |-> val]
  BY <1>2, <1>3, LastAppended
<1>5. /\ Enables' = Enables /\ (Refusal(parsed))' = Refusal(parsed) /\ Command' = Command
  BY <1>1, SameLine
<1>6. TextsTyped
  BY LinesGiveTexts DEF ToolInv
<1>7. handling.name \in DOMAIN Bound /\ (pc = "call" => handling.name = Command)
  <2>1. CASE Testing /\ handling = TestCall
    BY <1>6, <2>1, TestArrives DEF Testing, TestCall
  <2>2. CASE Calling /\ handling = CommandCall
    BY <1>6, <2>2, CommandArrives DEF Calling, CommandCall
  <2> QED
    BY <1>1, <2>1, <2>2 DEF ToolInv, Handled
<1>8. reply' # NoMessage => reply' = answer(val)
  BY <1>2, <1>7
<1>9. Replied'
  BY <1>1, <1>4, <1>5, <1>7, <1>8 DEF Replied
<1>10. Quiet'
  BY <1>1, <1>2, <1>3 DEF ToolInv, Quiet
<1> QED
  BY <1>1, <1>3, <1>5, <1>9, <1>10 DEF ToolInv, Accepted, One, Requested, Handled, Told

\* A colod that ends takes the call it was running with it.
LEMMA CrashStep == ASSUME ToolInv, Lines', Crashes PROVE ToolInv'
<1>1. handling' = NoMessage /\ UNCHANGED <<pc, parsed, m_error_code, said, request, reply, served>>
  BY DEF Crashes, UnchangedTool
<1>2. /\ Enables' = Enables /\ (Refusal(parsed))' = Refusal(parsed) /\ Command' = Command
      /\ TestRequest' = TestRequest /\ CommandRequest' = CommandRequest
  BY <1>1, SameLine
<1> QED
  BY <1>1, <1>2 DEF ToolInv, Accepted, Quiet, One, Requested, Handled, Testing, Calling, Replied, Told

\* Calls of others and the end of a vm leave what the tool has on its way alone.
LEMMA OtherStep == ASSUME ToolInv, Lines', UNCHANGED toolVars PROVE ToolInv'
<1>1. UNCHANGED <<pc, parsed, m_error_code, said, request, handling, reply, served>>
  BY DEF toolVars
<1>2. /\ Enables' = Enables /\ (Refusal(parsed))' = Refusal(parsed) /\ Command' = Command
      /\ TestRequest' = TestRequest /\ CommandRequest' = CommandRequest
      /\ TestCall' = TestCall /\ CommandCall' = CommandCall
  BY <1>1, SameLine
<1> QED
  BY <1>1, <1>2 DEF ToolInv, Accepted, Quiet, One, Requested, Handled, Testing, Calling, Replied, Told

\* No step of the tool or of colod breaks the invariant.
LEMMA ToolInvStep == ToolInv /\ [ToolNext]_vars => ToolInv'
<1> SUFFICES ASSUME ToolInv, [ToolNext]_vars PROVE ToolInv'
  OBVIOUS
<1>1. Lines'
  BY LinesStep DEF ToolInv
<1>2. CASE ToolStep
  BY <1>1, <1>2, PretestStep, RefuseStep, FirstCallStep, ReadStep, TimeoutStep, ReplyStep DEF ToolStep
<1>3. CASE ColodStep
  BY <1>1, <1>3, HandleStep, AnswerStep, OtherStep, CrashStep
     DEF ColodStep, OtherCaller, define_writes, define_saves, peer_transfers, Finishes
<1>4. CASE UNCHANGED vars
  BY <1>1, <1>4, OtherStep DEF vars
<1> QED
  BY <1>2, <1>3, <1>4 DEF ToolNext

\* The inductive invariant of the tool's calls: request, handler, answer and what
\* was printed are those of the test or the command that was typed.
THEOREM ToolInvariant == ToolSpec => []ToolInv
BY ToolInvInit, ToolInvStep, PTL DEF ToolSpec

(***************************************************************************)
(* HandlerGetsWhatWasTyped: whatever main sends, through call, package_    *)
(* params, run and get_tuple, the handler colod runs is that of the typed  *)
(* command or of the test before it, with the typed arguments; for any     *)
(* texts and any width of a length.                                        *)
(***************************************************************************)
THEOREM HandlerGetsWhatWasTypedAlways == ToolSpec => []HandlerGetsWhatWasTyped
<1>1. ToolInv => HandlerGetsWhatWasTyped
  <2> SUFFICES ASSUME ToolInv, handling # NoMessage PROVE HandlerGetsWhatWasTyped
    BY DEF HandlerGetsWhatWasTyped
  <2>1. CASE Testing /\ handling = TestCall
    BY <2>1 DEF HandlerGetsWhatWasTyped, Testing, Enables, TestCall, AsSent
  <2>2. CASE Calling /\ handling = CommandCall
    <3>1. Command # <<"domain-test">>
      <4>1. \A x, y : <<x>> = <<y>> => x = y
        OBVIOUS
      <4>2. Command \in {<<k>> : k \in command_type_map}
        BY <2>2 DEF Calling, Refusal, Command
      <4>3. "domain-test" \notin command_type_map
        BY DEF command_type_map, OnDomain
      <4> QED
        BY <4>1, <4>2, <4>3
    <3> QED
      BY <2>2, <3>1 DEF HandlerGetsWhatWasTyped, Calling, CommandCall, AsSent
  <2> QED
    BY <2>1, <2>2 DEF ToolInv, Handled
<1> QED
  BY <1>1, ToolInvariant, PTL

(***************************************************************************)
(* SaidIsTheAnswer: the code and the text main prints are those colod      *)
(* answered to the command, not to the domain-test before it, whatever the *)
(* delays, timeouts and ends of colod between call and answer.             *)
(***************************************************************************)
THEOREM SaidIsTheAnswerAlways == ToolSpec => []SaidIsTheAnswer
<1>1. ToolInv => SaidIsTheAnswer
  BY DEF ToolInv, Told, SaidIsTheAnswer
<1> QED
  BY <1>1, ToolInvariant, PTL
=============================================================================
