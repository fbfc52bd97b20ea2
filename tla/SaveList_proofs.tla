--------------------------- MODULE SaveList_proofs ---------------------------
(***************************************************************************)
(* The YAML list on disk holds one record per name, and each walk over it  *)
(* does to that record what the function of SaveFile does: for any number  *)
(* of domains and any sequence of writes, cut short or not.                *)
(***************************************************************************)
EXTENDS SaveList, FiniteSetTheorems, WellFoundedInduction, TLAPS

\* A record of the list, and the one that stands for f[d].
RecordNode(name, path, pid, status, colo_enable, colo_status) ==
  MapNode([name |-> name, path |-> path, pid |-> pid, status |-> status,
           colo_enable |-> colo_enable, colo_status |-> colo_status])

Rec(f, d) ==
  RecordNode(Text(d), Text(f[d].path), Number(f[d].pid), Text(f[d].status),
             Bool(f[d].colo_enable), Text(f[d].colo_status))

Names(s)    == {s[i] : i \in 1 .. Len(s)}
Distinct(s) == \A i, j \in 1 .. Len(s) : s[i] = s[j] => i = j

\* The node of a list of these names.  (Without a domain it need not be a list.)
Lists(node, s, f) ==
  \/ s = << >> /\ node \in {Undefined, Null}
  \/ node = Sequence([i \in 1 .. Len(s) |-> Rec(f, s[i])])

\* A complete file, the result of cutting a write short, or a new node.
IsDoc(doc) == doc = Null \/ \E pairs : doc = MapNode(pairs)

(***************************************************************************)
(* The document holds the contents f, with the records in the order of s.  *)
(***************************************************************************)
HoldsIn(doc, s, f) ==
  /\ IsDoc(doc) /\ Lists(domains_of(doc), s, f)
  /\ s \in Seq(Domain) /\ Distinct(s)
  /\ f \in SaveContents
  /\ \A x \in Name : IF x \in Names(s) THEN f[x].saved ELSE f[x] = NotSaved

Holds(doc, f) == \E s : HoldsIn(doc, s, f)

-----------------------------------------------------------------------------
\* What a subscript of a map yields, unless the value is Zombie, which none is.
LEMMA AtMap ==
  ASSUME NEW g, NEW k \in DOMAIN g, g[k].type # "Zombie"
  PROVE  At(MapNode(g), k) = g[k]
BY DEF At, Get, MapNode, Zombie

\* What the functions read in a record is what the contents say of the name.
LEMMA RecFields ==
  ASSUME NEW f, NEW d
  PROVE  /\ At(Rec(f, d), "name") = Text(d)
         /\ At(Rec(f, d), "path") = Text(f[d].path)
         /\ At(Rec(f, d), "pid") = Number(f[d].pid)
         /\ At(Rec(f, d), "status") = Text(f[d].status)
         /\ At(Rec(f, d), "colo_enable") = Bool(f[d].colo_enable)
         /\ At(Rec(f, d), "colo_status") = Text(f[d].colo_status)
BY AtMap DEF Rec, RecordNode, Text, Number, Bool, Scalar

\* A scalar reads as its value.
LEMMA ScalarReads ==
  ASSUME NEW v
  PROVE  /\ as_T(Text(v)) = v /\ Converts(Text(v), "string")
         /\ as_T(Number(v)) = v /\ Converts(Number(v), "number")
         /\ as_T(Bool(v)) = v /\ Converts(Bool(v), "bool")
BY DEF as_T, IsNull, IsScalar, Converts, Text, Number, Bool, Scalar

\* Every reader can read every record.
LEMMA RecReads ==
  ASSUME NEW f, NEW d
  PROVE  /\ RecordReads(Rec(f, d)) /\ as_T(At(Rec(f, d), "name")) = d
         /\ as_T(At(Rec(f, d), "path")) = f[d].path /\ as_T(At(Rec(f, d), "pid")) = f[d].pid
         /\ as_T(At(Rec(f, d), "status")) = f[d].status
         /\ as_T(At(Rec(f, d), "colo_enable")) = f[d].colo_enable
         /\ as_T(At(Rec(f, d), "colo_status")) = f[d].colo_status
BY RecFields, ScalarReads DEF RecordReads

\* The list of a document that holds f in the order of s.
LEMMA ListOf ==
  ASSUME NEW doc, NEW s, NEW f, HoldsIn(doc, s, f)
  PROVE  /\ size(domains_of(doc)) = Len(s) /\ Len(s) \in Nat
         /\ \A i \in 1 .. Len(s) : Item(domains_of(doc), i) = Rec(f, s[i]) /\ s[i] \in Domain
         /\ \A x : Named(doc, x) = {i \in 1 .. Len(s) : s[i] = x}
         /\ NoList(doc) => s = << >>
         /\ ~WrongFormat(doc)
<1>1. Lists(domains_of(doc), s, f) /\ s \in Seq(Domain)
  BY DEF HoldsIn
<1>2. size(domains_of(doc)) = Len(s) /\ Len(s) \in Nat
  BY <1>1 DEF Lists, size, IsSequence, Sequence, Undefined, Null
<1>3. \A i \in 1 .. Len(s) : Item(domains_of(doc), i) = Rec(f, s[i]) /\ s[i] \in Domain
  BY <1>1 DEF Lists, Item, Sequence
<1>4. \A x : Named(doc, x) = {i \in 1 .. Len(s) : s[i] = x}
  <2>1. \A i \in 1 .. Len(s) : as_T(At(Item(domains_of(doc), i), "name")) = s[i]
    BY <1>3, RecReads
  <2> QED
    BY <1>2, <2>1 DEF Named
<1>5. (NoList(doc) => s = << >>) /\ ~WrongFormat(doc)
  BY <1>1 DEF Lists, NoList, WrongFormat, IsDefined, IsNull, IsSequence, Sequence, Undefined, Null
<1> QED
  BY <1>2, <1>3, <1>4, <1>5

\* A name is at one place at most.
LEMMA OneRecord ==
  ASSUME NEW doc, NEW s, NEW f, HoldsIn(doc, s, f), NEW x
  PROVE  /\ x \in Names(s) <=> Named(doc, x) # {}
         /\ \A i \in Named(doc, x) : Named(doc, x) = {i} /\ i \in 1 .. Len(s) /\ s[i] = x
<1>1. Named(doc, x) = {i \in 1 .. Len(s) : s[i] = x}
  BY ListOf
<1> QED
  BY <1>1 DEF HoldsIn, Distinct, Names

\* After an assignment to the list, that is the list.
LEMMA PutList ==
  ASSUME NEW doc, IsDoc(doc), NEW v, v.type \notin {"Zombie", "Throws"}
  PROVE  IsDoc(Put(doc, "domains", v)) /\ domains_of(Put(doc, "domains", v)) = v
<1>1. CASE doc = Null
  BY <1>1 DEF Put, Null, IsDoc, MapNode, domains_of, At, Get, Zombie
<1>2. CASE doc # Null
  <2>1. PICK pairs : doc = MapNode(pairs)
    BY <1>2 DEF IsDoc
  <2> DEFINE g == [k \in DOMAIN pairs \cup {"domains"} |-> IF k = "domains" THEN v ELSE pairs[k]]
  <2>2. Put(doc, "domains", v) = MapNode(g)
    BY <2>1 DEF Put, MapNode
  <2>3. At(MapNode(g), "domains") = g["domains"]
    <3>1. "domains" \in DOMAIN g /\ g["domains"] = v
      OBVIOUS
    <3> HIDE DEF g
    <3> QED
      BY <3>1, AtMap
  <2> QED
    BY <2>2, <2>3 DEF IsDoc, domains_of
<1> QED
  BY <1>1, <1>2

\* A list of records is put into a document.
LEMMA PutRecords ==
  ASSUME NEW doc, IsDoc(doc), NEW t \in Seq(Domain), Distinct(t), NEW g \in SaveContents,
         \A x \in Name : IF x \in Names(t) THEN g[x].saved ELSE g[x] = NotSaved,
         NEW node, node = Sequence([i \in 1 .. Len(t) |-> Rec(g, t[i])])
  PROVE  HoldsIn(Put(doc, "domains", node), t, g)
<1>1. node.type \notin {"Zombie", "Throws"}
  BY DEF Sequence
<1>2. IsDoc(Put(doc, "domains", node)) /\ domains_of(Put(doc, "domains", node)) = node
  BY <1>1, PutList
<1>3. Lists(node, t, g)
  BY DEF Lists
<1> QED
  BY <1>2, <1>3 DEF HoldsIn

(***************************************************************************)
(* ChangeFirst, when what it does to the fields is a change of the         *)
(* contents at d alone (the loops with a break in config_parser.cpp).      *)
(***************************************************************************)
LEMMA ChangeOne ==
  ASSUME NEW doc, NEW s, NEW f, HoldsIn(doc, s, f), NEW d \in Domain, NEW fields,
         NEW g \in SaveContents, \A x \in Name : x # d => g[x] = f[x],
         f[d].saved => g[d].saved /\ SetFields(Rec(f, d), fields) = Rec(g, d),
         ~f[d].saved => g = f
  PROVE  HoldsIn(ChangeFirst(doc, d, fields), s, g)
<1>1. d \in Name /\ (d \in Names(s) <=> f[d].saved)
  BY DEF HoldsIn, Name, NotSaved
<1>2. CASE Named(doc, d) = {}
  BY <1>1, <1>2, OneRecord DEF ChangeFirst
<1>3. CASE Named(doc, d) # {}
  <2>1. PICK i \in Named(doc, d) : Named(doc, d) = {i} /\ i \in 1 .. Len(s) /\ s[i] = d
    BY <1>3, OneRecord
  <2>2. (CHOOSE j \in Named(doc, d) : \A k \in Named(doc, d) : j <= k) = i
    BY <2>1
  <2>3. s \in Seq(Domain) /\ Len(s) \in Nat /\ Distinct(s) /\ IsDoc(doc)
    BY ListOf DEF HoldsIn
  <2>4. domains_of(doc) = Sequence([k \in 1 .. Len(s) |-> Rec(f, s[k])])
    BY <2>1 DEF HoldsIn, Lists
  <2>5. f[d].saved
    BY <1>1, <1>3, OneRecord
  <2> DEFINE old == [k \in 1 .. Len(s) |-> Rec(f, s[k])]
             new == [old EXCEPT ![i] = SetFields(@, fields)]
  <2>6. domains_of(doc).items = old
    BY <2>4 DEF Sequence
  <2>7. ChangeFirst(doc, d, fields) = Put(doc, "domains", Sequence(new))
    BY <1>3, <2>2, <2>6 DEF ChangeFirst
  <2>8. \A k \in 1 .. Len(s) : new[k] = Rec(g, s[k])
    <3> TAKE k \in 1 .. Len(s)
    <3>1. CASE k = i
      BY <2>1, <2>5, <3>1
    <3>2. CASE k # i
      <4>1. s[k] # d /\ s[k] \in Name
        BY <2>1, <2>3, <3>2 DEF Distinct, Name
      <4> QED
        BY <3>2, <4>1 DEF Rec
    <3> QED
      BY <3>1, <3>2
  <2>9. new = [k \in 1 .. Len(s) |-> Rec(g, s[k])]
    BY <2>8
  <2>10. \A x \in Name : IF x \in Names(s) THEN g[x].saved ELSE g[x] = NotSaved
    BY <1>1, <2>5 DEF HoldsIn
  <2> HIDE DEF new
  <2> QED
    BY <2>3, <2>7, <2>9, <2>10, PutRecords
<1> QED
  BY <1>2, <1>3

\* What the functions set in a record is what they set in the contents.
LEMMA Settings ==
  ASSUME NEW f \in SaveContents, NEW d \in Domain, f[d].saved
  PROVE  /\ \A pid : SetFields(Rec(f, d), [pid |-> Number(pid), status |-> Text("running")])
                        = Rec(save_domain_pid(f, d, pid), d)
         /\ SetFields(Rec(f, d), [pid |-> Number(NoPid), status |-> Text("shutoff")])
              = Rec(remove_domain_pid(f, d), d)
         /\ \A r : SetFields(Rec(f, d), [colo_enable |-> Bool(TRUE), colo_status |-> Text(r)])
                      = Rec(set_domain_colo_enable(f, d, r), d)
         /\ SetFields(Rec(f, d), [colo_enable |-> Bool(FALSE)])
              = Rec(set_domain_colo_disable(f, d), d)
<1>1. f[d] \in SavedDomain /\ d \in DOMAIN f
  BY DEF SaveContents, Name
<1>2. ASSUME NEW pid
      PROVE  SetFields(Rec(f, d), [pid |-> Number(pid), status |-> Text("running")])
               = Rec(save_domain_pid(f, d, pid), d)
  <2>1. save_domain_pid(f, d, pid)[d] = [f[d] EXCEPT !.pid = pid, !.status = "running"]
    BY <1>1 DEF save_domain_pid
  <2> QED
    BY <1>1, <2>1 DEF SavedDomain, SetFields, Rec, RecordNode, MapNode
<1>3. SetFields(Rec(f, d), [pid |-> Number(NoPid), status |-> Text("shutoff")])
        = Rec(remove_domain_pid(f, d), d)
  <2>1. remove_domain_pid(f, d)[d] = [f[d] EXCEPT !.pid = NoPid, !.status = "shutoff"]
    BY <1>1 DEF remove_domain_pid
  <2> QED
    BY <1>1, <2>1 DEF SavedDomain, SetFields, Rec, RecordNode, MapNode
<1>4. ASSUME NEW r
      PROVE  SetFields(Rec(f, d), [colo_enable |-> Bool(TRUE), colo_status |-> Text(r)])
               = Rec(set_domain_colo_enable(f, d, r), d)
  <2>1. set_domain_colo_enable(f, d, r)[d]
          = [f[d] EXCEPT !.colo_enable = TRUE, !.colo_status = r]
    BY <1>1 DEF set_domain_colo_enable
  <2> DEFINE h == set_domain_colo_enable(f, d, r)
  <2>2. /\ h[d].colo_enable = TRUE /\ h[d].colo_status = r /\ h[d].pid = f[d].pid
        /\ h[d].status = f[d].status /\ h[d].path = f[d].path
    BY <1>1, <2>1 DEF SavedDomain
  <2>3. Bool(h[d].colo_enable) = Bool(TRUE) /\ Text(h[d].path) = Text(f[d].path)
    BY <2>2, Zenon
  <2>4. Text(h[d].colo_status) = Text(r) /\ Text(h[d].status) = Text(f[d].status)
        /\ Number(h[d].pid) = Number(f[d].pid)
    BY <2>2, Zenon
  <2>5. \A e : SetFields(Rec(f, d), [colo_enable |-> e, colo_status |-> Text(r)])
          = RecordNode(Text(d), Text(f[d].path), Number(f[d].pid), Text(f[d].status), e, Text(r))
    BY DEF SetFields, MapNode, Rec, RecordNode
  <2>6. SetFields(Rec(f, d), [colo_enable |-> Bool(TRUE), colo_status |-> Text(r)])
          = RecordNode(Text(d), Text(f[d].path), Number(f[d].pid), Text(f[d].status),
                       Bool(TRUE), Text(r))
    BY <2>5, Zenon
  <2> QED
    BY <2>3, <2>4, <2>6 DEF Rec
<1>5. SetFields(Rec(f, d), [colo_enable |-> Bool(FALSE)]) = Rec(set_domain_colo_disable(f, d), d)
  <2>1. set_domain_colo_disable(f, d)[d] = [f[d] EXCEPT !.colo_enable = FALSE]
    BY <1>1 DEF set_domain_colo_disable
  <2> DEFINE h == set_domain_colo_disable(f, d)
  <2>2. /\ h[d].colo_enable = FALSE /\ h[d].colo_status = f[d].colo_status
        /\ h[d].pid = f[d].pid /\ h[d].status = f[d].status /\ h[d].path = f[d].path
    BY <1>1, <2>1 DEF SavedDomain
  <2>3. Bool(h[d].colo_enable) = Bool(FALSE) /\ Text(h[d].path) = Text(f[d].path)
    BY <2>2, Zenon
  <2>4. Text(h[d].colo_status) = Text(f[d].colo_status) /\ Text(h[d].status) = Text(f[d].status)
        /\ Number(h[d].pid) = Number(f[d].pid)
    BY <2>2, Zenon
  <2>5. \A e : SetFields(Rec(f, d), [colo_enable |-> e])
          = RecordNode(Text(d), Text(f[d].path), Number(f[d].pid), Text(f[d].status), e,
                       Text(f[d].colo_status))
    BY DEF SetFields, MapNode, Rec, RecordNode
  <2>6. SetFields(Rec(f, d), [colo_enable |-> Bool(FALSE)])
          = RecordNode(Text(d), Text(f[d].path), Number(f[d].pid), Text(f[d].status),
                       Bool(FALSE), Text(f[d].colo_status))
    BY <2>5, Zenon
  <2> QED
    BY <2>3, <2>4, <2>6 DEF Rec
<1> QED
  BY <1>2, <1>3, <1>4, <1>5

\* The contents after define or peer-save-domain has written the domain d.
Saved(f, d, p) == save_domain_info(f, [ZeroEntry EXCEPT !.name = d, !.path = p])

\* A define changes the record of its domain and no other.
LEMMA SavedContents ==
  ASSUME NEW f \in SaveContents, NEW d \in Domain, NEW p \in BOOLEAN
  PROVE  /\ Saved(f, d, p) \in SaveContents /\ Saved(f, d, p)[d].saved
         /\ \A x \in Name : x # d => Saved(f, d, p)[x] = f[x]
         /\ NewRecord(d, p) = Rec(Saved(f, d, p), d)
<1> DEFINE r == [saved |-> TRUE, pid |-> NoPid, status |-> "shutoff", colo_enable |-> FALSE,
                 colo_status |-> "none", path |-> p]
<1>1. Saved(f, d, p) = [f EXCEPT ![d] = r]
  BY DEF Saved, save_domain_info, ZeroEntry
<1>2. r \in SavedDomain
  BY DEF SavedDomain, COLO_DOMAIN_STATUS
<1>3. d \in Name /\ f \in [Name -> SavedDomain]
  BY DEF Name, SaveContents
<1>4. Saved(f, d, p)[d] = r /\ Saved(f, d, p) \in SaveContents
  BY <1>1, <1>2, <1>3 DEF SaveContents
<1>5. r.path = p /\ r.pid = NoPid /\ r.status = "shutoff" /\ r.colo_enable = FALSE
      /\ r.colo_status = "none" /\ r.saved
  OBVIOUS
<1>6. \A x \in Name : x # d => Saved(f, d, p)[x] = f[x]
  BY <1>1, <1>3
<1>7. Bool(r.colo_enable) = Bool(FALSE) /\ Text(r.path) = Text(p)
  BY <1>5, Zenon
<1> HIDE DEF r
<1>8. Rec(Saved(f, d, p), d) = RecordNode(Text(d), Text(p), Number(NoPid), Text("shutoff"),
                                          Bool(FALSE), Text("none"))
  BY <1>4, <1>5, <1>7 DEF Rec
<1> QED
  BY <1>4, <1>5, <1>6, <1>8 DEF NewRecord, RecordNode

\* A name more.
LEMMA AppendName ==
  ASSUME NEW t \in Seq(Domain), Distinct(t), NEW d \in Domain, d \notin Names(t)
  PROVE  /\ Append(t, d) \in Seq(Domain) /\ Append(t, d) # << >> /\ Distinct(Append(t, d))
         /\ Names(Append(t, d)) = Names(t) \cup {d}
<1> DEFINE u == Append(t, d)
<1>1. /\ u \in Seq(Domain) /\ Len(u) = Len(t) + 1 /\ Len(t) \in Nat
      /\ u[Len(t) + 1] = d /\ \A i \in 1 .. Len(t) : u[i] = t[i]
  OBVIOUS
<1> HIDE DEF u
<1>2. u # << >> /\ Distinct(u)
  BY <1>1 DEF Distinct, Names
<1>3. Names(u) = Names(t) \cup {d}
  BY <1>1 DEF Names
<1> QED
  BY <1>1, <1>2, <1>3 DEF u

\* push_back of its record puts it at the end of the list.
LEMMA PushRecord ==
  ASSUME NEW t \in Seq(Domain), NEW d \in Domain, NEW g, NEW node, Lists(node, t, g)
  PROVE  push_back(node, Rec(g, d))
           = Sequence([i \in 1 .. Len(Append(t, d)) |-> Rec(g, Append(t, d)[i])])
<1> DEFINE u == Append(t, d)
<1>1. /\ Len(u) = Len(t) + 1 /\ Len(t) \in Nat /\ u[Len(t) + 1] = d
      /\ \A i \in 1 .. Len(t) : u[i] = t[i]
  OBVIOUS
<1> HIDE DEF u
<1>2. CASE t = << >> /\ node \in {Undefined, Null}
  <2>1. push_back(node, Rec(g, d)) = Sequence(<<Rec(g, d)>>)
    BY <1>2 DEF push_back, Undefined, Null
  <2>2. <<Rec(g, d)>> = [i \in 1 .. Len(u) |-> Rec(g, u[i])]
    BY <1>1, <1>2
  <2> QED
    BY <2>1, <2>2 DEF u
<1>3. CASE node = Sequence([i \in 1 .. Len(t) |-> Rec(g, t[i])])
  <2> DEFINE items == [i \in 1 .. Len(t) |-> Rec(g, t[i])]
  <2>1. push_back(node, Rec(g, d)) = Sequence(Append(items, Rec(g, d)))
    BY <1>3 DEF push_back, Sequence
  <2>2. items \in Seq({Rec(g, t[i]) : i \in 1 .. Len(t)}) /\ Len(items) = Len(t)
    BY <1>1
  <2>3. \A i \in 1 .. Len(u) : Append(items, Rec(g, d))[i] = Rec(g, u[i])
    BY <1>1, <2>2
  <2>4. Append(items, Rec(g, d)) = [i \in 1 .. Len(u) |-> Rec(g, u[i])]
    BY <1>1, <2>2, <2>3
  <2> QED
    BY <2>1, <2>4 DEF u
<1> QED
  BY <1>2, <1>3 DEF Lists

\* save_domain_info: the record of that name is replaced, or a new one is added.
LEMMA SaveInfo ==
  ASSUME NEW doc, NEW s, NEW f, HoldsIn(doc, s, f), NEW d \in Domain, NEW p \in BOOLEAN
  PROVE  Holds(list_save_domain_info(doc, d, p), Saved(f, d, p))
<1> DEFINE g   == Saved(f, d, p)
           new == NewRecord(d, p)
<1>1. /\ s \in Seq(Domain) /\ Len(s) \in Nat /\ Distinct(s) /\ IsDoc(doc) /\ f \in SaveContents
      /\ \A x \in Name : IF x \in Names(s) THEN f[x].saved ELSE f[x] = NotSaved
  BY ListOf DEF HoldsIn
<1>2. /\ g \in SaveContents /\ g[d].saved /\ new = Rec(g, d)
      /\ \A x \in Name : x # d => g[x] = f[x]
  BY <1>1, SavedContents
<1> HIDE DEF g, new
<1>3. \A i \in 1 .. Len(s) : s[i] \in Name /\ (s[i] # d => Rec(f, s[i]) = Rec(g, s[i]))
  BY <1>1, <1>2 DEF Rec, Name
<1>4. CASE Named(doc, d) = {}
  <2> DEFINE t    == Append(s, d)
             node == push_back(domains_of(doc), new)
  <2>1. d \notin Names(s)
    BY <1>4, OneRecord
  <2>2. /\ t \in Seq(Domain) /\ Distinct(t) /\ Names(t) = Names(s) \cup {d}
    BY <1>1, <2>1, AppendName
  <2>3. \A x \in Name : IF x \in Names(t) THEN g[x].saved ELSE g[x] = NotSaved
    BY <1>1, <1>2, <2>2
  <2>4. \A i \in 1 .. Len(s) : Rec(f, s[i]) = Rec(g, s[i])
    BY <1>3, <2>1 DEF Names
  <2>5. Lists(domains_of(doc), s, g)
    BY <2>4 DEF HoldsIn, Lists
  <2>6. node = Sequence([i \in 1 .. Len(t) |-> Rec(g, t[i])])
    BY <1>1, <1>2, <2>5, PushRecord
  <2>7. list_save_domain_info(doc, d, p) = Put(doc, "domains", node)
    BY <1>4 DEF list_save_domain_info, new
  <2> HIDE DEF node, t
  <2>8. HoldsIn(list_save_domain_info(doc, d, p), t, g)
    BY <1>1, <1>2, <2>2, <2>3, <2>6, <2>7, PutRecords
  <2> QED
    BY <2>8 DEF Holds, g
<1>5. CASE Named(doc, d) # {}
  <2>1. d \in Names(s) /\ ~NoList(doc)
    BY <1>5, OneRecord, ListOf
  <2> DEFINE items == [i \in 1 .. size(domains_of(doc)) |->
                         IF i \in Named(doc, d) THEN new ELSE Item(domains_of(doc), i)]
  <2>2. list_save_domain_info(doc, d, p) = Put(doc, "domains", Sequence(items))
    BY <1>5, <2>1 DEF list_save_domain_info, new
  <2>3. items = [i \in 1 .. Len(s) |-> Rec(g, s[i])]
    <3>1. \A i \in 1 .. Len(s) : i \in Named(doc, d) <=> s[i] = d
      BY ListOf
    <3> QED
      BY <1>2, <1>3, <3>1, ListOf
  <2>4. \A x \in Name : IF x \in Names(s) THEN g[x].saved ELSE g[x] = NotSaved
    BY <1>1, <1>2, <2>1
  <2> HIDE DEF items
  <2> QED
    BY <1>1, <1>2, <2>2, <2>3, <2>4, PutRecords DEF Holds, g
<1> QED
  BY <1>4, <1>5

-----------------------------------------------------------------------------
(***************************************************************************)
(* Induction on the numbers, for a set of them: from the theorem of the    *)
(* library that every set of numbers that is not empty has a least one.    *)
(***************************************************************************)
LEMMA NatSetInduction ==
  ASSUME NEW S, 0 \in S, \A n \in Nat : n \in S => n + 1 \in S
  PROVE  Nat \subseteq S
<1> DEFINE R == OpToRel(<, Nat)
           T == Nat \ S
<1>1. IsWellFoundedOn(R, Nat)
  BY NatLessThanWellFounded
<1>2. \A x, y \in Nat : x < y => <<x, y>> \in R
  BY DEF OpToRel
<1>3. SUFFICES ASSUME T # {}
               PROVE  FALSE
  OBVIOUS
<1>4. T \subseteq Nat
  OBVIOUS
<1> HIDE DEF R, T
<1>5. PICK x \in T : \A y \in T : ~(<<y, x>> \in R)
  BY <1>1, <1>3, <1>4, WFMin
<1>6. x \in Nat /\ x # 0 /\ x - 1 \in T
  BY DEF T
<1>7. <<x - 1, x>> \in R
  BY <1>2, <1>6
<1> QED
  BY <1>5, <1>6, <1>7

\* The loop of vm_undefine up to each position: what it has pushed.
Pushed(doc, d, h, i) ==
  IF i = 0 THEN Null
  ELSE IF i \in Named(doc, d) THEN h[i - 1] ELSE push_back(h[i - 1], Item(domains_of(doc), i))

\* The loop of vm_undefine over the items is a function, for any number of items.
LEMMA LoopExists ==
  ASSUME NEW doc, NEW d
  PROVE  \A n \in Nat : \E h : h = [i \in 0 .. n |-> Pushed(doc, d, h, i)]
<1> DEFINE S == {n \in Nat : \E h : h = [i \in 0 .. n |-> Pushed(doc, d, h, i)]}
<1>1. 0 \in S
  <2> DEFINE h == [i \in 0 .. 0 |-> Null]
  <2>1. h = [i \in 0 .. 0 |-> Null]
    OBVIOUS
  <2> HIDE DEF h
  <2>2. \A i \in 0 .. 0 : Pushed(doc, d, h, i) = Null
    BY DEF Pushed
  <2>3. h = [i \in 0 .. 0 |-> Pushed(doc, d, h, i)]
    BY <2>1, <2>2
  <2> QED
    BY <2>3
<1>2. ASSUME NEW n \in Nat, n \in S
      PROVE  n + 1 \in S
  <2>1. PICK h : h = [i \in 0 .. n |-> Pushed(doc, d, h, i)]
    BY <1>2
  <2> DEFINE g == [i \in 0 .. n + 1 |-> IF i <= n THEN h[i] ELSE Pushed(doc, d, h, i)]
  <2>2. ASSUME NEW i \in 0 .. n + 1
        PROVE  g[i] = Pushed(doc, d, g, i)
    <3>1. i # 0 => i - 1 \in 0 .. n + 1 /\ i - 1 <= n /\ g[i - 1] = h[i - 1]
      <4>1. i # 0 => i - 1 \in 0 .. n + 1 /\ i - 1 <= n
        OBVIOUS
      <4> QED
        BY <4>1
    <3>2. i \in 0 .. n => h[i] = Pushed(doc, d, h, i)
      BY <2>1
    <3>3. g[i] = Pushed(doc, d, h, i)
      BY <3>2
    <3> HIDE DEF g
    <3>4. Pushed(doc, d, g, i) = Pushed(doc, d, h, i)
      BY <3>1 DEF Pushed
    <3> QED
      BY <3>3, <3>4
  <2>3. g = [i \in 0 .. n + 1 |-> Pushed(doc, d, g, i)]
    BY <2>2
  <2> HIDE DEF g
  <2> QED
    BY <2>3
<1> HIDE DEF S
<1>3. Nat \subseteq S
  BY <1>1, <1>2, NatSetInduction
<1> QED
  BY <1>3 DEF S

\* vm_undefine: the other records are left, in their order.
LEMMA Undefine ==
  ASSUME NEW doc, NEW s, NEW f, HoldsIn(doc, s, f), NEW d \in Domain, HasDomain(doc, d)
  PROVE  Holds(list_vm_undefine(doc, d), vm_undefine(f, d))
<1> DEFINE domains[i \in 0 .. size(domains_of(doc))] ==
             IF i = 0 THEN Null
             ELSE IF i \in Named(doc, d) THEN domains[i - 1]
             ELSE push_back(domains[i - 1], Item(domains_of(doc), i))
           g == vm_undefine(f, d)
           Left(t, i) == /\ t \in Seq(Domain) /\ Distinct(t)
                         /\ Names(t) = {s[j] : j \in 1 .. i} \ {d}
                         /\ domains[i] = IF t = << >> THEN Null
                                         ELSE Sequence([k \in 1 .. Len(t) |-> Rec(g, t[k])])
           S == {i \in Nat : i <= Len(s) => \E t : Left(t, i)}
<1>1. list_vm_undefine(doc, d) = Put(doc, "domains", domains[Len(s)])
  BY ListOf DEF list_vm_undefine, HasDomain
<1>2. domains = [i \in 0 .. Len(s) |-> Pushed(doc, d, domains, i)]
  <2>1. size(domains_of(doc)) = Len(s) /\ size(domains_of(doc)) \in Nat
    BY ListOf
  <2>2. \E h : h = [i \in 0 .. size(domains_of(doc)) |-> Pushed(doc, d, h, i)]
    BY <2>1, LoopExists, Zenon
  <2>3. domains = [i \in 0 .. size(domains_of(doc)) |-> Pushed(doc, d, domains, i)]
    BY <2>2 DEF Pushed
  <2> HIDE DEF domains
  <2> QED
    BY <2>1, <2>3
<1> HIDE DEF domains
<1>3. /\ s \in Seq(Domain) /\ Len(s) \in Nat /\ Distinct(s) /\ IsDoc(doc) /\ f \in SaveContents
      /\ \A x \in Name : IF x \in Names(s) THEN f[x].saved ELSE f[x] = NotSaved
  BY ListOf DEF HoldsIn
<1>4. g \in SaveContents /\ g[d] = NotSaved /\ \A x \in Name : x # d => g[x] = f[x]
  <2>1. NotSaved \in SavedDomain
    BY DEF NotSaved, SavedDomain, COLO_DOMAIN_STATUS
  <2> QED
    BY <1>3, <2>1 DEF vm_undefine, SaveContents, Name
<1> HIDE DEF g, Left
<1>5. 0 \in S
  <2>1. Left(<< >>, 0)
    BY <1>2, <1>3 DEF Pushed, Distinct, Names, Left
  <2> QED
    BY <2>1
<1>6. ASSUME NEW i \in Nat, i \in S
      PROVE  i + 1 \in S
  <2> SUFFICES ASSUME i + 1 <= Len(s)
               PROVE  \E t : Left(t, i + 1)
    OBVIOUS
  <2>1. PICK t : Left(t, i)
    BY <1>3, <1>6
  <2>2. /\ domains[i + 1] = IF s[i + 1] = d THEN domains[i]
                            ELSE push_back(domains[i], Rec(f, s[i + 1]))
        /\ s[i + 1] \in Domain
    <3>1. i + 1 \in 1 .. Len(s) /\ i + 1 \in 0 .. Len(s) /\ i + 1 # 0 /\ (i + 1) - 1 = i
      BY <1>3
    <3>2. i + 1 \in Named(doc, d) <=> s[i + 1] = d
      BY <3>1, ListOf
    <3>3. Item(domains_of(doc), i + 1) = Rec(f, s[i + 1]) /\ s[i + 1] \in Domain
      BY <3>1, ListOf
    <3>4. domains[i + 1] = Pushed(doc, d, domains, i + 1)
      BY <1>2, <3>1
    <3> QED
      BY <3>1, <3>2, <3>3, <3>4 DEF Pushed
  <2>3. {s[j] : j \in 1 .. i + 1} = {s[j] : j \in 1 .. i} \cup {s[i + 1]}
    BY <1>3
  <2>4. CASE s[i + 1] = d
    <3>1. Left(t, i + 1)
      BY <2>1, <2>2, <2>3, <2>4 DEF Left
    <3> QED
      BY <3>1
  <2>5. CASE s[i + 1] # d
    <3> DEFINE u == Append(t, s[i + 1])
    <3>1. s[i + 1] \notin Names(t)
      BY <1>3, <2>1 DEF Distinct, Left
    <3>2. u \in Seq(Domain) /\ u # << >> /\ Distinct(u) /\ Names(u) = Names(t) \cup {s[i + 1]}
      BY <2>1, <2>2, <3>1, AppendName DEF Left
    <3>3. Rec(f, s[i + 1]) = Rec(g, s[i + 1])
      BY <1>4, <2>2, <2>5 DEF Rec, Name
    <3>4. Lists(domains[i], t, g)
      BY <2>1 DEF Lists, Left
    <3>5. push_back(domains[i], Rec(g, s[i + 1]))
            = Sequence([k \in 1 .. Len(u) |-> Rec(g, u[k])])
      BY <2>1, <2>2, <3>4, PushRecord DEF Left
    <3> HIDE DEF u
    <3>6. Left(u, i + 1)
      BY <2>1, <2>2, <2>3, <2>5, <3>2, <3>3, <3>5 DEF Left
    <3> QED
      BY <3>6
  <2> QED
    BY <2>4, <2>5
<1> HIDE DEF S
<1>7. Nat \subseteq S
  BY <1>5, <1>6, NatSetInduction
<1>8. PICK t : Left(t, Len(s))
  BY <1>3, <1>7 DEF S
<1>9. /\ t \in Seq(Domain) /\ Distinct(t) /\ Names(t) = Names(s) \ {d}
      /\ domains[Len(s)] = IF t = << >> THEN Null
                           ELSE Sequence([k \in 1 .. Len(t) |-> Rec(g, t[k])])
  BY <1>8 DEF Left, Names
<1>10. \A x \in Name : IF x \in Names(t) THEN g[x].saved ELSE g[x] = NotSaved
  BY <1>3, <1>4, <1>9
<1>11. CASE t = << >>
  <2>1. Null.type \notin {"Zombie", "Throws"}
    BY DEF Null
  <2>2. /\ IsDoc(Put(doc, "domains", Null))
        /\ domains_of(Put(doc, "domains", Null)) = Null
    BY <1>3, <2>1, PutList
  <2>3. HoldsIn(Put(doc, "domains", Null), t, g)
    BY <1>4, <1>9, <1>10, <1>11, <2>2 DEF HoldsIn, Lists
  <2> QED
    BY <1>1, <1>9, <1>11, <2>3 DEF Holds, g
<1>12. CASE t # << >>
  <2>1. HoldsIn(Put(doc, "domains", domains[Len(s)]), t, g)
    BY <1>3, <1>4, <1>9, <1>10, <1>12, PutRecords
  <2> QED
    BY <1>1, <2>1 DEF Holds, g
<1> QED
  BY <1>11, <1>12

-----------------------------------------------------------------------------
\* The addresses are written beside the list.
LEMMA SaveAddresses ==
  ASSUME NEW doc, NEW s, NEW f, HoldsIn(doc, s, f), NEW addr
  PROVE  HoldsIn(save_colo_status(doc, addr), s, f)
<1> DEFINE v   == MapNode([k \in AddressKeys |-> Text(addr)])
           new == save_colo_status(doc, addr)
<1>1. IsDoc(new) /\ domains_of(new) = domains_of(doc)
  <2>1. CASE doc = Null
    <3>1. new = MapNode([k \in {"save_status"} |-> v])
      BY <2>1 DEF save_colo_status, Put, Null, MapNode
    <3> HIDE DEF v, new
    <3> QED
      BY <2>1, <3>1 DEF IsDoc, domains_of, At, Get, MapNode, Null, Zombie
  <2>2. CASE doc # Null
    <3>1. PICK pairs : doc = MapNode(pairs)
      BY <2>2 DEF IsDoc, HoldsIn
    <3>2. new = MapNode([k \in DOMAIN pairs \cup {"save_status"} |->
                           IF k = "save_status" THEN v ELSE pairs[k]])
      BY <3>1 DEF save_colo_status, Put, MapNode
    <3> HIDE DEF v, new
    <3> QED
      BY <3>1, <3>2 DEF IsDoc, domains_of, At, Get, MapNode
  <2> QED
    BY <2>1, <2>2
<1> HIDE DEF new
<1> QED
  BY <1>1 DEF HoldsIn, new

\* (The provers take the fields of a record one by one.)
SavedRec(pid, status, colo_enable, colo_status, path) ==
  [saved |-> TRUE, pid |-> pid, status |-> status, colo_enable |-> colo_enable,
   colo_status |-> colo_status, path |-> path]
LoadedRec(name, pid, colo_enable, colo_status) ==
  [name |-> name, pid |-> pid, status |-> "shutoff", colo_enable |-> colo_enable,
   colo_status |-> colo_status, path |-> FALSE]

\* The entry by name is what the reader of a record makes of the only one there is.
LEMMA ImageIsContents ==
  ASSUME NEW doc, NEW s, NEW f, HoldsIn(doc, s, f)
  PROVE  Image(doc) = f
<1>1. ASSUME NEW x \in Name, Named(doc, x) = {}
      PROVE  f[x] = NotSaved
  BY <1>1, OneRecord DEF HoldsIn
<1>2. ASSUME NEW x \in Name, NEW i \in Named(doc, x)
      PROVE  LET n == Item(domains_of(doc), i)
             IN f[x] = SavedRec(as_T(At(n, "pid")), as_T(At(n, "status")), as_T(At(n, "colo_enable")),
                                as_T(At(n, "colo_status")), as_T(At(n, "path")))
  <2>1. Item(domains_of(doc), i) = Rec(f, x)
    BY OneRecord, ListOf
  <2>2. f[x] \in SavedDomain /\ f[x].saved
    BY OneRecord DEF HoldsIn, SaveContents
  <2>3. f[x] = SavedRec(f[x].pid, f[x].status, f[x].colo_enable, f[x].colo_status, f[x].path)
    BY <2>2 DEF SavedDomain, SavedRec
  <2> QED
    BY <2>1, <2>3, RecReads
<1>3. \A x \in Name : Named(doc, x) # {} => (CHOOSE i \in Named(doc, x) : TRUE) \in Named(doc, x)
  OBVIOUS
<1>4. f = [x \in Name |-> f[x]]
  BY DEF HoldsIn, SaveContents
<1>5. \A x \in Name : Image(doc)[x] = f[x]
  BY <1>1, <1>2, <1>3 DEF Image, SavedRec
<1> QED
  BY <1>4, <1>5 DEF Image

\* domains_init reads from the list what it would read by name.
LEMMA InitReadsContents ==
  ASSUME NEW doc, NEW s, NEW f, HoldsIn(doc, s, f)
  PROVE  list_domains_init(doc) = domains_init(f)
<1>1. ASSUME NEW x \in Name
      PROVE  list_domains_init(doc)[x] = domains_init(f)[x]
  <2>1. CASE Named(doc, x) = {}
    <3>1. ~f[x].saved
      <4>1. f[x] = NotSaved
        BY <2>1, OneRecord DEF HoldsIn
      <4> QED
        BY <4>1 DEF NotSaved
    <3>2. list_domains_init(doc)[x] = ZeroEntry
      BY <2>1 DEF list_domains_init
    <3> QED
      BY <3>1, <3>2 DEF domains_init
  <2>2. CASE Named(doc, x) # {}
    <3>1. PICK i \in Named(doc, x) : Named(doc, x) = {i} /\ i \in 1 .. Len(s) /\ s[i] = x
      BY <2>2, OneRecord
    <3>2. (CHOOSE k \in Named(doc, x) : \A j \in Named(doc, x) : j <= k) = i
      BY <3>1
    <3>3. ~NoList(doc) /\ f[x].saved /\ Item(domains_of(doc), i) = Rec(f, x)
      BY <3>1, ListOf, OneRecord DEF HoldsIn
    <3>4. list_domains_init(doc)[x] = ListEntry(Rec(f, x))
      BY <2>2, <3>2, <3>3 DEF list_domains_init
    <3>5. domains_init(f)[x] = LoadedRec(x, f[x].pid, f[x].colo_enable, f[x].colo_status)
      BY <3>3 DEF domains_init, LoadedRec
    <3>6. ListEntry(Rec(f, x)) = LoadedRec(x, f[x].pid, f[x].colo_enable, f[x].colo_status)
      <4>1. ListEntry(Rec(f, x))
              = LoadedRec(as_T(At(Rec(f, x), "name")), as_T(At(Rec(f, x), "pid")),
                          as_T(At(Rec(f, x), "colo_enable")), as_T(At(Rec(f, x), "colo_status")))
        BY DEF ListEntry, LoadedRec
      <4> QED
        BY <4>1, RecReads
    <3> QED
      BY <3>4, <3>5, <3>6
  <2> QED
    BY <2>1, <2>2
<1> QED
  BY <1>1 DEF list_domains_init, domains_init

\* The new installation and the file of a write that was cut short hold nothing.
LEMMA EmptyHolds == Holds(Shipped, EmptySave) /\ Holds(Null, EmptySave)
<1>1. IsDoc(Shipped) /\ domains_of(Shipped) = Null
  <2>1. PICK x, y : Shipped = MapNode([save_status |-> x, domains |-> y]) /\ y = Null
    BY DEF Shipped
  <2> QED
    BY <2>1 DEF IsDoc, domains_of, At, Get, MapNode, Null, Zombie
<1>2. IsDoc(Null) /\ domains_of(Null) = Undefined
  BY DEF IsDoc, domains_of, At, Get, Null, Zombie
<1>3. EmptySave \in SaveContents /\ \A x \in Name : EmptySave[x] = NotSaved
  BY DEF EmptySave, SaveContents, NotSaved, SavedDomain, COLO_DOMAIN_STATUS
<1>4. << >> \in Seq(Domain) /\ Distinct(<< >>) /\ Names(<< >>) = {}
  BY DEF Distinct, Names
<1>5. HoldsIn(Shipped, << >>, EmptySave) /\ HoldsIn(Null, << >>, EmptySave)
  BY <1>1, <1>2, <1>3, <1>4 DEF HoldsIn, Lists
<1> QED
  BY <1>5 DEF Holds

-----------------------------------------------------------------------------
\* What a handler does to the contents is a step of the abstract save file, or none.
Promised(f, g) == g = f \/ Promise!Changes(f, g)

\* Setting fields of the first record of the name.
LEMMA SettingHolds ==
  ASSUME NEW doc, NEW f, Holds(doc, f), NEW d \in Domain
  PROVE  /\ \A pid \in Pid : Holds(list_save_domain_pid(doc, d, pid), save_domain_pid(f, d, pid))
         /\ Holds(list_remove_domain_pid(doc, d), remove_domain_pid(f, d))
         /\ \A r \in {"primary", "secondary"} :
              Holds(list_set_domain_colo_enable(doc, d, r), set_domain_colo_enable(f, d, r))
         /\ Holds(list_set_domain_colo_disable(doc, d), set_domain_colo_disable(f, d))
<1>1. PICK s : HoldsIn(doc, s, f)
  BY DEF Holds
<1>2. f \in [Name -> SavedDomain] /\ d \in Name /\ f[d] \in SavedDomain
  BY <1>1 DEF HoldsIn, SaveContents, Name
<1>3. ASSUME NEW pid \in Pid
      PROVE  Holds(list_save_domain_pid(doc, d, pid), save_domain_pid(f, d, pid))
  <2> DEFINE g == save_domain_pid(f, d, pid)
  <2>1. g \in SaveContents /\ \A x \in Name : x # d => g[x] = f[x]
    BY <1>2 DEF save_domain_pid, SaveContents, SavedDomain
  <2>2. (f[d].saved => g[d].saved) /\ (~f[d].saved => g = f)
    BY <1>2 DEF save_domain_pid, SavedDomain
  <2>3. f[d].saved => SetFields(Rec(f, d), [pid |-> Number(pid), status |-> Text("running")])
                        = Rec(g, d)
    BY <1>2, Settings DEF SaveContents
  <2> HIDE DEF g
  <2>4. HoldsIn(list_save_domain_pid(doc, d, pid), s, g)
    BY <1>1, <2>1, <2>2, <2>3, ChangeOne DEF list_save_domain_pid
  <2> QED
    BY <2>4 DEF Holds, g
<1>4. Holds(list_remove_domain_pid(doc, d), remove_domain_pid(f, d))
  <2> DEFINE g == remove_domain_pid(f, d)
  <2>1. g \in SaveContents /\ \A x \in Name : x # d => g[x] = f[x]
    BY <1>2 DEF remove_domain_pid, SaveContents, SavedDomain
  <2>2. (f[d].saved => g[d].saved) /\ (~f[d].saved => g = f)
    BY <1>2 DEF remove_domain_pid, SavedDomain
  <2>3. f[d].saved => SetFields(Rec(f, d), [pid |-> Number(NoPid), status |-> Text("shutoff")])
                        = Rec(g, d)
    BY <1>2, Settings DEF SaveContents
  <2> HIDE DEF g
  <2>4. HoldsIn(list_remove_domain_pid(doc, d), s, g)
    BY <1>1, <2>1, <2>2, <2>3, ChangeOne DEF list_remove_domain_pid
  <2> QED
    BY <2>4 DEF Holds, g
<1>5. ASSUME NEW r \in {"primary", "secondary"}
      PROVE  Holds(list_set_domain_colo_enable(doc, d, r), set_domain_colo_enable(f, d, r))
  <2> DEFINE g == set_domain_colo_enable(f, d, r)
  <2>1. g \in SaveContents /\ \A x \in Name : x # d => g[x] = f[x]
    BY <1>2 DEF set_domain_colo_enable, SaveContents, SavedDomain, COLO_DOMAIN_STATUS
  <2>2. (f[d].saved => g[d].saved) /\ (~f[d].saved => g = f)
    BY <1>2 DEF set_domain_colo_enable, SavedDomain
  <2>3. f[d].saved => SetFields(Rec(f, d), [colo_enable |-> Bool(TRUE), colo_status |-> Text(r)])
                        = Rec(g, d)
    BY <1>2, Settings DEF SaveContents
  <2> HIDE DEF g
  <2>4. HoldsIn(list_set_domain_colo_enable(doc, d, r), s, g)
    BY <1>1, <2>1, <2>2, <2>3, ChangeOne DEF list_set_domain_colo_enable
  <2> QED
    BY <2>4 DEF Holds, g
<1>6. Holds(list_set_domain_colo_disable(doc, d), set_domain_colo_disable(f, d))
  <2> DEFINE g == set_domain_colo_disable(f, d)
  <2>1. g \in SaveContents /\ \A x \in Name : x # d => g[x] = f[x]
    BY <1>2 DEF set_domain_colo_disable, SaveContents, SavedDomain
  <2>2. (f[d].saved => g[d].saved) /\ (~f[d].saved => g = f)
    BY <1>2 DEF set_domain_colo_disable, SavedDomain
  <2>3. f[d].saved => SetFields(Rec(f, d), [colo_enable |-> Bool(FALSE)]) = Rec(g, d)
    BY <1>2, Settings DEF SaveContents
  <2> HIDE DEF g
  <2>4. HoldsIn(list_set_domain_colo_disable(doc, d), s, g)
    BY <1>1, <2>1, <2>2, <2>3, ChangeOne DEF list_set_domain_colo_disable
  <2> QED
    BY <2>4 DEF Holds, g
<1> QED
  BY <1>3, <1>4, <1>5, <1>6

\* colo-enable and colo-disable are refused by the list as by the contents.
LEMMA MaySetAgrees ==
  ASSUME NEW doc, NEW f, Holds(doc, f), NEW d \in Domain
  PROVE  ListMaySetColo(doc, d) <=> MaySetColo(f, d)
<1>1. PICK s : HoldsIn(doc, s, f)
  BY DEF Holds
<1>2. f[d].saved <=> Named(doc, d) # {}
  <2>1. d \in Name /\ (d \in Names(s) <=> Named(doc, d) # {})
    BY <1>1, OneRecord DEF Name
  <2> QED
    BY <1>1, <2>1 DEF HoldsIn, NotSaved
<1>3. \A i \in Named(doc, d) : Item(domains_of(doc), i) = Rec(f, d)
  BY <1>1, OneRecord, ListOf
<1>4. \A i \in Named(doc, d) : as_T(At(Item(domains_of(doc), i), "status")) = f[d].status
  BY <1>3, RecReads
<1> QED
  BY <1>2, <1>4 DEF ListMaySetColo, MaySetColo

(***************************************************************************)
(* Every document a handler writes over one that holds f holds contents    *)
(* that one function of SaveFile makes of f, or f.                         *)
(***************************************************************************)
LEMMA WrittenHolds ==
  ASSUME NEW f, Holds(disk, f), NEW d \in Domain, NEW function,
         NEW doc \in Written(function, d)
  PROVE  \E g : Holds(doc, g) /\ Promised(f, g)
<1>1. d \in Name
  BY DEF Name
<1>2. PICK s : HoldsIn(disk, s, f)
  BY DEF Holds
<1>3. CASE function \in {"define", "peer-save-domain"}
  <2>1. PICK p \in BOOLEAN : doc = list_save_domain_info(disk, d, p)
    BY <1>3 DEF Written
  <2>2. Holds(doc, Saved(f, d, p))
    BY <1>2, <2>1, SaveInfo
  <2>3. Promise!Changes(f, Saved(f, d, p))
    BY <1>1 DEF Promise!Changes, Promise!Name, Name, Promise!save_domain_info, Saved, save_domain_info,
               ZeroEntry, Promise!ZeroEntry,
               Promise!NoPid, NoPid, Promise!ZeroPid, ZeroPid
  <2> QED
    BY <2>2, <2>3 DEF Promised
<1>4. CASE function = "undefine"
  <2>1. HasDomain(disk, d) /\ doc = list_vm_undefine(disk, d)
    BY <1>4 DEF Written
  <2>2. Holds(doc, vm_undefine(f, d))
    BY <1>2, <2>1, Undefine
  <2>3. Promise!Changes(f, vm_undefine(f, d))
    BY <1>1 DEF Promise!Changes, Promise!Name, Name, Promise!vm_undefine, vm_undefine,
               Promise!NotSaved, NotSaved, Promise!NoPid, NoPid
  <2> QED
    BY <2>2, <2>3 DEF Promised
<1>5. CASE function = "start"
  <2>1. PICK pid \in Pid : doc = list_save_domain_pid(disk, d, pid)
    BY <1>5 DEF Written
  <2>2. Holds(doc, save_domain_pid(f, d, pid))
    BY <2>1, SettingHolds
  <2>3. Promise!Changes(f, save_domain_pid(f, d, pid))
    BY <1>1 DEF Promise!Changes, Promise!Name, Name, Promise!save_domain_pid, save_domain_pid
  <2> QED
    BY <2>2, <2>3 DEF Promised
<1>6. CASE function = "destroy"
  <2>1. doc = list_remove_domain_pid(disk, d)
    BY <1>6 DEF Written
  <2>2. Holds(doc, remove_domain_pid(f, d))
    BY <2>1, SettingHolds
  <2>3. Promise!Changes(f, remove_domain_pid(f, d))
    BY <1>1 DEF Promise!Changes, Promise!Name, Name, Promise!remove_domain_pid, remove_domain_pid,
               Promise!NoPid, NoPid
  <2> QED
    BY <2>2, <2>3 DEF Promised
<1>7. CASE function = "colo-enable"
  <2>1. /\ ListMaySetColo(disk, d)
        /\ \E r \in {"primary", "secondary"} : doc = list_set_domain_colo_enable(disk, d, r)
    BY <1>7 DEF Written
  <2>2. PICK r \in {"primary", "secondary"} : doc = list_set_domain_colo_enable(disk, d, r)
    BY <2>1
  <2>3. Holds(doc, set_domain_colo_enable(f, d, r))
    BY <2>2, SettingHolds
  <2>4. Promise!Changes(f, set_domain_colo_enable(f, d, r))
    BY <1>1, <2>1, MaySetAgrees DEF Promise!Changes, Promise!Name, Name, Promise!set_domain_colo_enable,
               set_domain_colo_enable, Promise!MaySetColo, MaySetColo
  <2> QED
    BY <2>3, <2>4 DEF Promised
<1>8. CASE function = "colo-disable"
  <2>1. ListMaySetColo(disk, d) /\ doc = list_set_domain_colo_disable(disk, d)
    BY <1>8 DEF Written
  <2>2. Holds(doc, set_domain_colo_disable(f, d))
    BY <2>1, SettingHolds
  <2>3. Promise!Changes(f, set_domain_colo_disable(f, d))
    BY <1>1, <2>1, MaySetAgrees DEF Promise!Changes, Promise!Name, Name, Promise!set_domain_colo_disable,
               set_domain_colo_disable, Promise!MaySetColo, MaySetColo
  <2> QED
    BY <2>2, <2>3 DEF Promised
<1>9. CASE function = "connect-peer"
  <2>1. PICK addr : doc = save_colo_status(disk, addr)
    BY <1>9 DEF Written
  <2> QED
    BY <1>2, <2>1, SaveAddresses DEF Holds, Promised
<1>10. CASE function \notin {"define", "peer-save-domain", "undefine", "start", "destroy",
                             "colo-enable", "colo-disable", "connect-peer"}
  <2>1. Written(function, d) = {}
    BY <1>10 DEF Written
  <2> QED
    BY <2>1
<1> QED
  BY <1>3, <1>4, <1>5, <1>6, <1>7, <1>8, <1>9, <1>10

-----------------------------------------------------------------------------
(***************************************************************************)
(* The inductive invariant.  A complete file holds the records; while a    *)
(* write is going on a reader finds an empty file, and what will be there  *)
(* then holds contents that one function makes of the records.             *)
(***************************************************************************)
ListInv ==
  IF after = NoDocument THEN Holds(disk, file)
  ELSE disk = Null /\ \E g : Holds(after, g) /\ Promised(file, g)

\* A document is not the mark for none.
LEMMA IsWritten ==
  ASSUME NEW doc, NEW f, Holds(doc, f)
  PROVE  doc # NoDocument /\ Image(doc) = f
<1>1. doc # NoDocument
  BY DEF Holds, HoldsIn, IsDoc, NoDocument, Null, MapNode
<1> QED
  BY <1>1, ImageIsContents DEF Holds

\* A write starts, ends or is cut short: the file then holds what the specification says.
LEMMA ListStep ==
  ListInv /\ [ListNext]_listVars
    => ListInv' /\ (UNCHANGED file \/ Promise!Changes(file, file'))
<1> SUFFICES ASSUME ListInv, [ListNext]_listVars
             PROVE  ListInv' /\ (UNCHANGED file \/ Promise!Changes(file, file'))
  OBVIOUS
<1>1. CASE ListWrite
  <2>1. PICK d \in Domain,
             function \in {"define", "peer-save-domain", "undefine", "start", "destroy",
                           "colo-enable", "colo-disable", "connect-peer"} :
               \E doc \in Written(function, d) : Truncate(doc)
    BY <1>1 DEF ListWrite
  <2>2. PICK doc \in Written(function, d) : Truncate(doc)
    BY <2>1
  <2>3. after = NoDocument /\ after' = doc /\ disk' = Null /\ file' = file
    BY <2>2 DEF Truncate
  <2>4. Holds(disk, file)
    BY <2>3 DEF ListInv
  <2>5. PICK g : Holds(doc, g) /\ Promised(file, g)
    BY <2>4, WrittenHolds
  <2>6. doc # NoDocument
    BY <2>5, IsWritten
  <2> QED
    BY <2>3, <2>5, <2>6 DEF ListInv
<1>2. CASE WriteOut
  <2>1. after # NoDocument /\ disk' = after /\ after' = NoDocument /\ file' = Image(after)
    BY <1>2 DEF WriteOut
  <2>2. PICK g : Holds(after, g) /\ Promised(file, g)
    BY <2>1 DEF ListInv
  <2>3. file' = g
    BY <2>1, <2>2, IsWritten
  <2> QED
    BY <2>1, <2>2, <2>3 DEF ListInv, Promised
<1>3. CASE EndsInWrite
  <2>1. after # NoDocument /\ disk' = disk /\ after' = NoDocument /\ file' = Image(disk)
    BY <1>3 DEF EndsInWrite
  <2>2. disk = Null /\ Holds(disk, EmptySave)
    BY <2>1, EmptyHolds DEF ListInv
  <2>3. file' = EmptySave
    BY <2>1, <2>2, IsWritten
  <2>4. EmptySave = Promise!EmptySave
    BY DEF EmptySave, Promise!EmptySave, Name, Promise!Name, NotSaved, Promise!NotSaved,
           NoPid, Promise!NoPid
  <2> QED
    BY <2>1, <2>2, <2>3, <2>4 DEF ListInv, Promise!Changes
<1>4. CASE UNCHANGED listVars
  BY <1>4 DEF listVars, ListInv
<1> QED
  BY <1>1, <1>2, <1>3, <1>4 DEF ListNext

\* The shipped file holds no domains.
LEMMA ListStart == ListInit => ListInv /\ Promise!FileInit
<1> SUFFICES ASSUME ListInit PROVE ListInv /\ Promise!FileInit
  OBVIOUS
<1>1. Holds(disk, EmptySave) /\ after = NoDocument /\ file = EmptySave
  BY EmptyHolds, IsWritten DEF ListInit
<1>2. EmptySave = Promise!EmptySave
  BY DEF EmptySave, Promise!EmptySave, Name, Promise!Name, NotSaved, Promise!NotSaved,
         NoPid, Promise!NoPid
<1> QED
  BY <1>1, <1>2 DEF ListInv, Promise!FileInit

\* The invariant holds of every run of writes.
THEOREM ListInvariant == ListSpec => []ListInv
<1>1. ListInit => ListInv
  BY ListStart
<1>2. ListInv /\ [ListNext]_listVars => ListInv'
  BY ListStep
<1> QED
  BY <1>1, <1>2, PTL DEF ListSpec

(***************************************************************************)
(* ListKeepsPromise: the YAML list implements one record per name.         *)
(***************************************************************************)
THEOREM ListKeepsPromiseAlways == ListSpec => ListKeepsPromise
<1>1. ListInit => Promise!FileInit
  BY ListStart
<1>2. ListInv /\ [ListNext]_listVars => [Promise!FileNext]_file
  BY ListStep DEF Promise!FileNext
<1> QED
  BY <1>1, <1>2, ListInvariant, PTL DEF ListSpec, ListKeepsPromise, Promise!FileSpec

\* A document that holds f is read by every reader, and read as f.
LEMMA HeldIsRead ==
  ASSUME NEW f, Holds(disk, f)
  PROVE  /\ \A i \in 1 .. size(domains_of(disk)) : RecordReads(Item(domains_of(disk), i))
         /\ list_domains_init(disk) = domains_init(f)
         /\ \A d \in Domain : Cardinality(Named(disk, d)) <= 1
<1>1. PICK s : HoldsIn(disk, s, f)
  BY DEF Holds
<1>2. \A i \in 1 .. size(domains_of(disk)) : RecordReads(Item(domains_of(disk), i))
  BY <1>1, ListOf, RecReads
<1>3. list_domains_init(disk) = domains_init(f)
  BY <1>1, InitReadsContents
<1>4. ASSUME NEW d \in Domain PROVE Cardinality(Named(disk, d)) <= 1
  <2>1. CASE Named(disk, d) = {}
    BY <2>1, FS_EmptySet
  <2>2. CASE Named(disk, d) # {}
    <3>1. PICK i : Named(disk, d) = {i}
      BY <1>1, <2>2, OneRecord
    <3>2. Cardinality({i}) = 1
      BY FS_Singleton, Zenon
    <3> QED
      BY <3>1, <3>2
  <2> QED
    BY <2>1, <2>2
<1> QED
  BY <1>2, <1>3, <1>4

(***************************************************************************)
(* ReadersAgree: what one function writes every other can read, and each   *)
(* name has one record at most.                                            *)
(***************************************************************************)
THEOREM ReadersAgreeAlways == ListSpec => []ReadersAgree
<1>1. ListInv => ReadersAgree
  BY HeldIsRead DEF ListInv, ReadersAgree
<1> QED
  BY <1>1, ListInvariant, PTL
=============================================================================
