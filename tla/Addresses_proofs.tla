--------------------------- MODULE Addresses_proofs ---------------------------
(***************************************************************************)
(* Theorems about Addresses: the types, that a nickname stays with whom it *)
(* was given to, that messages go to whom they were meant for, and that    *)
(* only /remove takes contacts and addresses out of the book.              *)
(*                                                                         *)
(* The invariant has a part for the book and one for the commands that     *)
(* are under way.  In the book every change is one of four (an entry       *)
(* added, removed, promoted, or promoted and routed), written to files     *)
(* that may fail: ChangeInv asks of a change that its names were saved,    *)
(* and that its addresses were told by every peer that fits the id, and    *)
(* MovedBook shows that a promotion to a full id is such a change.  A      *)
(* command that dials an address of the book then dials one of a peer it   *)
(* was meant for (Dialled), so whoever answers there took it over from     *)
(* that peer.  The last two theorems need short ids to fit one peer        *)
(* (Distinct): with an id that fits two, the entry goes to the first that  *)
(* shows up.                                                               *)
(***************************************************************************)
EXTENDS Addresses, FiniteSetTheorems, TLAPS

-----------------------------------------------------------------------------
(* The inductive invariant *)

\* The two maps of the book, and what tasks are.
ContactMap == [Id -> Contact \cup {None}]
RouteMap   == [Id -> Addr \cup {None}]
TaskRecord == [kind : {"none", "msg", "connect"}, meant : SUBSET Peer,
               target : Id \cup {None}, means : {"dht", "relay", "book"},
               step : {"lookup", "dial", "request"}, via : Peer \cup Addr \cup {None},
               at : Addr \cup {None}]
TaskMap    == [Task -> TaskRecord]

\* The types of the book, in memory and in its files.
BookTypes ==
  /\ contacts \in ContactMap /\ routes \in RouteMap
  /\ file["contacts"] \in ContactMap /\ file["routes"] \in RouteMap
  /\ spoiled \subseteq File /\ faults \in Nat

\* The types of everything else.
OtherTypes ==
  /\ sessions \subseteq Peer /\ pending \subseteq Peer
  /\ tasks \in TaskMap
  /\ owner \in [Addr -> Peer \cup {None}] /\ had \in [Peer -> SUBSET Addr]
  /\ commands \in Nat /\ commands + faults <= MaxEvents

\* Each nickname of c was saved for an id that the entry's id starts with.
NamesOf(c) ==
  \A i \in Id : c[i] # None => \E x \in saved : x[1] = c[i].nick /\ Fits(i, x[2])

\* NamesHold of the memory and of the file.
Names == NamesOf(contacts) /\ NamesOf(file["contacts"])

\* A file whose last write did not fail is what is in memory.
Mirrored ==
  /\ "contacts" \notin spoiled => file["contacts"] = contacts
  /\ "routes" \notin spoiled => file["routes"] = routes
  /\ faults = 0 => spoiled = {}

\* An address of a contact is a route as well.
RoutedBy(c, r) == \A i \in Id : c[i] # None /\ c[i].addr # None => r[i] # None
Routed         == faults = 0 => RoutedBy(contacts, routes)

\* Short ids fit one peer each.
Distinct == \A s \in Short : \A p, q \in Matches[s] : p = q

\* An address under i is one that whoever fits i told.
Justified(i, a) ==
  /\ \E p \in Peer : Fits(p, i)
  /\ \A p \in Peer : Fits(p, i) => a \in Told(p)
ContactsJustified(c) ==
  \A i \in Id : c[i] # None /\ c[i].addr # None => Justified(i, c[i].addr)
RoutesJustified(r) == \A i \in Id : r[i] # None => Justified(i, r[i])

\* All addresses of the book, in memory and in its files.
BookJustified ==
  /\ ContactsJustified(contacts) /\ ContactsJustified(file["contacts"])
  /\ RoutesJustified(routes) /\ RoutesJustified(file["routes"])

Book == BookTypes /\ Names /\ Mirrored /\ Routed /\ (Distinct => BookJustified)

\* What a task waits for fits its means; /msg alone uses more than the book.
Means(k) ==
  /\ k.step = "lookup" => k.means # "relay"
  /\ k.step = "dial" => IF k.means = "relay" THEN k.via = None ELSE k.via \in Addr
  /\ k.step = "request" => k.via \in Peer
  /\ k.kind = "msg" => k.target \in Id
  /\ k.means # "book" => k.kind = "msg"

\* What /msg looks for was meant.
Wanted(k) == k.kind = "msg" => \A p \in Peer : Fits(p, k.target) => p \in k.meant

\* At address a, q answers, and somebody meant has or had that address.
TookOver(meant, q, a) ==
  a \in Addr /\ a \in had[q] /\ \E p \in meant : a \in had[p]

\* What /msg dials was an address of somebody meant, or is of nobody; who
\* answered there took it over.
Dialled(k) ==
  k.kind = "msg" =>
    /\ k.step = "dial" /\ k.via # None => \E p \in k.meant : k.via \in Told(p)
    /\ k.step = "request" => TookOver(k.meant, k.via, k.at)

Commands ==
  \A t \in Task :
    Means(tasks[t]) /\ Wanted(tasks[t]) /\ (Distinct => Dialled(tasks[t]))

\* Who listens somewhere has that address, and nobody listens nowhere.
Owners ==
  /\ \A a \in Addr : owner[a] # None => a \in had[owner[a]]
  /\ owner[Nowhere] = None

IInv == Book /\ OtherTypes /\ Commands /\ Owners /\ (Distinct => Addressee)

-----------------------------------------------------------------------------
(* Ids, maps and files *)

\* What starts with what.
LEMMA FitFacts ==
  /\ \A i : Fits(i, i)
  /\ \A i, j, k : Fits(i, j) /\ Fits(j, k) => Fits(i, k)
  /\ \A i, k : Fits(i, k) /\ i # k => i \in Peer
  /\ \A p \in Peer, q \in Peer : Fits(p, q) => p = q
  /\ Distinct => \A p \in Peer, q \in Peer : \A i : Fits(p, i) /\ Fits(q, i) => p = q
<1>1. Peer \cap Short = {} /\ \A s \in Short : Matches[s] \subseteq Peer
  BY AddressesAssumption
<1>2. Distinct => \A p \in Peer, q \in Peer : \A i : Fits(p, i) /\ Fits(q, i) => p = q
  BY <1>1 DEF Distinct, Fits
<1>3. QED
  BY <1>1, <1>2 DEF Fits

\* What the maps have under an id.
LEMMA MapFacts ==
  /\ \A c \in ContactMap, i \in Id :
       c[i] # None => /\ c[i] \in Contact /\ c[i].nick \in Nick
                      /\ c[i].addr \in Addr \cup {None}
  /\ \A r \in RouteMap, i \in Id : r[i] \in Addr \cup {None}
  /\ Empty \in ContactMap /\ Empty \in RouteMap /\ \A i \in Id : Empty[i] = None
  /\ None \notin Addr /\ None \notin Contact
<1>1. \A c \in ContactMap, i \in Id :
        c[i] # None => /\ c[i] \in Contact /\ c[i].nick \in Nick
                       /\ c[i].addr \in Addr \cup {None}
  <2> SUFFICES ASSUME NEW c \in ContactMap, NEW i \in Id, c[i] # None
               PROVE  /\ c[i] \in Contact /\ c[i].nick \in Nick
                      /\ c[i].addr \in Addr \cup {None}
    OBVIOUS
  <2>1. c[i] \in Contact
    BY DEF ContactMap
  <2>2. QED
    BY <2>1 DEF Contact
<1>2. \A r \in RouteMap, i \in Id : r[i] \in Addr \cup {None}
  BY DEF RouteMap
<1>3. Empty \in ContactMap /\ Empty \in RouteMap /\ \A i \in Id : Empty[i] = None
  BY DEF Empty, ContactMap, RouteMap
<1>4. QED
  BY <1>1, <1>2, <1>3, AddressesAssumption DEF Contact

\* A map with one more entry.
LEMMA EntryFacts ==
  ASSUME NEW i \in Id
  PROVE  /\ \A c \in ContactMap, e \in Contact \cup {None} :
              /\ [c EXCEPT ![i] = e] \in ContactMap
              /\ \A l \in Id : [c EXCEPT ![i] = e][l] = IF l = i THEN e ELSE c[l]
         /\ \A r \in RouteMap, a \in Addr \cup {None} :
              /\ [r EXCEPT ![i] = a] \in RouteMap
              /\ \A l \in Id : [r EXCEPT ![i] = a][l] = IF l = i THEN a ELSE r[l]
  BY DEF ContactMap, RouteMap

\* What a promotion makes of a map.
LEMMA MovedEntry ==
  ASSUME NEW S, None \in S, NEW f \in [Id -> S], NEW i \in Id, NEW j \in Id
  PROVE  /\ Moved(f, i, j) \in [Id -> S]
         /\ \A l \in Id : Moved(f, i, j)[l] =
              IF i = j \/ f[i] = None THEN f[l]
              ELSE IF l = i THEN None ELSE IF l = j THEN f[i] ELSE f[l]
<1>1. CASE i = j \/ f[i] = None
  BY <1>1 DEF Moved
<1>2. CASE i # j /\ f[i] # None
  <2>1. PICK e \in S : e = f[i]
    OBVIOUS
  <2>2. Moved(f, i, j) = [f EXCEPT ![j] = e, ![i] = None]
    BY <1>2, <2>1 DEF Moved
  <2>3. QED
    BY <1>2, <2>1, <2>2
<1>3. QED
  BY <1>1, <1>2

\* The same for the two maps of the book.
LEMMA MovedFacts ==
  ASSUME NEW i \in Id, NEW j \in Id
  PROVE  /\ \A c \in ContactMap :
              /\ Moved(c, i, j) \in ContactMap
              /\ \A l \in Id : Moved(c, i, j)[l] =
                   IF i = j \/ c[i] = None THEN c[l]
                   ELSE IF l = i THEN None ELSE IF l = j THEN c[i] ELSE c[l]
         /\ \A r \in RouteMap :
              /\ Moved(r, i, j) \in RouteMap
              /\ \A l \in Id : Moved(r, i, j)[l] =
                   IF i = j \/ r[i] = None THEN r[l]
                   ELSE IF l = i THEN None ELSE IF l = j THEN r[i] ELSE r[l]
<1>1. PICK S : S = Contact \cup {None}
  OBVIOUS
<1>2. None \in S /\ ContactMap = [Id -> S]
  BY <1>1 DEF ContactMap
<1>3. PICK T : T = Addr \cup {None}
  OBVIOUS
<1>4. None \in T /\ RouteMap = [Id -> T]
  BY <1>3 DEF RouteMap
<1>5. QED
  BY <1>2, <1>4, MovedEntry

\* What writes that may fail do to the files.
LEMMA SaveFacts ==
  ASSUME Book, NEW fs \in SUBSET File, Save(fs)
  PROVE  /\ file'["contacts"] \in {Empty, file["contacts"], contacts'}
         /\ file'["routes"] \in {Empty, file["routes"], routes'}
         /\ spoiled' \subseteq File /\ faults' \in Nat /\ faults' >= faults
         /\ ("contacts" \in fs \/ contacts' = contacts) /\ "contacts" \notin spoiled' =>
              file'["contacts"] = contacts'
         /\ ("routes" \in fs \/ routes' = routes) /\ "routes" \notin spoiled' =>
              file'["routes"] = routes'
         /\ faults' = 0 => faults = 0 /\ spoiled' = {}
<1>1. PICK bad \in SUBSET fs :
        \E torn \in SUBSET bad :
          /\ faults' = faults + Cardinality(bad)
          /\ spoiled' = (spoiled \ fs) \cup bad
          /\ file' = [f \in File |->
               IF f \in torn THEN Empty
               ELSE IF f \notin fs \ bad THEN file[f]
               ELSE IF f = "contacts" THEN contacts' ELSE routes']
  BY DEF Save
<1>2. PICK torn \in SUBSET bad :
        /\ faults' = faults + Cardinality(bad)
        /\ spoiled' = (spoiled \ fs) \cup bad
        /\ file' = [f \in File |->
             IF f \in torn THEN Empty
             ELSE IF f \notin fs \ bad THEN file[f]
             ELSE IF f = "contacts" THEN contacts' ELSE routes']
  BY <1>1
<1>3. /\ file'["contacts"] = IF "contacts" \in torn THEN Empty
                             ELSE IF "contacts" \notin fs \ bad THEN file["contacts"]
                             ELSE contacts'
      /\ file'["routes"] = IF "routes" \in torn THEN Empty
                           ELSE IF "routes" \notin fs \ bad THEN file["routes"]
                           ELSE routes'
  BY <1>2 DEF File
<1>4. faults \in Nat /\ spoiled \subseteq File
  BY DEF Book, BookTypes
<1>5. IsFiniteSet(bad)
  <2>1. IsFiniteSet({"contacts"}) /\ IsFiniteSet({"routes"})
    BY FS_Singleton
  <2>2. File = {"contacts"} \cup {"routes"}
    BY DEF File
  <2>3. IsFiniteSet(File)
    BY <2>1, <2>2, FS_Union
  <2>4. QED
    BY <2>3, FS_Subset
<1>6. Cardinality(bad) \in Nat /\ (Cardinality(bad) = 0 => bad = {})
  BY <1>5, FS_CardinalityType, FS_EmptySet
<1>7. spoiled' \subseteq File /\ faults' \in Nat /\ faults' >= faults
  BY <1>2, <1>4, <1>6
<1>8. /\ ("contacts" \in fs \/ contacts' = contacts) /\ "contacts" \notin spoiled' =>
           file'["contacts"] = contacts'
      /\ ("routes" \in fs \/ routes' = routes) /\ "routes" \notin spoiled' =>
           file'["routes"] = routes'
  BY <1>2, <1>3 DEF Book, Mirrored
<1>9. faults' = 0 => faults = 0 /\ spoiled' = {}
  <2>1. faults' = 0 => faults = 0 /\ Cardinality(bad) = 0
    BY <1>2, <1>4, <1>6
  <2>2. faults = 0 => spoiled = {}
    BY DEF Book, Mirrored
  <2>3. QED
    BY <1>2, <1>6, <2>1, <2>2
<1>10. QED
  BY <1>3, <1>7, <1>8, <1>9

-----------------------------------------------------------------------------
(* Changes of the book *)

\* The book keeps its invariant when what it changes to has it, and is saved.
LEMMA ChangeInv ==
  ASSUME Book, NEW c \in ContactMap, NEW r \in RouteMap, NEW fs \in SUBSET File,
         Change(c, r, fs), saved \subseteq saved', had' = had,
         "contacts" \in fs \/ c = contacts, "routes" \in fs \/ r = routes,
         \A i \in Id : c[i] # None =>
           \E x \in saved' : x[1] = c[i].nick /\ Fits(i, x[2]),
         RoutedBy(contacts, routes) => RoutedBy(c, r),
         Distinct /\ BookJustified => ContactsJustified(c) /\ RoutesJustified(r)
  PROVE  Book'
<1>1. contacts' = c /\ routes' = r /\ Save(fs)
  BY DEF Change
<1>2. /\ file'["contacts"] \in {Empty, file["contacts"], contacts'}
      /\ file'["routes"] \in {Empty, file["routes"], routes'}
      /\ spoiled' \subseteq File /\ faults' \in Nat /\ faults' >= faults
      /\ "contacts" \notin spoiled' => file'["contacts"] = contacts'
      /\ "routes" \notin spoiled' => file'["routes"] = routes'
      /\ faults' = 0 => faults = 0 /\ spoiled' = {}
  BY <1>1, SaveFacts
<1>3. BookTypes'
  BY <1>1, <1>2, MapFacts DEF Book, BookTypes
<1>4. Names'
  <2>1. \A i \in Id : contacts'[i] # None =>
          \E x \in saved' : x[1] = contacts'[i].nick /\ Fits(i, x[2])
    BY <1>1
  <2>2. \A i \in Id : file'["contacts"][i] # None =>
          \E x \in saved' : x[1] = file'["contacts"][i].nick /\ Fits(i, x[2])
    <3>1. \A i \in Id : file["contacts"][i] # None =>
            \E x \in saved' : x[1] = file["contacts"][i].nick /\ Fits(i, x[2])
      BY DEF Book, Names, NamesOf
    <3>2. PICK g : g = file'["contacts"]
      OBVIOUS
    <3>3. g = Empty \/ g = file["contacts"] \/ g = contacts'
      BY <1>2, <3>2
    <3>4. \A i \in Id : g[i] # None => \E x \in saved' : x[1] = g[i].nick /\ Fits(i, x[2])
      BY <2>1, <3>1, <3>3, MapFacts
    <3>5. QED
      BY <3>2, <3>4
  <2>3. QED
    BY <2>1, <2>2 DEF Names, NamesOf
<1>5. Mirrored'
  BY <1>2 DEF Mirrored
<1>6. Routed'
  BY <1>1, <1>2 DEF Book, Routed, RoutedBy
<1>7. ASSUME Distinct
      PROVE  BookJustified'
  <2>1. \A i, a : Justified(i, a)' <=> Justified(i, a)
    BY DEF Justified, Told
  <2>2. /\ ContactsJustified(contacts') /\ ContactsJustified(file["contacts"])
        /\ RoutesJustified(routes') /\ RoutesJustified(file["routes"])
    BY <1>1, <1>7 DEF Book, BookJustified
  <2>3. ContactsJustified(Empty) /\ RoutesJustified(Empty)
    BY MapFacts DEF ContactsJustified, RoutesJustified
  <2>4. PICK g, h : g = file'["contacts"] /\ h = file'["routes"]
    OBVIOUS
  <2>5. ContactsJustified(g) /\ RoutesJustified(h)
    BY <1>2, <2>2, <2>3, <2>4
  <2>6. QED
    BY <2>1, <2>2, <2>4, <2>5 DEF BookJustified, ContactsJustified, RoutesJustified
<1>8. QED
  BY <1>3, <1>4, <1>5, <1>6, <1>7 DEF Book

\* What a promotion makes of the book in memory.
LEMMA MovedBook ==
  ASSUME Book, NEW i \in Id, NEW j \in Id
  PROVE  /\ Moved(contacts, i, j) \in ContactMap /\ Moved(routes, i, j) \in RouteMap
         /\ \A l \in Id : Moved(contacts, i, j)[l] =
              IF i = j \/ contacts[i] = None THEN contacts[l]
              ELSE IF l = i THEN None ELSE IF l = j THEN contacts[i] ELSE contacts[l]
         /\ \A l \in Id : Moved(routes, i, j)[l] =
              IF i = j \/ routes[i] = None THEN routes[l]
              ELSE IF l = i THEN None ELSE IF l = j THEN routes[i] ELSE routes[l]
<1>1. contacts \in ContactMap /\ routes \in RouteMap
  BY DEF Book, BookTypes
<1>2. QED
  BY <1>1, MovedFacts

\* A promotion of i to an id that starts with it: names stay with whom they were
\* given to, and addresses with whoever told them.
LEMMA PromotionFacts ==
  ASSUME Book, NEW i \in Id, NEW j \in Id, Fits(j, i),
         NEW c, c = Moved(contacts, i, j), NEW r, r = Moved(routes, i, j)
  PROVE  /\ c \in ContactMap /\ r \in RouteMap /\ Touched(i, j) \subseteq File
         /\ "contacts" \in Touched(i, j) \/ c = contacts
         /\ "routes" \in Touched(i, j) \/ r = routes
         /\ NamesOf(c)
         /\ RoutedBy(contacts, routes) => RoutedBy(c, r)
         /\ BookJustified => ContactsJustified(c) /\ RoutesJustified(r)
<1>1. contacts \in ContactMap /\ routes \in RouteMap
  BY DEF Book, BookTypes
<1>2. /\ c \in ContactMap
      /\ \A l \in Id : c[l] = IF i = j \/ contacts[i] = None THEN contacts[l]
                              ELSE IF l = i THEN None
                              ELSE IF l = j THEN contacts[i] ELSE contacts[l]
  BY MovedBook
<1>3. /\ r \in RouteMap
      /\ \A l \in Id : r[l] = IF i = j \/ routes[i] = None THEN routes[l]
                              ELSE IF l = i THEN None
                              ELSE IF l = j THEN routes[i] ELSE routes[l]
  BY MovedBook
<1>4. /\ Touched(i, j) \subseteq File
      /\ "contacts" \in Touched(i, j) \/ c = contacts
      /\ "routes" \in Touched(i, j) \/ r = routes
  BY DEF Touched, File, Moved
<1>5. NamesOf(c)
  <2> SUFFICES ASSUME NEW l \in Id, c[l] # None
               PROVE  \E x \in saved : x[1] = c[l].nick /\ Fits(l, x[2])
    BY DEF NamesOf
  <2>1. CASE c[l] = contacts[l]
    BY <2>1 DEF Book, Names, NamesOf
  <2>2. CASE c[l] # contacts[l]
    <3>1. l = j /\ c[l] = contacts[i]
      BY <1>2, <2>2
    <3>2. PICK x \in saved : x[1] = contacts[i].nick /\ Fits(i, x[2])
      BY <3>1 DEF Book, Names, NamesOf
    <3>3. QED
      BY <3>1, <3>2, FitFacts
  <2>3. QED
    BY <2>1, <2>2
<1>6. ASSUME RoutedBy(contacts, routes)
      PROVE  RoutedBy(c, r)
  BY <1>2, <1>3, <1>6 DEF RoutedBy
<1>7. ASSUME NEW a, Justified(i, a), i # j
      PROVE  Justified(j, a)
  BY <1>7, FitFacts DEF Justified
<1>8. ASSUME BookJustified
      PROVE  ContactsJustified(c) /\ RoutesJustified(r)
  <2>1. ContactsJustified(c)
    BY <1>2, <1>7, <1>8 DEF BookJustified, ContactsJustified
  <2>2. RoutesJustified(r)
    BY <1>3, <1>7, <1>8 DEF BookJustified, RoutesJustified
  <2>3. QED
    BY <2>1, <2>2
<1>9. QED
  BY <1>2, <1>3, <1>4, <1>5, <1>6, <1>8

\* What the book knows of peers stays: contacts, and addresses that are routes.
Lasting ==
  \A p \in Peer : /\ HasContact(p) => HasContact(p)'
                  /\ HasAddress(p) /\ faults = 0 => HasAddress(p)'

\* It does if every entry stays or goes to the one peer that it fits.
LEMMA LastingFacts ==
  ASSUME Book, contacts' \in ContactMap, routes' \in RouteMap, Distinct,
         \A i \in Id : contacts[i] # None =>
           \/ contacts'[i] # None
           \/ \E j \in Id : Fits(j, i) /\ j # i /\ contacts'[j] # None,
         \A i \in Id : routes[i] # None =>
           \/ routes'[i] # None
           \/ \E j \in Id : Fits(j, i) /\ j # i /\ routes'[j] # None
  PROVE  Lasting
<1>1. ASSUME NEW p \in Peer, NEW i \in Id, NEW j \in Id, Fits(p, i), Fits(j, i), j # i
      PROVE  j = p
  BY <1>1, FitFacts
<1>2. ASSUME NEW p \in Peer, HasContact(p)
      PROVE  HasContact(p)'
  <2>1. PICK i \in Id : contacts[i] # None /\ Fits(p, i)
    BY <1>2 DEF HasContact, Entries
  <2>2. \E j \in Id : contacts'[j] # None /\ Fits(p, j)
    BY <1>1, <2>1, FitFacts
  <2>3. QED
    BY <2>2 DEF HasContact, Entries
<1>3. ASSUME NEW p \in Peer, HasAddress(p), faults = 0
      PROVE  HasAddress(p)'
  <2>1. PICK i \in Id : Fits(p, i) /\ AddressOf(i) # None
    BY <1>3 DEF HasAddress
  <2>2. routes[i] # None
    BY <1>3, <2>1 DEF Book, Routed, RoutedBy, AddressOf
  <2>3. PICK j \in Id : routes'[j] # None /\ Fits(p, j)
    BY <1>1, <2>1, <2>2, FitFacts
  <2>4. QED
    BY <2>3 DEF HasAddress, AddressOf
<1>4. QED
  BY <1>2, <1>3 DEF Lasting

\* A book that does not change.
LEMMA SameBook ==
  ASSUME Book, UNCHANGED book, saved' = saved, had' = had
  PROVE  Book' /\ Lasting
<1>1. /\ contacts' = contacts /\ routes' = routes /\ file' = file
      /\ spoiled' = spoiled /\ faults' = faults
  BY DEF book
<1>2. Book'
  BY <1>1 DEF Book, BookTypes, Names, NamesOf, Mirrored, Routed, RoutedBy,
              BookJustified, ContactsJustified, RoutesJustified, Justified, Told
<1>3. Lasting
  BY <1>1 DEF Lasting, HasContact, HasAddress, Entries, AddressOf
<1>4. QED
  BY <1>2, <1>3

\* A promotion.
LEMMA PromoteInv ==
  ASSUME Book, NEW i \in Id, NEW j \in Id, Fits(j, i), Promote(i, j),
         saved' = saved, had' = had
  PROVE  Book' /\ (Distinct => Lasting)
<1>1. PICK c, r : c = Moved(contacts, i, j) /\ r = Moved(routes, i, j)
  OBVIOUS
<1>2. /\ c \in ContactMap /\ r \in RouteMap /\ Touched(i, j) \in SUBSET File
      /\ "contacts" \in Touched(i, j) \/ c = contacts
      /\ "routes" \in Touched(i, j) \/ r = routes
      /\ NamesOf(c)
      /\ RoutedBy(contacts, routes) => RoutedBy(c, r)
      /\ BookJustified => ContactsJustified(c) /\ RoutesJustified(r)
  BY <1>1, PromotionFacts
<1>3. Change(c, r, Touched(i, j)) /\ contacts' = c /\ routes' = r
  BY <1>1 DEF Promote, Change
<1>4. \A l \in Id : c[l] # None => \E x \in saved' : x[1] = c[l].nick /\ Fits(l, x[2])
  BY <1>2 DEF NamesOf
<1>5. Book'
  BY <1>2, <1>3, <1>4, ChangeInv
<1>6. /\ \A l \in Id : contacts[l] # None => c[l] # None \/ (l = i /\ i # j /\ c[j] # None)
      /\ \A l \in Id : routes[l] # None => r[l] # None \/ (l = i /\ i # j /\ r[j] # None)
  <2>1. /\ \A l \in Id : c[l] =
             IF i = j \/ contacts[i] = None THEN contacts[l]
             ELSE IF l = i THEN None ELSE IF l = j THEN contacts[i] ELSE contacts[l]
        /\ \A l \in Id : r[l] =
             IF i = j \/ routes[i] = None THEN routes[l]
             ELSE IF l = i THEN None ELSE IF l = j THEN routes[i] ELSE routes[l]
    BY <1>1, MovedBook
  <2>2. QED
    BY <2>1
<1>7. Distinct => Lasting
  BY <1>2, <1>3, <1>6, LastingFacts
<1>8. QED
  BY <1>5, <1>7

\* A promotion and a route that the peer told.
LEMMA PromoteAndRouteInv ==
  ASSUME Book, NEW i \in Id, NEW j \in Peer, Fits(j, i),
         NEW a \in Told(j), had[j] \subseteq Addr, PromoteAndRoute(i, j, a),
         saved' = saved, had' = had
  PROVE  Book' /\ (Distinct => Lasting)
<1>1. j \in Id /\ a \in Addr /\ a # None /\ a \in Addr \cup {None}
  BY AddressesAssumption DEF Id, Told
<1>2. PICK c, r : c = Moved(contacts, i, j) /\ r = Moved(routes, i, j)
  OBVIOUS
<1>3. /\ c \in ContactMap /\ r \in RouteMap /\ Touched(i, j) \in SUBSET File
      /\ "contacts" \in Touched(i, j) \/ c = contacts
      /\ NamesOf(c)
      /\ RoutedBy(contacts, routes) => RoutedBy(c, r)
      /\ BookJustified => ContactsJustified(c) /\ RoutesJustified(r)
  BY <1>1, <1>2, PromotionFacts
<1>4. PICK r2 : r2 = [r EXCEPT ![j] = a]
  OBVIOUS
<1>5. r2 \in RouteMap /\ \A l \in Id : r2[l] = IF l = j THEN a ELSE r[l]
  <2>1. /\ [r EXCEPT ![j] = a] \in RouteMap
        /\ \A l \in Id : [r EXCEPT ![j] = a][l] = IF l = j THEN a ELSE r[l]
    BY <1>1, <1>3, EntryFacts
  <2>2. QED
    BY <1>4, <2>1
<1>6. PICK fs : fs = Touched(i, j) \cup {"routes"}
  OBVIOUS
<1>7. /\ fs \in SUBSET File /\ "routes" \in fs
      /\ "contacts" \in fs \/ c = contacts
  BY <1>3, <1>6 DEF File
<1>8. Change(c, r2, fs) /\ contacts' = c /\ routes' = r2
  BY <1>2, <1>4, <1>6 DEF PromoteAndRoute, Change
<1>9. \A l \in Id : c[l] # None => \E x \in saved' : x[1] = c[l].nick /\ Fits(l, x[2])
  BY <1>3 DEF NamesOf
<1>10. RoutedBy(contacts, routes) => RoutedBy(c, r2)
  BY <1>1, <1>3, <1>5 DEF RoutedBy
<1>11. BookJustified => ContactsJustified(c) /\ RoutesJustified(r2)
  <2>1. Justified(j, a)
    BY FitFacts DEF Justified
  <2>2. QED
    BY <1>3, <1>5, <2>1 DEF RoutesJustified
<1>12. Book'
  BY <1>3, <1>5, <1>7, <1>8, <1>9, <1>10, <1>11, ChangeInv
<1>13. /\ \A l \in Id : contacts[l] # None => c[l] # None \/ (l = i /\ i # j /\ c[j] # None)
       /\ \A l \in Id : routes[l] # None => r2[l] # None \/ (l = i /\ i # j /\ r2[j] # None)
  <2>1. /\ \A l \in Id : c[l] =
             IF i = j \/ contacts[i] = None THEN contacts[l]
             ELSE IF l = i THEN None ELSE IF l = j THEN contacts[i] ELSE contacts[l]
        /\ \A l \in Id : r[l] =
             IF i = j \/ routes[i] = None THEN routes[l]
             ELSE IF l = i THEN None ELSE IF l = j THEN routes[i] ELSE routes[l]
    BY <1>1, <1>2, MovedBook
  <2>2. QED
    BY <1>1, <1>5, <2>1
<1>14. Distinct => Lasting
  BY <1>1, <1>3, <1>5, <1>8, <1>13, LastingFacts
<1>15. QED
  BY <1>12, <1>14

\* A promotion of one of several entries, or none.
LEMMA PromoteAnyInv ==
  ASSUME Book, NEW ids \in SUBSET Id, NEW p \in Peer, \A i \in ids : Fits(p, i),
         PromoteAny(ids, p), saved' = saved, had' = had
  PROVE  Book' /\ (Distinct => Lasting)
<1>1. CASE ids = {}
  BY <1>1, SameBook DEF PromoteAny
<1>2. CASE ids # {}
  BY <1>2, PromoteInv DEF PromoteAny, Id
<1>3. QED
  BY <1>1, <1>2

\* Whose entries are promoted when a peer shows up, and at the end of connect.
LEMMA ShowsUp ==
  ASSUME NEW p \in Peer
  PROVE  /\ ShortOf(p) \subseteq Id /\ \A i \in ShortOf(p) : Fits(p, i)
         /\ \A k \in TaskRecord : AtEnd(k, p) \subseteq Id /\ \A i \in AtEnd(k, p) : Fits(p, i)
<1>1. ShortOf(p) \subseteq Id /\ \A i \in ShortOf(p) : Fits(p, i)
  BY DEF ShortOf, Id
<1>2. ASSUME NEW k \in TaskRecord
      PROVE  AtEnd(k, p) \subseteq Id /\ \A i \in AtEnd(k, p) : Fits(p, i)
  <2>1. k.target \in Id \cup {None}
    BY DEF TaskRecord
  <2>2. QED
    BY <1>1, <2>1 DEF AtEnd
<1>3. QED
  BY <1>1, <1>2

\* _promote_contact
LEMMA PromoteContactInv ==
  ASSUME Book, NEW p \in Peer, PromoteContact(p), saved' = saved, had' = had
  PROVE  Book' /\ (Distinct => Lasting)
  BY ShowsUp, PromoteAnyInv DEF PromoteContact

-----------------------------------------------------------------------------
(* Keys of commands *)

\* _expand_id: the id or a full id that starts with it.
LEMMA ExpandedFacts ==
  ASSUME NEW i, NEW r \in Expanded(i)
  PROVE  r.from = i /\ Fits(r.id, i) /\ (r.id = i \/ r.id \in sessions)
<1>1. CASE In(sessions, i) = {}
  BY <1>1, FitFacts DEF Expanded, As
<1>2. CASE In(sessions, i) # {}
  <2>1. PICK p \in In(sessions, i) : r = [id |-> p, from |-> i]
    BY <1>2 DEF Expanded
  <2>2. QED
    BY <2>1 DEF In
<1>3. QED
  BY <1>1, <1>2

\* resolve_peer: the id starts with the entry that is promoted to it, and who
\* fits the id was meant by the key.
LEMMA ResolutionFacts ==
  ASSUME Book, sessions \subseteq Peer, pending \subseteq Peer,
         NEW k, NEW r \in Resolutions(k), r.id \in Id
  PROVE  /\ r.from \in Id /\ Fits(r.id, r.from)
         /\ \A p \in Peer : Fits(p, r.id) => p \in Meant(k)
<1>1. ASSUME NEW i, Fits(r.id, i), Fits(i, k)
      PROVE  \A p \in Peer : Fits(p, r.id) => p \in Meant(k)
  BY <1>1, FitFacts DEF Meant
<1>2. CASE r = As(k)
  <2>1. r.id = k /\ r.from = k
    BY <1>2 DEF As
  <2>2. QED
    BY <1>1, <2>1, FitFacts
<1>3. CASE k \in Entries /\ r \in Expanded(k)
  BY <1>1, <1>3, ExpandedFacts, FitFacts DEF Entries
<1>4. CASE r \in UNION {Expanded(i) : i \in Named(k)}
  <2>1. PICK i \in Named(k) : r \in Expanded(i)
    BY <1>4
  <2>2. i \in Id /\ contacts[i] # None /\ contacts[i].nick = k
    BY DEF Named, Entries
  <2>3. r.from = i /\ Fits(r.id, i)
    BY <2>1, ExpandedFacts
  <2>4. PICK x \in saved : x[1] = k /\ Fits(i, x[2])
    BY <2>2 DEF Book, Names, NamesOf
  <2>5. \A p \in Peer : Fits(p, r.id) => p \in Meant(k)
    BY <2>3, <2>4, FitFacts DEF Meant
  <2>6. QED
    BY <2>2, <2>3, <2>5
<1>5. CASE k \in Peer /\ r \in {[id |-> k, from |-> s] : s \in ShortOf(k)}
  <2>1. PICK s \in ShortOf(k) : r = [id |-> k, from |-> s]
    BY <1>5
  <2>2. r.id = k /\ r.from = s /\ s \in Id /\ Fits(k, s)
    BY <1>5, <2>1, ShowsUp
  <2>3. QED
    BY <1>1, <2>2, FitFacts
<1>6. CASE \E i \in In(sessions, k) \cup In(pending, k) \cup In(Entries, k) : r = As(i)
  <2>1. PICK i : Fits(i, k) /\ r = As(i)
    BY <1>6 DEF In
  <2>2. r.id = i /\ r.from = i
    BY <2>1 DEF As
  <2>3. QED
    BY <1>1, <2>1, <2>2, FitFacts
<1>7. QED
  BY <1>2, <1>3, <1>4, <1>5, <1>6 DEF Resolutions

-----------------------------------------------------------------------------
(* Tasks *)

\* What is known of single tasks, peers and addresses.
LEMMA TaskFacts ==
  ASSUME OtherTypes, Commands
  PROVE  /\ \A t \in Task :
              /\ tasks[t] \in TaskRecord /\ tasks[t].kind \in {"none", "msg", "connect"}
              /\ tasks[t].meant \subseteq Peer /\ tasks[t].target \in Id \cup {None}
              /\ Means(tasks[t]) /\ Wanted(tasks[t]) /\ (Distinct => Dialled(tasks[t]))
         /\ \A a \in Addr : owner[a] \in Peer \cup {None}
         /\ \A p \in Peer : had[p] \subseteq Addr
<1>1. \A t \in Task : tasks[t] \in TaskRecord
  BY DEF OtherTypes, TaskMap
<1>2. \A k \in TaskRecord : /\ k.kind \in {"none", "msg", "connect"}
                            /\ k.meant \subseteq Peer /\ k.target \in Id \cup {None}
  BY DEF TaskRecord
<1>3. \A a \in Addr : owner[a] \in Peer \cup {None}
  BY DEF OtherTypes
<1>4. \A p \in Peer : had[p] \subseteq Addr
  BY DEF OtherTypes
<1>5. QED
  BY <1>1, <1>2, <1>3, <1>4 DEF Commands

\* One task changes.
LEMMA OneTask ==
  ASSUME OtherTypes, Commands, NEW t \in Task, NEW k \in TaskRecord,
         tasks' = [tasks EXCEPT ![t] = k], Means(k), Wanted(k), Distinct => Dialled(k),
         had' = had
  PROVE  tasks' \in TaskMap /\ Commands'
<1>1. tasks \in TaskMap
  BY DEF OtherTypes
<1>2. tasks' \in TaskMap
  BY <1>1 DEF TaskMap
<1>3. \A u \in Task : tasks'[u] = IF u = t THEN k ELSE tasks[u]
  BY <1>1 DEF TaskMap
<1>4. ASSUME NEW u \in Task
      PROVE  Means(tasks'[u]) /\ Wanted(tasks'[u]) /\ (Distinct => Dialled(tasks'[u]))
  BY <1>3 DEF Commands
<1>5. Commands'
  BY <1>4 DEF Commands, Means, Wanted, Dialled, TookOver, Told
<1>6. QED
  BY <1>2, <1>5

\* No task changes.
LEMMA SameTasks ==
  ASSUME OtherTypes, Commands, tasks' = tasks, had' = had
  PROVE  tasks' \in TaskMap /\ Commands'
  BY DEF OtherTypes, Commands, Means, Wanted, Dialled, TookOver, Told

\* A task that is over.
LEMMA OverInv ==
  ASSUME OtherTypes, Commands, NEW t \in Task, Over(t), had' = had
  PROVE  tasks' \in TaskMap /\ Commands'
<1>1. /\ Idle \in TaskRecord /\ Idle.kind = "none" /\ Idle.means = "book"
      /\ Idle.step = "lookup"
  BY DEF Idle, TaskRecord
<1>2. Means(Idle) /\ Wanted(Idle) /\ Dialled(Idle)
  BY <1>1 DEF Means, Wanted, Dialled
<1>3. QED
  BY <1>1, <1>2, OneTask DEF Over

\* A task that dials.
LEMMA NowInv ==
  ASSUME OtherTypes, Commands, NEW t \in Task, NEW m \in {"dht", "relay", "book"},
         NEW v \in Addr \cup {None}, Now(t, m, "dial", v), had' = had,
         IF m = "relay" THEN v = None ELSE v \in Addr,
         m # "book" => tasks[t].kind = "msg",
         Distinct /\ tasks[t].kind = "msg" /\ v # None =>
           \E p \in tasks[t].meant : v \in Told(p)
  PROVE  tasks' \in TaskMap /\ Commands'
<1>1. tasks[t] \in TaskRecord /\ Means(tasks[t]) /\ Wanted(tasks[t])
  BY TaskFacts
<1>2. PICK k : k = [tasks[t] EXCEPT !.means = m, !.step = "dial", !.via = v, !.at = None]
  OBVIOUS
<1>3. /\ k \in TaskRecord /\ k.kind = tasks[t].kind /\ k.meant = tasks[t].meant
      /\ k.target = tasks[t].target /\ k.means = m /\ k.step = "dial" /\ k.via = v
  BY <1>1, <1>2 DEF TaskRecord
<1>4. tasks' = [tasks EXCEPT ![t] = k]
  <2>1. tasks \in [Task -> TaskRecord]
    BY DEF OtherTypes, TaskMap
  <2>2. QED
    BY <1>2, <2>1 DEF Now, TaskRecord
<1>5. Means(k) /\ Wanted(k)
  BY <1>1, <1>3 DEF Means, Wanted
<1>6. Distinct => Dialled(k)
  BY <1>3 DEF Dialled
<1>7. QED
  BY <1>3, <1>4, <1>5, <1>6, OneTask

\* A task whose address p answered at.
LEMMA RequestInv ==
  ASSUME OtherTypes, Commands, NEW t \in Task, NEW p \in Peer, Request(t, p), had' = had,
         tasks[t].step = "dial", tasks[t].via \in Addr,
         Distinct /\ tasks[t].kind = "msg" => TookOver(tasks[t].meant, p, tasks[t].via)
  PROVE  tasks' \in TaskMap /\ Commands'
<1>1. tasks[t] \in TaskRecord /\ Means(tasks[t]) /\ Wanted(tasks[t])
  BY TaskFacts
<1>2. PICK a \in Addr : a = tasks[t].via
  OBVIOUS
<1>3. PICK k : k = [tasks[t] EXCEPT !.step = "request", !.via = p, !.at = a]
  OBVIOUS
<1>4. /\ k \in TaskRecord /\ k.kind = tasks[t].kind /\ k.meant = tasks[t].meant
      /\ k.target = tasks[t].target /\ k.means = tasks[t].means
      /\ k.step = "request" /\ k.via = p /\ k.at = a
  BY <1>1, <1>3 DEF TaskRecord
<1>5. tasks' = [tasks EXCEPT ![t] = k]
  <2>1. tasks \in [Task -> TaskRecord]
    BY DEF OtherTypes, TaskMap
  <2>2. QED
    BY <1>2, <1>3, <2>1 DEF Request, TaskRecord
<1>6. Means(k) /\ Wanted(k)
  BY <1>1, <1>4 DEF Means, Wanted
<1>7. Distinct => Dialled(k)
  BY <1>2, <1>4 DEF Dialled
<1>8. QED
  BY <1>4, <1>5, <1>6, <1>7, OneTask

\* An address of the book is one that who fits the id told.
LEMMA AddressFacts ==
  ASSUME Book, NEW i \in Id, AddressOf(i) # None
  PROVE  AddressOf(i) \in Addr /\ (Distinct => Justified(i, AddressOf(i)))
<1>1. contacts \in ContactMap /\ routes \in RouteMap
  BY DEF Book, BookTypes
<1>2. CASE AddressOf(i) = routes[i]
  BY <1>1, <1>2, MapFacts DEF Book, BookJustified, RoutesJustified
<1>3. CASE contacts[i] # None /\ AddressOf(i) = contacts[i].addr
  BY <1>1, <1>3, MapFacts DEF Book, BookJustified, ContactsJustified
<1>4. QED
  BY <1>2, <1>3 DEF AddressOf

\* A task turns to its next means.
LEMMA NextMeansInv ==
  ASSUME Book, OtherTypes, Commands, NEW t \in Task, NextMeans(t), had' = had
  PROVE  tasks' \in TaskMap /\ Commands'
<1>1. Means(tasks[t]) /\ Wanted(tasks[t])
  BY TaskFacts
<1>2. CASE tasks[t].means = "dht" /\ Now(t, "relay", "dial", None)
  <2>1. tasks[t].kind = "msg"
    BY <1>1, <1>2 DEF Means
  <2>2. QED
    BY <1>2, <2>1, NowInv
<1>3. ASSUME NEW a \in LastResort(t), Now(t, "book", "dial", a)
      PROVE  tasks' \in TaskMap /\ Commands'
  <2>1. tasks[t].means # "book" /\ a = AddressOf(tasks[t].target) /\ a # None
    BY DEF LastResort
  <2>2. tasks[t].target \in Id
    BY <1>1, <2>1 DEF Means
  <2>3. a \in Addr /\ (Distinct => Justified(tasks[t].target, a))
    BY <2>1, <2>2, AddressFacts
  <2>4. tasks[t].kind = "msg"
    BY <1>1, <2>1 DEF Means
  <2>5. Distinct => \E p \in tasks[t].meant : a \in Told(p)
    BY <1>1, <2>3, <2>4 DEF Wanted, Justified
  <2>6. QED
    BY <1>3, <2>3, <2>5, NowInv
<1>4. CASE Over(t)
  BY <1>4, OverInv
<1>5. QED
  BY <1>2, <1>3, <1>4 DEF NextMeans

\* A message that is given to p was meant for p, or p answered where it dialled.
LEMMA DeliverFacts ==
  ASSUME NEW meant, NEW p, NEW a, Deliver(meant, p, a), had' = had,
         p \in sessions => p \in meant \/ TookOver(meant, p, a)
  PROVE  Addressee'
<1>1. CASE sent' = {}
  BY <1>1 DEF Addressee
<1>2. CASE p \in sessions /\ sent' = {[meant |-> meant, to |-> p, at |-> a]}
  <2>1. PICK m : m = [meant |-> meant, to |-> p, at |-> a]
    OBVIOUS
  <2>2. m.meant = meant /\ m.to = p /\ m.at = a /\ sent' = {m}
    BY <1>2, <2>1
  <2>3. a \in Addr => a # None
    BY AddressesAssumption
  <2>4. QED
    BY <1>2, <2>2, <2>3 DEF Addressee, TookOver
<1>3. QED
  BY <1>1, <1>2 DEF Deliver

\* No message is given to anybody.
LEMMA QuietFacts == Quiet => Addressee'
  BY DEF Quiet, Addressee

\* The parts of the invariant together, for steps that move no peer.
LEMMA Assemble ==
  ASSUME IInv, Book', sessions' \subseteq Peer, pending' \subseteq Peer, tasks' \in TaskMap,
         Commands', owner' = owner, had' = had,
         commands' = commands \/ commands' = commands + 1,
         Left' >= 0, Distinct => Addressee'
  PROVE  IInv'
<1>1. commands' \in Nat /\ faults' \in Nat /\ MaxEvents \in Nat
  BY AddressesAssumption DEF IInv, OtherTypes, Book, BookTypes
<1>2. commands' + faults' <= MaxEvents
  <2>1. MaxEvents - commands' - faults' >= 0
    BY DEF Left
  <2>2. \A m, c, f \in Nat : m - c - f >= 0 => c + f <= m
    OBVIOUS
  <2>3. QED
    BY <1>1, <2>1, <2>2
<1>3. OtherTypes'
  BY <1>1, <1>2 DEF IInv, OtherTypes
<1>4. Owners'
  BY DEF IInv, Owners
<1>5. Distinct' => Distinct
  BY DEF Distinct
<1>6. QED
  BY <1>3, <1>4, <1>5 DEF IInv

-----------------------------------------------------------------------------
(* Actions: commands *)

\* /add: the entry has the name that was saved, and an address of who fits it.
LEMMA AddContactInv ==
  ASSUME IInv, Left' >= 0, NEW i \in Id, NEW n \in Nick, NEW a \in Addr \cup {None},
         NEW p \in Peer, Fits(p, i), a \in had[p] \cup {None}, AddContact(i, n, a)
  PROVE  IInv' /\ (Distinct => Lasting)
<1>1. PICK r \in Expanded(i) :
        Change([contacts EXCEPT ![r.id] = [nick |-> n, addr |-> a]],
               IF a = None THEN routes ELSE [routes EXCEPT ![r.id] = a], File)
  BY DEF AddContact
<1>2. /\ saved' = saved \cup {<<n, i>>} /\ commands' = commands + 1
      /\ sessions' = sessions /\ pending' = pending /\ tasks' = tasks
      /\ owner' = owner /\ had' = had /\ Quiet
  BY DEF AddContact, Command, peers, network
<1>3. /\ Book /\ OtherTypes /\ Commands /\ sessions \subseteq Peer /\ pending \subseteq Peer
      /\ contacts \in ContactMap /\ routes \in RouteMap
  BY DEF IInv, OtherTypes, Book, BookTypes
<1>4. r.id \in Id /\ Fits(r.id, i) /\ (r.id = i \/ r.id \in Peer)
  BY <1>3, ExpandedFacts DEF Id
<1>5. PICK e : e = [nick |-> n, addr |-> a]
  OBVIOUS
<1>6. e \in Contact /\ e.nick = n /\ e.addr = a /\ e # None
  BY <1>5, MapFacts DEF Contact
<1>7. PICK c, s : /\ c = [contacts EXCEPT ![r.id] = e]
                  /\ s = IF a = None THEN routes ELSE [routes EXCEPT ![r.id] = a]
  OBVIOUS
<1>8. c \in ContactMap /\ \A l \in Id : c[l] = IF l = r.id THEN e ELSE contacts[l]
  <2>1. /\ [contacts EXCEPT ![r.id] = e] \in ContactMap
        /\ \A l \in Id : [contacts EXCEPT ![r.id] = e][l] = IF l = r.id THEN e ELSE contacts[l]
    BY <1>3, <1>4, <1>6, EntryFacts
  <2>2. QED
    BY <1>7, <2>1
<1>9. /\ s \in RouteMap
      /\ \A l \in Id : s[l] = IF a # None /\ l = r.id THEN a ELSE routes[l]
  <2>1. /\ [routes EXCEPT ![r.id] = a] \in RouteMap
        /\ \A l \in Id : [routes EXCEPT ![r.id] = a][l] = IF l = r.id THEN a ELSE routes[l]
    BY <1>3, <1>4, EntryFacts
  <2>2. QED
    BY <1>3, <1>7, <2>1
<1>10. Change(c, s, File) /\ contacts' = c /\ routes' = s
  BY <1>1, <1>5, <1>7 DEF Change
<1>11. \A l \in Id : c[l] # None => \E x \in saved' : x[1] = c[l].nick /\ Fits(l, x[2])
  <2> SUFFICES ASSUME NEW l \in Id, c[l] # None
               PROVE  \E x \in saved' : x[1] = c[l].nick /\ Fits(l, x[2])
    OBVIOUS
  <2>1. CASE l = r.id
    <3>1. PICK x : x = <<n, i>>
      OBVIOUS
    <3>2. x \in saved' /\ x[1] = n /\ x[2] = i
      BY <1>2, <3>1
    <3>3. QED
      BY <1>4, <1>6, <1>8, <2>1, <3>2
  <2>2. CASE l # r.id
    BY <1>2, <1>3, <1>8, <2>2 DEF Book, Names, NamesOf
  <2>3. QED
    BY <2>1, <2>2
<1>12. RoutedBy(contacts, routes) => RoutedBy(c, s)
  BY <1>6, <1>8, <1>9 DEF RoutedBy
<1>13. Distinct /\ BookJustified => ContactsJustified(c) /\ RoutesJustified(s)
  <2> SUFFICES ASSUME Distinct, BookJustified
               PROVE  ContactsJustified(c) /\ RoutesJustified(s)
    OBVIOUS
  <2>1. a # None => Justified(r.id, a)
    <3>1. \A q \in Peer : Fits(q, r.id) => q = p
      BY <1>4, FitFacts
    <3>2. \E q \in Peer : Fits(q, r.id)
      BY <1>4, FitFacts
    <3>3. QED
      BY <3>1, <3>2 DEF Justified, Told
  <2>2. QED
    BY <1>6, <1>8, <1>9, <2>1 DEF BookJustified, ContactsJustified, RoutesJustified
<1>14. saved \subseteq saved'
  BY <1>2
<1>15. "contacts" \in File /\ "routes" \in File
  BY DEF File
<1>16. Book'
  BY <1>2, <1>3, <1>8, <1>9, <1>10, <1>11, <1>12, <1>13, <1>14, <1>15, ChangeInv
<1>17. Distinct => Lasting
  <2>1. /\ \A l \in Id : contacts[l] # None => c[l] # None
        /\ \A l \in Id : routes[l] # None => s[l] # None
    BY <1>6, <1>8, <1>9
  <2>2. QED
    BY <1>3, <1>8, <1>9, <1>10, <2>1, LastingFacts
<1>18. tasks' \in TaskMap /\ Commands' /\ Addressee'
  BY <1>2, <1>3, SameTasks, QuietFacts
<1>19. QED
  BY <1>2, <1>3, <1>16, <1>17, <1>18, Assemble

\* /remove
LEMMA RemoveContactInv ==
  ASSUME IInv, Left' >= 0, NEW k, RemoveContact(k)
  PROVE  IInv'
<1>1. PICK i \in Removable(k) :
        Change([contacts EXCEPT ![i] = None], [routes EXCEPT ![i] = None], File)
  BY DEF RemoveContact
<1>2. /\ saved' = saved /\ commands' = commands + 1
      /\ sessions' = sessions /\ pending' = pending /\ tasks' = tasks
      /\ owner' = owner /\ had' = had /\ Quiet
  BY DEF RemoveContact, Command, peers, network
<1>3. /\ Book /\ OtherTypes /\ Commands /\ sessions \subseteq Peer /\ pending \subseteq Peer
      /\ contacts \in ContactMap /\ routes \in RouteMap
  BY DEF IInv, OtherTypes, Book, BookTypes
<1>4. i \in Id
  BY DEF Removable, Named, Entries
<1>5. PICK c, s : c = [contacts EXCEPT ![i] = None] /\ s = [routes EXCEPT ![i] = None]
  OBVIOUS
<1>6. c \in ContactMap /\ \A l \in Id : c[l] = IF l = i THEN None ELSE contacts[l]
  <2>1. /\ [contacts EXCEPT ![i] = None] \in ContactMap
        /\ \A l \in Id : [contacts EXCEPT ![i] = None][l] = IF l = i THEN None ELSE contacts[l]
    BY <1>3, <1>4, EntryFacts
  <2>2. QED
    BY <1>5, <2>1
<1>7. s \in RouteMap /\ \A l \in Id : s[l] = IF l = i THEN None ELSE routes[l]
  <2>1. /\ [routes EXCEPT ![i] = None] \in RouteMap
        /\ \A l \in Id : [routes EXCEPT ![i] = None][l] = IF l = i THEN None ELSE routes[l]
    BY <1>3, <1>4, EntryFacts
  <2>2. QED
    BY <1>5, <2>1
<1>8. Change(c, s, File)
  BY <1>1, <1>5
<1>9. \A l \in Id : c[l] # None => \E x \in saved' : x[1] = c[l].nick /\ Fits(l, x[2])
  BY <1>2, <1>3, <1>6 DEF Book, Names, NamesOf
<1>10. RoutedBy(contacts, routes) => RoutedBy(c, s)
  BY <1>6, <1>7 DEF RoutedBy
<1>11. BookJustified => ContactsJustified(c) /\ RoutesJustified(s)
  BY <1>6, <1>7 DEF BookJustified, ContactsJustified, RoutesJustified
<1>12. "contacts" \in File /\ "routes" \in File /\ saved \subseteq saved'
  BY <1>2 DEF File
<1>13. Book'
  BY <1>2, <1>3, <1>6, <1>7, <1>8, <1>9, <1>10, <1>11, <1>12, ChangeInv
<1>14. tasks' \in TaskMap /\ Commands' /\ Addressee'
  BY <1>2, <1>3, SameTasks, QuietFacts
<1>15. QED
  BY <1>2, <1>3, <1>13, <1>14, Assemble

\* /msg, up to its first await: what it looks for was meant.
LEMMA MessageInv ==
  ASSUME IInv, Left' >= 0, NEW t \in Task, NEW k, Message(t, k)
  PROVE  IInv' /\ (Distinct => Lasting)
<1>1. PICK r \in Resolutions(k) :
        /\ r.id \in Id /\ Promote(r.from, r.id) /\ Deliver(Meant(k), r.id, None)
        /\ tasks' = IF r.id \in sessions THEN tasks
             ELSE [tasks EXCEPT ![t] = [kind |-> "msg", meant |-> Meant(k), target |-> r.id,
                                        means |-> "dht", step |-> "lookup",
                                        via |-> None, at |-> None]]
  BY DEF Message
<1>2. /\ saved' = saved /\ commands' = commands + 1
      /\ sessions' = sessions /\ pending' = pending /\ owner' = owner /\ had' = had
  BY DEF Message, Command, peers, network
<1>3. Book /\ OtherTypes /\ Commands /\ sessions \subseteq Peer /\ pending \subseteq Peer
  BY DEF IInv, OtherTypes
<1>4. /\ r.from \in Id /\ Fits(r.id, r.from)
      /\ \A p \in Peer : Fits(p, r.id) => p \in Meant(k)
  BY <1>1, <1>3, ResolutionFacts
<1>5. Book' /\ (Distinct => Lasting)
  BY <1>1, <1>2, <1>3, <1>4, PromoteInv
<1>6. Addressee'
  <2>1. r.id \in sessions => r.id \in Meant(k)
    BY <1>3, <1>4, FitFacts
  <2>2. QED
    BY <1>1, <1>2, <2>1, DeliverFacts
<1>7. tasks' \in TaskMap /\ Commands'
  <2>1. CASE tasks' = tasks
    BY <1>2, <1>3, <2>1, SameTasks
  <2>2. PICK m : m = [kind |-> "msg", meant |-> Meant(k), target |-> r.id,
                      means |-> "dht", step |-> "lookup", via |-> None, at |-> None]
    OBVIOUS
  <2>3. /\ m \in TaskRecord /\ m.kind = "msg" /\ m.meant = Meant(k) /\ m.target = r.id
        /\ m.means = "dht" /\ m.step = "lookup" /\ m.via = None
    BY <1>1, <2>2 DEF TaskRecord, Meant
  <2>4. Means(m) /\ Wanted(m) /\ Dialled(m)
    BY <1>1, <1>4, <2>3 DEF Means, Wanted, Dialled
  <2>5. CASE tasks' = [tasks EXCEPT ![t] = m]
    BY <1>2, <1>3, <2>3, <2>4, <2>5, OneTask
  <2>6. QED
    BY <1>1, <2>1, <2>2, <2>5
<1>8. QED
  BY <1>2, <1>3, <1>5, <1>6, <1>7, Assemble

\* A connect that starts.
LEMMA ConnectTask ==
  ASSUME OtherTypes, Commands, had' = had, NEW t \in Task, NEW k \in TaskRecord,
         k.kind = "connect", k.means = "book", k.step \in {"lookup", "dial"},
         k.step = "dial" => k.via \in Addr, tasks' = [tasks EXCEPT ![t] = k]
  PROVE  tasks' \in TaskMap /\ Commands'
<1>1. Means(k) /\ Wanted(k) /\ Dialled(k)
  BY DEF Means, Wanted, Dialled
<1>2. QED
  BY <1>1, OneTask

\* /connect with an id or a nickname.
LEMMA ConnectInv ==
  ASSUME IInv, Left' >= 0, NEW t \in Task, NEW k, Connect(t, k)
  PROVE  IInv' /\ (Distinct => Lasting)
<1>1. PICK r \in Resolutions(k) :
        /\ r.id \in Id /\ Promote(r.from, r.id)
        /\ LET task == [Idle EXCEPT !.kind = "connect", !.target = r.id] IN
           \/ Known(r.id) = {} /\ tasks' = [tasks EXCEPT ![t] = task]
           \/ \E a \in Known(r.id) : MayDial(t, a) /\
                tasks' = [tasks EXCEPT ![t] = [task EXCEPT !.step = "dial", !.via = a]]
  BY DEF Connect
<1>2. /\ saved' = saved /\ commands' = commands + 1 /\ Quiet
      /\ sessions' = sessions /\ pending' = pending /\ owner' = owner /\ had' = had
  BY DEF Connect, Command, peers, network
<1>3. Book /\ OtherTypes /\ Commands /\ sessions \subseteq Peer /\ pending \subseteq Peer
  BY DEF IInv, OtherTypes
<1>4. Book' /\ (Distinct => Lasting)
  BY <1>1, <1>2, <1>3, PromoteInv, ResolutionFacts
<1>5. \A a \in Known(r.id) : a \in Addr
  BY <1>1, <1>3, AddressFacts DEF Known
<1>6. CASE tasks' = [tasks EXCEPT ![t] = [Idle EXCEPT !.kind = "connect", !.target = r.id]]
  <2>1. PICK m : m = [Idle EXCEPT !.kind = "connect", !.target = r.id]
    OBVIOUS
  <2>2. /\ m \in TaskRecord /\ m.kind = "connect" /\ m.means = "book"
        /\ m.step = "lookup"
    BY <1>1, <2>1 DEF Idle, TaskRecord
  <2>3. tasks' = [tasks EXCEPT ![t] = m]
    BY <1>6, <2>1
  <2>4. tasks' \in TaskMap /\ Commands'
    BY <1>2, <1>3, <2>2, <2>3, ConnectTask
  <2>5. QED
    BY <1>2, <1>3, <1>4, <2>4, QuietFacts, Assemble
<1>7. ASSUME NEW a \in Known(r.id),
             tasks' = [tasks EXCEPT ![t] = [[Idle EXCEPT !.kind = "connect", !.target = r.id]
                                              EXCEPT !.step = "dial", !.via = a]]
      PROVE  IInv'
  <2>1. PICK m : m = [[Idle EXCEPT !.kind = "connect", !.target = r.id]
                        EXCEPT !.step = "dial", !.via = a]
    OBVIOUS
  <2>2. /\ m \in TaskRecord /\ m.kind = "connect" /\ m.means = "book"
        /\ m.step = "dial" /\ m.via \in Addr
    BY <1>1, <1>5, <2>1 DEF Idle, TaskRecord
  <2>3. tasks' = [tasks EXCEPT ![t] = m]
    BY <1>7, <2>1
  <2>4. tasks' \in TaskMap /\ Commands'
    BY <1>2, <1>3, <2>2, <2>3, ConnectTask
  <2>5. QED
    BY <1>2, <1>3, <1>4, <2>4, QuietFacts, Assemble
<1>8. QED
  BY <1>1, <1>4, <1>6, <1>7

\* /connect with an address.
LEMMA ConnectToInv ==
  ASSUME IInv, Left' >= 0, NEW t \in Task, NEW a \in Addr, ConnectTo(t, a)
  PROVE  IInv' /\ (Distinct => Lasting)
<1>1. /\ tasks' = [tasks EXCEPT ![t] = [Idle EXCEPT !.kind = "connect", !.step = "dial",
                                                    !.via = a]]
      /\ UNCHANGED book /\ saved' = saved /\ commands' = commands + 1 /\ Quiet
      /\ sessions' = sessions /\ pending' = pending /\ owner' = owner /\ had' = had
  BY DEF ConnectTo, Command, peers, network
<1>2. Book /\ OtherTypes /\ Commands /\ sessions \subseteq Peer /\ pending \subseteq Peer
  BY DEF IInv, OtherTypes
<1>3. Book' /\ Lasting
  BY <1>1, <1>2, SameBook
<1>4. PICK m : m = [Idle EXCEPT !.kind = "connect", !.step = "dial", !.via = a]
  OBVIOUS
<1>5. /\ m \in TaskRecord /\ m.kind = "connect" /\ m.means = "book"
      /\ m.step = "dial" /\ m.via \in Addr
  BY <1>4 DEF Idle, TaskRecord
<1>6. tasks' = [tasks EXCEPT ![t] = m]
  BY <1>1, <1>4
<1>7. tasks' \in TaskMap /\ Commands'
  BY <1>1, <1>2, <1>5, <1>6, ConnectTask
<1>8. QED
  BY <1>1, <1>2, <1>3, <1>7, QuietFacts, Assemble

-----------------------------------------------------------------------------
(* Actions: steps of commands *)

\* A lookup in the DHT finds an address of the peer itself, or nothing.
LEMMA LookupInv ==
  ASSUME IInv, Left' >= 0, NEW t \in Task, Lookup(t)
  PROVE  IInv' /\ (Distinct => Lasting)
<1>1. /\ UNCHANGED book /\ saved' = saved /\ commands' = commands /\ Quiet
      /\ sessions' = sessions /\ pending' = pending /\ owner' = owner /\ had' = had
  BY DEF Lookup, peers, network
<1>2. Book /\ OtherTypes /\ Commands /\ sessions \subseteq Peer /\ pending \subseteq Peer
  BY DEF IInv, OtherTypes
<1>3. Book' /\ Lasting
  BY <1>1, <1>2, SameBook
<1>4. CASE NextMeans(t)
  BY <1>1, <1>2, <1>3, <1>4, NextMeansInv, QuietFacts, Assemble
<1>5. ASSUME tasks[t].target \in Peer, tasks[t].step = "lookup",
             NEW a \in had[tasks[t].target], Now(t, tasks[t].means, "dial", a)
      PROVE  IInv'
  <2>1. /\ tasks[t].means \in {"dht", "relay", "book"} /\ tasks[t].means # "relay"
        /\ tasks[t].means # "book" => tasks[t].kind = "msg"
        /\ a \in Addr
    BY <1>2, <1>5, TaskFacts DEF TaskRecord, Means
  <2>2. tasks[t].kind = "msg" => \E p \in tasks[t].meant : a \in Told(p)
    BY <1>2, <1>5, TaskFacts, FitFacts DEF Wanted, Told
  <2>3. tasks' \in TaskMap /\ Commands'
    BY <1>1, <1>2, <1>5, <2>1, <2>2, NowInv
  <2>4. QED
    BY <1>1, <1>2, <1>3, <2>3, QuietFacts, Assemble
<1>6. QED
  BY <1>3, <1>4, <1>5 DEF Lookup

\* A dial or a handshake that fails.
LEMMA DialFailsInv ==
  ASSUME IInv, Left' >= 0, NEW t \in Task, DialFails(t)
  PROVE  IInv' /\ (Distinct => Lasting)
<1>1. /\ UNCHANGED book /\ saved' = saved /\ commands' = commands /\ Quiet
      /\ sessions' = sessions /\ pending' = pending /\ owner' = owner /\ had' = had
      /\ NextMeans(t)
  BY DEF DialFails, peers, network
<1>2. Book /\ OtherTypes /\ Commands /\ sessions \subseteq Peer /\ pending \subseteq Peer
  BY DEF IInv, OtherTypes
<1>3. Book' /\ Lasting
  BY <1>1, <1>2, SameBook
<1>4. QED
  BY <1>1, <1>2, <1>3, NextMeansInv, QuietFacts, Assemble

\* Who answers where a message dialled took the address over.
LEMMA AnswererFacts ==
  ASSUME IInv, NEW t \in Task, tasks[t].step = "dial", tasks[t].via # None,
         NEW p, p = owner[tasks[t].via], p # None
  PROVE  /\ p \in Peer /\ tasks[t].via \in Addr
         /\ Distinct /\ tasks[t].kind = "msg" => TookOver(tasks[t].meant, p, tasks[t].via)
<1>1. tasks[t].via \in Addr
  BY TaskFacts DEF IInv, Means
<1>2. p \in Peer /\ tasks[t].via \in had[p] /\ tasks[t].via # Nowhere
  BY <1>1, TaskFacts DEF IInv, Owners
<1>3. ASSUME Distinct, tasks[t].kind = "msg"
      PROVE  TookOver(tasks[t].meant, p, tasks[t].via)
  <2>1. PICK q \in tasks[t].meant : tasks[t].via \in Told(q)
    BY <1>3, TaskFacts DEF IInv, Dialled
  <2>2. tasks[t].via \in had[q]
    BY <1>2, <2>1 DEF Told
  <2>3. QED
    BY <1>1, <1>2, <2>2 DEF TookOver
<1>4. QED
  BY <1>1, <1>2, <1>3

\* A handshake that is done.
LEMMA AnswerInv ==
  ASSUME IInv, Left' >= 0, NEW t \in Task, Answer(t)
  PROVE  IInv' /\ (Distinct => Lasting)
<1>1. PICK k, p : k = tasks[t] /\ p = owner[k.via]
  OBVIOUS
<1>2. /\ k.step = "dial" /\ k.via # None /\ p # None
      /\ saved' = saved /\ commands' = commands /\ sessions' = sessions
      /\ owner' = owner /\ had' = had
      /\ \/ /\ p \in sessions /\ PromoteAny(ShortOf(p) \cup AtEnd(k, p), p)
            /\ Over(t) /\ Returns(k, p, k.via) /\ pending' = pending
         \/ /\ p \notin sessions /\ PromoteContact(p) /\ pending' = pending \cup {p}
            /\ Request(t, p) /\ Quiet
  BY <1>1 DEF Answer, network
<1>3. Book /\ OtherTypes /\ Commands /\ sessions \subseteq Peer /\ pending \subseteq Peer
  BY DEF IInv, OtherTypes
<1>4. /\ p \in Peer /\ k.via \in Addr
      /\ Distinct /\ k.kind = "msg" => TookOver(k.meant, p, k.via)
  BY <1>1, <1>2, AnswererFacts
<1>5. k \in TaskRecord
  BY <1>1, <1>3, TaskFacts
<1>6. CASE /\ p \in sessions /\ PromoteAny(ShortOf(p) \cup AtEnd(k, p), p)
           /\ Over(t) /\ Returns(k, p, k.via) /\ pending' = pending
  <2>1. PICK ids : ids = ShortOf(p) \cup AtEnd(k, p)
    OBVIOUS
  <2>2. ids \in SUBSET Id /\ \A i \in ids : Fits(p, i)
    BY <1>4, <1>5, <2>1, ShowsUp
  <2>3. Book' /\ (Distinct => Lasting)
    BY <1>2, <1>3, <1>4, <1>6, <2>1, <2>2, PromoteAnyInv
  <2>4. tasks' \in TaskMap /\ Commands'
    BY <1>2, <1>3, <1>6, OverInv
  <2>5. Distinct => Addressee'
    BY <1>2, <1>4, <1>6, DeliverFacts, QuietFacts DEF Returns
  <2>6. QED
    BY <1>2, <1>3, <1>6, <2>3, <2>4, <2>5, Assemble
<1>7. CASE /\ p \notin sessions /\ PromoteContact(p) /\ pending' = pending \cup {p}
           /\ Request(t, p) /\ Quiet
  <2>1. Book' /\ (Distinct => Lasting)
    BY <1>2, <1>3, <1>4, <1>7, PromoteContactInv
  <2>2. tasks' \in TaskMap /\ Commands'
    BY <1>1, <1>2, <1>3, <1>4, <1>7, RequestInv
  <2>3. pending' \subseteq Peer
    BY <1>3, <1>4, <1>7
  <2>4. QED
    BY <1>2, <1>3, <1>7, <2>1, <2>2, <2>3, QuietFacts, Assemble
<1>8. QED
  BY <1>2, <1>6, <1>7

\* A request that is sent.
LEMMA RequestedInv ==
  ASSUME IInv, Left' >= 0, NEW t \in Task, Requested(t)
  PROVE  IInv' /\ (Distinct => Lasting)
<1>1. PICK k, p : k = tasks[t] /\ p = k.via
  OBVIOUS
<1>2. /\ k.step = "request" /\ PromoteAny(AtEnd(k, p), p) /\ Over(t) /\ Returns(k, p, k.at)
      /\ saved' = saved /\ commands' = commands /\ sessions' = sessions
      /\ pending' = pending /\ owner' = owner /\ had' = had
  BY <1>1 DEF Requested, peers, network
<1>3. Book /\ OtherTypes /\ Commands /\ sessions \subseteq Peer /\ pending \subseteq Peer
  BY DEF IInv, OtherTypes
<1>4. k \in TaskRecord /\ p \in Peer /\ (Distinct => Dialled(k))
  BY <1>1, <1>2, <1>3, TaskFacts DEF Means
<1>5. PICK ids : ids = AtEnd(k, p)
  OBVIOUS
<1>6. ids \in SUBSET Id /\ \A i \in ids : Fits(p, i)
  BY <1>4, <1>5, ShowsUp
<1>7. Book' /\ (Distinct => Lasting)
  BY <1>2, <1>3, <1>4, <1>5, <1>6, PromoteAnyInv
<1>8. Distinct /\ k.kind = "msg" => TookOver(k.meant, p, k.at)
  BY <1>1, <1>2, <1>4 DEF Dialled
<1>9. Distinct => Addressee'
  BY <1>2, <1>8, DeliverFacts, QuietFacts DEF Returns
<1>10. QED
  BY <1>2, <1>3, <1>7, <1>9, OverInv, Assemble

\* An answer over the relay comes from the peer itself.
LEMMA RelayAnswersInv ==
  ASSUME IInv, Left' >= 0, NEW t \in Task, RelayAnswers(t)
  PROVE  IInv' /\ (Distinct => Lasting)
<1>1. PICK k : k = tasks[t]
  OBVIOUS
<1>2. /\ k.means = "relay" /\ k.target \in Peer /\ PromoteContact(k.target)
      /\ sessions' = sessions \cup {k.target}
      /\ sent' = {[meant |-> k.meant, to |-> k.target, at |-> None]} /\ Over(t)
      /\ saved' = saved /\ commands' = commands /\ pending' = pending
      /\ owner' = owner /\ had' = had
  BY <1>1 DEF RelayAnswers, network
<1>3. Book /\ OtherTypes /\ Commands /\ sessions \subseteq Peer /\ pending \subseteq Peer
  BY DEF IInv, OtherTypes
<1>4. k.target \in k.meant
  BY <1>1, <1>2, <1>3, TaskFacts, FitFacts DEF Means, Wanted
<1>5. Addressee'
  BY <1>2, <1>4 DEF Addressee
<1>6. Book' /\ (Distinct => Lasting)
  BY <1>2, <1>3, PromoteContactInv
<1>7. sessions' \subseteq Peer
  BY <1>2, <1>3
<1>8. QED
  BY <1>2, <1>3, <1>5, <1>6, <1>7, OverInv, Assemble

-----------------------------------------------------------------------------
(* Actions: peers *)

\* A peer that asks for a session, or has one over the relay.
LEMMA IncomingInv ==
  ASSUME IInv, Left' >= 0, NEW p \in Peer, Incoming(p)
  PROVE  IInv' /\ (Distinct => Lasting)
<1>1. /\ PromoteContact(p) /\ tasks' = tasks /\ Quiet
      /\ saved' = saved /\ commands' = commands /\ owner' = owner /\ had' = had
      /\ \/ pending' = pending \cup ({p} \ sessions) /\ sessions' = sessions
         \/ sessions' = sessions \cup {p} /\ pending' = pending
  BY DEF Incoming, network
<1>2. Book /\ OtherTypes /\ Commands /\ sessions \subseteq Peer /\ pending \subseteq Peer
  BY DEF IInv, OtherTypes
<1>3. sessions' \subseteq Peer /\ pending' \subseteq Peer
  BY <1>1, <1>2
<1>4. QED
  BY <1>1, <1>2, <1>3, PromoteContactInv, SameTasks, QuietFacts, Assemble

\* A session that is accepted, with the route that the peer told.
LEMMA AcceptConnectionInv ==
  ASSUME IInv, Left' >= 0, NEW k, AcceptConnection(k)
  PROVE  IInv' /\ (Distinct => Lasting)
<1>1. PICK r \in Resolutions(k) :
        /\ r.id \in Peer /\ Activate(r.id)
        /\ \E a \in Told(r.id) : PromoteAndRoute(r.from, r.id, a)
  BY DEF AcceptConnection
<1>2. /\ tasks' = tasks /\ Quiet
      /\ saved' = saved /\ commands' = commands /\ owner' = owner /\ had' = had
  BY DEF AcceptConnection, network
<1>3. Book /\ OtherTypes /\ Commands /\ sessions \subseteq Peer /\ pending \subseteq Peer
  BY DEF IInv, OtherTypes
<1>4. r.from \in Id /\ Fits(r.id, r.from) /\ had[r.id] \subseteq Addr
  BY <1>1, <1>3, ResolutionFacts, TaskFacts DEF Id
<1>5. Book' /\ (Distinct => Lasting)
  BY <1>1, <1>2, <1>3, <1>4, PromoteAndRouteInv
<1>6. sessions' \subseteq Peer /\ pending' \subseteq Peer
  BY <1>1, <1>3 DEF Activate
<1>7. QED
  BY <1>2, <1>3, <1>5, <1>6, SameTasks, QuietFacts, Assemble

\* An address of a peer that a session brings.
LEMMA PeerListInv ==
  ASSUME IInv, Left' >= 0, NEW p \in Peer, NEW a \in Addr, PeerList(p, a)
  PROVE  IInv' /\ (Distinct => Lasting)
<1>1. /\ a \in Told(p) /\ PromoteAndRoute(p, p, a) /\ tasks' = tasks /\ Quiet
      /\ sessions' = sessions /\ pending' = pending
      /\ saved' = saved /\ commands' = commands /\ owner' = owner /\ had' = had
  BY DEF PeerList, peers, network
<1>2. Book /\ OtherTypes /\ Commands /\ sessions \subseteq Peer /\ pending \subseteq Peer
  BY DEF IInv, OtherTypes
<1>3. p \in Id /\ Fits(p, p) /\ had[p] \subseteq Addr
  BY <1>2, FitFacts, TaskFacts DEF Id
<1>4. Book' /\ (Distinct => Lasting)
  BY <1>1, <1>2, <1>3, PromoteAndRouteInv
<1>5. QED
  BY <1>1, <1>2, <1>4, SameTasks, QuietFacts, Assemble

\* A session that ends.
LEMMA DisconnectedInv ==
  ASSUME IInv, Left' >= 0, NEW p \in Peer, Disconnected(p)
  PROVE  IInv' /\ (Distinct => Lasting)
<1>1. /\ UNCHANGED book /\ tasks' = tasks /\ Quiet
      /\ sessions' = sessions \ {p} /\ pending' = pending \ {p}
      /\ saved' = saved /\ commands' = commands /\ owner' = owner /\ had' = had
  BY DEF Disconnected, network
<1>2. Book /\ OtherTypes /\ Commands /\ sessions \subseteq Peer /\ pending \subseteq Peer
  BY DEF IInv, OtherTypes
<1>3. sessions' \subseteq Peer /\ pending' \subseteq Peer
  BY <1>1, <1>2
<1>4. QED
  BY <1>1, <1>2, <1>3, SameBook, SameTasks, QuietFacts, Assemble

\* A peer has one more address: what was told of it stays true.
LEMMA MoveInv ==
  ASSUME IInv, Left' >= 0, NEW p \in Peer, NEW a \in Addr, Move(p, a)
  PROVE  IInv' /\ Lasting
<1>1. /\ a # Nowhere /\ owner' = [owner EXCEPT ![a] = p]
      /\ had' = [had EXCEPT ![p] = @ \cup {a}]
      /\ contacts' = contacts /\ routes' = routes /\ file' = file /\ spoiled' = spoiled
      /\ faults' = faults /\ sessions' = sessions /\ pending' = pending /\ tasks' = tasks
      /\ commands' = commands /\ saved' = saved /\ Quiet
  BY DEF Move, book, peers
<1>2. /\ Book /\ OtherTypes /\ Commands /\ Owners
      /\ owner \in [Addr -> Peer \cup {None}] /\ had \in [Peer -> SUBSET Addr]
  BY DEF IInv, OtherTypes
<1>3. owner' \in [Addr -> Peer \cup {None}] /\ had' \in [Peer -> SUBSET Addr]
  BY <1>1, <1>2
<1>4. OtherTypes'
  BY <1>1, <1>2, <1>3 DEF OtherTypes
<1>5. /\ \A q \in Peer : had'[q] = IF q = p THEN had[q] \cup {a} ELSE had[q]
      /\ \A b \in Addr : owner'[b] = IF b = a THEN p ELSE owner[b]
  BY <1>1, <1>2
<1>6. /\ \A q \in Peer : had[q] \subseteq had'[q]
      /\ \A q \in Peer : \A b : b \in Told(q) => b \in Told(q)'
  BY <1>5 DEF Told
<1>7. \A i, b : Justified(i, b) => Justified(i, b)'
  BY <1>6 DEF Justified
<1>8. Book'
  <2>1. BookJustified => BookJustified'
    BY <1>1, <1>7 DEF BookJustified, ContactsJustified, RoutesJustified
  <2>2. BookTypes' /\ Names' /\ Mirrored' /\ Routed'
    BY <1>1, <1>2 DEF Book, BookTypes, Names, NamesOf, Mirrored, Routed, RoutedBy
  <2>3. QED
    BY <1>2, <2>1, <2>2 DEF Book, Distinct
<1>9. Commands'
  <2>1. ASSUME NEW t \in Task
        PROVE  /\ Means(tasks[t])' /\ Wanted(tasks[t])'
               /\ Distinct => Dialled(tasks[t])'
    <3>1. tasks[t].meant \subseteq Peer /\ Means(tasks[t]) /\ Wanted(tasks[t])
      BY <1>2, TaskFacts
    <3>2. Means(tasks[t])' /\ Wanted(tasks[t])'
      BY <1>1, <3>1 DEF Means, Wanted
    <3>3. ASSUME Distinct, tasks[t].kind = "msg"
          PROVE  Dialled(tasks[t])'
      <4>1. Dialled(tasks[t])
        BY <1>2, <3>3, TaskFacts
      <4>2. ASSUME tasks[t].step = "dial", tasks[t].via # None
            PROVE  \E q \in tasks[t].meant : tasks[t].via \in Told(q)'
        BY <1>6, <3>1, <3>3, <4>1, <4>2 DEF Dialled
      <4>3. ASSUME tasks[t].step = "request"
            PROVE  TookOver(tasks[t].meant, tasks[t].via, tasks[t].at)'
        <5>1. TookOver(tasks[t].meant, tasks[t].via, tasks[t].at)
          BY <3>3, <4>1, <4>3 DEF Dialled
        <5>2. tasks[t].meant \subseteq Peer /\ tasks[t].via \in Peer
          BY <3>1, <4>3 DEF Means
        <5>3. QED
          BY <1>1, <1>6, <5>1, <5>2 DEF TookOver
      <4>4. QED
        BY <1>1, <4>2, <4>3 DEF Dialled
    <3>4. QED
      BY <1>1, <3>2, <3>3 DEF Dialled
  <2>2. QED
    BY <2>1 DEF Commands, Distinct
<1>10. Owners'
  <2>1. ASSUME NEW b \in Addr, owner'[b] # None
        PROVE  b \in had'[owner'[b]]
    <3>1. CASE b = a
      BY <1>5, <3>1
    <3>2. CASE b # a
      <4>1. owner'[b] = owner[b] /\ owner[b] \in Peer /\ b \in had[owner[b]]
        BY <1>2, <1>5, <2>1, <3>2, TaskFacts DEF Owners
      <4>2. QED
        BY <1>6, <4>1
    <3>3. QED
      BY <3>1, <3>2
  <2>2. owner'[Nowhere] = None
    BY <1>1, <1>2, <1>5, AddressesAssumption DEF Owners
  <2>3. QED
    BY <2>1, <2>2 DEF Owners
<1>11. Lasting
  BY <1>1 DEF Lasting, HasContact, HasAddress, Entries, AddressOf
<1>12. QED
  BY <1>1, <1>4, <1>8, <1>9, <1>10, <1>11, QuietFacts DEF IInv

\* What ContactsLast says of a step that is no /remove.
Kept ==
  \A p \in Peer : /\ HasContact(p) /\ "contacts" \notin spoiled => HasContact(p)'
                  /\ HasAddress(p) /\ faults = 0 => HasAddress(p)'

\* A crash or a stop, and a start that reads the files.
LEMMA RestartInv ==
  ASSUME IInv, Restart
  PROVE  IInv' /\ Kept
<1>1. /\ contacts' = file["contacts"] /\ routes' = file["routes"]
      /\ sessions' = {} /\ pending' = {} /\ tasks' = [t \in Task |-> Idle]
      /\ file' = file /\ spoiled' = spoiled /\ faults' = faults
      /\ owner' = owner /\ had' = had /\ commands' = commands /\ saved' = saved /\ Quiet
  BY DEF Restart, network
<1>2. Book /\ OtherTypes /\ Owners
  BY DEF IInv
<1>3. /\ "contacts" \notin spoiled => contacts' = contacts
      /\ faults = 0 => contacts' = contacts /\ routes' = routes
  BY <1>1, <1>2 DEF Book, Mirrored
<1>4. Book'
  <2>1. BookTypes' /\ Names' /\ Mirrored'
    BY <1>1, <1>2 DEF Book, BookTypes, Names, NamesOf, Mirrored
  <2>2. Routed'
    BY <1>1, <1>2, <1>3 DEF Book, Routed, RoutedBy
  <2>3. BookJustified => BookJustified'
    BY <1>1 DEF BookJustified, ContactsJustified, RoutesJustified, Justified, Told
  <2>4. QED
    BY <1>2, <2>1, <2>2, <2>3 DEF Book, Distinct
<1>5. /\ Idle \in TaskRecord /\ Idle.kind = "none" /\ Idle.means = "book"
      /\ Idle.step = "lookup"
  BY DEF Idle, TaskRecord
<1>6. Commands'
  BY <1>1, <1>5 DEF Commands, Means, Wanted, Dialled
<1>7. OtherTypes'
  BY <1>1, <1>2, <1>5 DEF OtherTypes, TaskMap
<1>8. Owners'
  BY <1>1, <1>2 DEF Owners
<1>9. Kept
  BY <1>3 DEF Kept, HasContact, HasAddress, Entries, AddressOf
<1>10. QED
  BY <1>1, <1>4, <1>6, <1>7, <1>8, <1>9, QuietFacts DEF IInv

-----------------------------------------------------------------------------
(* Theorems *)

LEMMA InitInv == Init => IInv
<1> SUFFICES ASSUME Init PROVE IInv
  OBVIOUS
<1>1. /\ contacts = Empty /\ routes = Empty
      /\ file["contacts"] = Empty /\ file["routes"] = Empty
      /\ sessions = {} /\ pending = {} /\ sent = {} /\ spoiled = {}
      /\ commands = 0 /\ faults = 0
  BY DEF Init, File
<1>2. /\ Empty \in ContactMap /\ Empty \in RouteMap /\ \A i \in Id : Empty[i] = None
  BY DEF Empty, ContactMap, RouteMap
<1>3. Book
  <2>1. BookTypes
    BY <1>1, <1>2 DEF BookTypes
  <2>2. Names /\ Mirrored /\ Routed
    BY <1>1, <1>2 DEF Names, NamesOf, Mirrored, Routed, RoutedBy
  <2>3. BookJustified
    BY <1>1, <1>2 DEF BookJustified, ContactsJustified, RoutesJustified
  <2>4. QED
    BY <2>1, <2>2, <2>3 DEF Book
<1>4. Idle \in TaskRecord /\ Idle.kind = "none" /\ Idle.means = "book" /\ Idle.step = "lookup"
  BY DEF Idle, TaskRecord
<1>5. tasks \in TaskMap /\ \A t \in Task : tasks[t] = Idle
  BY <1>4 DEF Init, TaskMap
<1>6. Commands
  BY <1>4, <1>5 DEF Commands, Means, Wanted, Dialled
<1>7. /\ owner = Home /\ had = [p \in Peer |-> {a \in Addr : Home[a] = p}]
      /\ Home \in [Addr -> Peer \cup {None}]
  BY AddressesAssumption DEF Init
<1>8. owner \in [Addr -> Peer \cup {None}] /\ had \in [Peer -> SUBSET Addr]
  BY <1>7
<1>9. OtherTypes
  BY <1>1, <1>5, <1>8, AddressesAssumption DEF OtherTypes
<1>10. Owners
  BY <1>7, AddressesAssumption DEF Owners
<1>11. Addressee
  BY <1>1 DEF Addressee
<1>12. QED
  BY <1>3, <1>6, <1>9, <1>10, <1>11 DEF IInv

\* A step keeps the invariant and, if it is no /remove, what is in the book.
LEMMA StepInv ==
  ASSUME IInv, Next
  PROVE  /\ IInv'
         /\ (\E k \in Id \cup Nick : RemoveContact(k)) \/ (Distinct => Kept)
<1> DEFINE Good == /\ IInv'
                   /\ (\E k \in Id \cup Nick : RemoveContact(k)) \/ (Distinct => Kept)
<1>1. Step /\ Left' >= 0
  BY DEF Next
<1>2. ASSUME IInv' /\ (Distinct => Lasting)
      PROVE  Good
  BY <1>2 DEF Lasting, Kept
<1> HIDE DEF Kept, Lasting
<1>3. ASSUME User
      PROVE  Good
  <2>1. ASSUME NEW i \in Id, NEW n \in Nick, NEW a \in Addr \cup {None}, NEW p \in Peer,
               Fits(p, i), a \in had[p] \cup {None}, AddContact(i, n, a)
        PROVE  Good
    BY <1>1, <1>2, <2>1, AddContactInv
  <2>2. ASSUME NEW k \in Id \cup Nick, RemoveContact(k)
        PROVE  Good
    BY <1>1, <2>2, RemoveContactInv
  <2>3. ASSUME NEW k \in Id \cup Nick, AcceptConnection(k)
        PROVE  Good
    BY <1>1, <1>2, <2>3, AcceptConnectionInv
  <2>4. ASSUME NEW t \in Task, NEW k \in Id \cup Nick, Message(t, k)
        PROVE  Good
    BY <1>1, <1>2, <2>4, MessageInv
  <2>5. ASSUME NEW t \in Task, NEW k \in Id \cup Nick, Connect(t, k)
        PROVE  Good
    BY <1>1, <1>2, <2>5, ConnectInv
  <2>6. ASSUME NEW t \in Task, NEW a \in Addr, ConnectTo(t, a)
        PROVE  Good
    BY <1>1, <1>2, <2>6, ConnectToInv
  <2> HIDE DEF Good
  <2>7. QED
    BY <1>3, <2>1, <2>2, <2>3, <2>4, <2>5, <2>6 DEF User
<1>4. ASSUME Restart
      PROVE  Good
  BY <1>4, RestartInv
<1>5. ASSUME NEW t \in Task, Proceed(t)
      PROVE  Good
  <2>1. CASE Lookup(t)
    BY <1>1, <1>2, <2>1, LookupInv
  <2>2. CASE DialFails(t)
    BY <1>1, <1>2, <2>2, DialFailsInv
  <2>3. CASE Answer(t)
    BY <1>1, <1>2, <2>3, AnswerInv
  <2>4. CASE Requested(t)
    BY <1>1, <1>2, <2>4, RequestedInv
  <2>5. CASE RelayAnswers(t)
    BY <1>1, <1>2, <2>5, RelayAnswersInv
  <2>6. QED
    BY <1>5, <2>1, <2>2, <2>3, <2>4, <2>5 DEF Proceed
<1>6. ASSUME NEW p \in Peer, Incoming(p) \/ Disconnected(p)
      PROVE  Good
  BY <1>1, <1>2, <1>6, IncomingInv, DisconnectedInv
<1>7. ASSUME NEW p \in Peer, NEW a \in Addr, PeerList(p, a)
      PROVE  Good
  BY <1>1, <1>2, <1>7, PeerListInv
<1>8. ASSUME NEW p \in Peer, NEW a \in Addr, Move(p, a)
      PROVE  Good
  BY <1>1, <1>2, <1>8, MoveInv
<1> HIDE DEF Good
<1>9. Good
  BY <1>1, <1>3, <1>4, <1>5, <1>6, <1>7, <1>8 DEF Step
<1>10. QED
  BY <1>9 DEF Good

\* A step that changes nothing.
LEMMA StutterInv == IInv /\ UNCHANGED vars => IInv'
<1> SUFFICES ASSUME IInv, UNCHANGED vars PROVE IInv'
  OBVIOUS
<1>1. /\ contacts' = contacts /\ routes' = routes /\ file' = file /\ spoiled' = spoiled
      /\ faults' = faults /\ sessions' = sessions /\ pending' = pending /\ tasks' = tasks
      /\ owner' = owner /\ had' = had /\ commands' = commands /\ saved' = saved
      /\ sent' = sent
  BY DEF vars, book, peers, network
<1>2. Book' = Book
  BY <1>1 DEF Book, BookTypes, Names, NamesOf, Mirrored, Routed, RoutedBy, Distinct,
     BookJustified, ContactsJustified, RoutesJustified, Justified, Told
<1>3. OtherTypes' = OtherTypes
  BY <1>1 DEF OtherTypes
<1>4. Commands' = Commands
  BY <1>1 DEF Commands, Means, Wanted, Dialled, TookOver, Told, Distinct
<1>5. Owners' = Owners /\ Addressee' = Addressee
  BY <1>1 DEF Owners, Addressee
<1>6. QED
  BY <1>2, <1>3, <1>4, <1>5 DEF IInv, Distinct

\* The invariant holds in every state that the node reaches.
THEOREM Invariance == Spec => []IInv
<1>1. IInv /\ [Next]_vars => IInv'
  BY StepInv, StutterInv
<1>2. QED
  BY <1>1, InitInv, PTL DEF Spec

\* What a task dials is an address, except at the relay; who answered is a peer.
THEOREM TypesCorrect == Spec => []TypeOK
<1>1. IInv => TypeOK
  <2> SUFFICES ASSUME IInv PROVE TypeOK
    OBVIOUS
  <2>1. /\ contacts \in [Id -> Contact \cup {None}] /\ routes \in [Id -> Addr \cup {None}]
        /\ file["contacts"] \in [Id -> Contact \cup {None}]
        /\ file["routes"] \in [Id -> Addr \cup {None}] /\ spoiled \subseteq File
    BY DEF IInv, Book, BookTypes, ContactMap, RouteMap
  <2>2. ASSUME NEW t \in Task
        PROVE  /\ tasks[t].target \in Id \cup {None}
               /\ tasks[t].step = "request" => tasks[t].via \in Peer
               /\ tasks[t].step = "dial" => IF tasks[t].means = "relay"
                                            THEN tasks[t].via = None
                                            ELSE tasks[t].via \in Addr
    BY TaskFacts DEF IInv, Means, TaskRecord
  <2>3. /\ sessions \subseteq Peer /\ pending \subseteq Peer
        /\ owner \in [Addr -> Peer \cup {None}] /\ owner[Nowhere] = None
    BY DEF IInv, OtherTypes, Owners
  <2>4. {commands, faults} \subseteq 0 .. MaxEvents
    <3>1. commands \in Nat /\ faults \in Nat /\ commands + faults <= MaxEvents
      BY DEF IInv, OtherTypes, Book, BookTypes
    <3>2. MaxEvents \in Nat
      BY AddressesAssumption
    <3>3. QED
      BY <3>1, <3>2
  <2>5. QED
    BY <2>1, <2>2, <2>3, <2>4 DEF TypeOK
<1>2. QED
  BY <1>1, Invariance, PTL

\* A nickname stays with whom the user gave it to, whatever add, the promotions
\* of _promote_contact and resolve_peer, and the files do to the entries.
THEOREM NamesStay == Spec => []NamesHold
<1>1. IInv => NamesHold
  BY DEF IInv, Book, Names, NamesOf, NamesHold, Entries
<1>2. QED
  BY <1>1, Invariance, PTL

\* If a short id fits one peer only, send_message gives a message to a peer that
\* was meant, or to the one that answered at the address it dialled, which then is
\* an address that a meant peer has or had and the other one took over.
THEOREM MessagesGoWhereMeant == ASSUME Distinct PROVE Spec => []Addressee
<1>1. IInv => Addressee
  BY DEF IInv
<1>2. QED
  BY <1>1, Invariance, PTL

\* If a short id fits one peer only, nothing but /remove takes a contact or the
\* last address of a peer out of the book, unless a write failed.
THEOREM NobodyDropped == ASSUME Distinct PROVE Spec => ContactsLast
<1> DEFINE StepKept == \A p \in Peer :
       \/ \E k \in Id \cup Nick : RemoveContact(k)
       \/ /\ HasContact(p) /\ "contacts" \notin spoiled => HasContact(p)'
          /\ HasAddress(p) /\ faults = 0 => HasAddress(p)'
<1>1. IInv /\ [Next]_vars => [StepKept]_vars
  BY StepInv DEF Kept
<1>2. QED
  BY <1>1, Invariance, PTL DEF Spec, ContactsLast
=============================================================================
