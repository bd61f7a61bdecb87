--------------------------- MODULE OutputsProofs ---------------------------
(***************************************************************************)
(* What Outputs guarantees for any monitors, sizes, settings and bounds.   *)
(* The argument: each handler replaces one struct of the list by one of    *)
(* the same name, and only plugging changes its address, at a moment when  *)
(* no surface is left that could hold the old one (Exchanged, Preserved).  *)
(* The first lemmas say once what a handler does to a struct.              *)
(***************************************************************************)
EXTENDS Outputs, FiniteSetTheorems, TLAPS

\* What a struct is while a handler works on it: its buffer may be unmapped,
\* and it may have no surface yet.
Raw == [ptr : 1..MaxPlugs, name : Monitors, size : Sizes,
        mem : 0..MaxMems, surf : 0..MaxPlugs, set : Settings \cup {None}]

(* A configure event gives a struct its size and a mapped buffer and leaves *)
(* its address, name, surface and wallpaper alone.                          *)
LEMMA ConfiguredStruct ==
    ASSUME TypeOK,
           NEW o \in Raw, o.surf \in 1..MaxPlugs, o.mem \in 0..Len(mems),
           NEW c \in Sizes, ~Exhausted(Resized(o, c))
    PROVE  LET r == Resized(o, c)
               b == Buffered(r)
           IN  /\ b \in Struct
               /\ b.ptr = o.ptr /\ b.name = o.name /\ b.surf = o.surf /\ b.set = o.set
               /\ Files(r) \in Seq(Sizes) /\ Len(Files(r)) <= MaxMems
               /\ Len(mems) <= Len(Files(r))
               /\ b.mem \in 1..Len(Files(r))
               /\ \A i \in 1..Len(mems) : Files(r)[i] = mems[i]
               /\ \/ b.size = Files(r)[b.mem]
                  \/ o.mem # 0 /\ b.mem = o.mem /\ b.size = o.size
<1> DEFINE r == Resized(o, c)
           b == Buffered(r)
<1>1. mems \in Seq(Sizes) /\ Len(mems) \in Nat /\ Len(mems) <= MaxMems
    BY DEF TypeOK
<1>0. ~(r.mem = 0 /\ Len(mems) = MaxMems)
    BY DEF Exhausted
<1>2. /\ r \in Raw /\ r.ptr = o.ptr /\ r.name = o.name /\ r.surf = o.surf /\ r.set = o.set
      /\ r.mem \in 0..Len(mems)
      /\ r.mem # 0 => r.mem = o.mem /\ r.size = o.size
  <2>1. CASE o.size = c
      BY <2>1, <1>1 DEF Resized
  <2>2. CASE o.size # c
    <3>1. r = [o EXCEPT !.size = c, !.mem = 0]
        BY <2>2 DEF Resized
    <3>2. 0 \in 0..MaxMems /\ 0 \in 0..Len(mems)
        BY <1>1, OutputsAssumption DEF OutputsAssumption
    <3> HIDE DEF r
    <3>3. r \in Raw /\ r.mem = 0
        BY <3>1, <3>2 DEF Raw
    <3>4. r.ptr = o.ptr /\ r.name = o.name /\ r.surf = o.surf /\ r.set = o.set
        BY <3>1 DEF Raw
    <3> QED
        BY <3>2, <3>3, <3>4
  <2> QED
      BY <2>1, <2>2
<1> HIDE DEF r
<1> DEFINE Shape == /\ b \in Struct
                    /\ b.ptr = o.ptr /\ b.name = o.name /\ b.surf = o.surf /\ b.set = o.set
                    /\ Files(r) \in Seq(Sizes) /\ Len(Files(r)) <= MaxMems
                    /\ Len(mems) <= Len(Files(r))
                    /\ b.mem \in 1..Len(Files(r))
                    /\ \A i \in 1..Len(mems) : Files(r)[i] = mems[i]
                    /\ \/ b.size = Files(r)[b.mem]
                       \/ o.mem # 0 /\ b.mem = o.mem /\ b.size = o.size
<1>3. ASSUME r.mem = 0 PROVE Shape
  <2>1. Files(r) = Append(mems, r.size) /\ r.size \in Sizes
      BY <1>2, <1>3 DEF Files, Raw
  <2>2. Files(r) \in Seq(Sizes) /\ Len(Files(r)) = Len(mems) + 1
      BY <1>1, <2>1
  <2>3. b = [r EXCEPT !.mem = Len(mems) + 1]
      BY <1>3 DEF Buffered
  <2>0. Len(mems) < MaxMems
      BY <1>1, <1>3, <1>0, OutputsAssumption DEF TypeOK, OutputsAssumption
  <2>4. Len(mems) + 1 \in 1..MaxMems
      BY <1>1, <2>0, OutputsAssumption DEF OutputsAssumption
  <2>5. b \in Struct /\ b.mem = Len(mems) + 1
        /\ b.ptr = o.ptr /\ b.name = o.name /\ b.surf = o.surf /\ b.set = o.set
        /\ b.size = r.size
      BY <1>2, <2>3, <2>4 DEF Raw, Struct
  <2>6. /\ Len(Files(r)) <= MaxMems /\ Len(mems) <= Len(Files(r))
        /\ Len(mems) + 1 \in 1..Len(Files(r))
      BY <1>1, <2>0, <2>2, OutputsAssumption DEF OutputsAssumption
  <2>7. /\ \A i \in 1..Len(mems) : Files(r)[i] = mems[i]
        /\ Files(r)[Len(mems) + 1] = r.size
      BY <1>1, <2>1
  <2> QED
      BY <2>2, <2>5, <2>6, <2>7
<1>4. ASSUME r.mem # 0 PROVE Shape
  <2>1. Files(r) = mems /\ b = r
      BY <1>4 DEF Files, Buffered
  <2>2. r.mem \in 1..Len(mems) /\ r.mem \in 1..MaxMems
      BY <1>1, <1>2, <1>4, OutputsAssumption DEF OutputsAssumption
  <2>3. r \in Struct
      BY <1>2, <2>2 DEF Raw, Struct
  <2>4. Len(mems) <= MaxMems /\ Len(mems) <= Len(mems)
      BY <1>1 DEF TypeOK
  <2>5. o.mem # 0 /\ b.mem = o.mem /\ b.size = o.size
      BY <1>2, <1>4, <2>1
  <2> HIDE DEF b
  <2> QED
      BY <1>1, <1>2, <2>1, <2>2, <2>3, <2>4, <2>5
<1> QED
    BY <1>3, <1>4 DEF r

(* Drawing changes what surfaces show, never which there are, and writes a  *)
(* wallpaper.                                                               *)
LEMMA PaintedSurfaces ==
    ASSUME TypeOK, NEW o \in Struct, NEW files,
           NEW surfaces, surfaces \subseteq Surface,
           Paint(o, files, surfaces)
    PROVE  /\ open' \subseteq Surface
           /\ \A l \in open' : \E k \in surfaces :
                 l.surf = k.surf /\ l.mon = k.mon /\ l.ptr = k.ptr
           /\ pool' \in Settings \cup {None}
           /\ state' \in {"up", "error", "crash"}
           /\ state' = "crash" => Strays(o, files)
<1>1. CASE Strays(o, files) /\ open' = surfaces /\ state' = "crash" /\ UNCHANGED pool
    BY <1>1 DEF TypeOK
<1>2. CASE /\ \/ pool' = IF o.mem = Pool THEN o.set ELSE pool
              \/ UNCHANGED pool
              \/ pool' = o.set
           /\ open' = {IF l.surf = Newest(surfaces) THEN [l EXCEPT !.shows = pool'] ELSE l :
                          l \in surfaces}
           /\ state' = IF surfaces = {} /\ closing = {} THEN "up"
                       ELSE IF Newest(surfaces) \in closing THEN "error" ELSE "up"
  <2>1. pool' \in Settings \cup {None}
      BY <1>2 DEF TypeOK, Struct
  <2>2. ASSUME NEW l \in open'
        PROVE  /\ l \in Surface
               /\ \E k \in surfaces : l.surf = k.surf /\ l.mon = k.mon /\ l.ptr = k.ptr
    <3>1. PICK k \in surfaces :
             l = IF k.surf = Newest(surfaces) THEN [k EXCEPT !.shows = pool'] ELSE k
        BY <1>2
    <3>2. k \in Surface
        OBVIOUS
    <3> QED
        BY <2>1, <3>1, <3>2 DEF Surface
  <2>3. state' \in {"up", "error"}
      BY <1>2
  <2> QED
      BY <2>1, <2>2, <2>3
<1> QED
    BY <1>1, <1>2 DEF Paint

\* Two records that describe the same surface, whatever it shows.
SameSurface(l, k) == l.surf = k.surf /\ l.mon = k.mon /\ l.ptr = k.ptr

\* The surface a monitor gets when it is plugged in.
NewSurface(m, n) == [surf |-> n, mon |-> m, ptr |-> n, shows |-> None]

(* Only an output that is larger than its memory has that of others unmapped *)
(* with its own.                                                            *)
LEMMA TornBy ==
    ASSUME TypeOK, NEW o, NEW c, torn' \in Torn(o, c)
    PROVE  /\ torn' \subseteq 1..MaxMems
           /\ torn' # torn => o.mem # 0 /\ o.size > mems[o.mem]
<1>1. CASE Overreaches(o, c)
  <2>1. PICK hit \in SUBSET {p.mem : p \in {q \in outs : q.name # o.name}} : torn' = torn \cup hit
      BY <1>1 DEF Torn
  <2>2. \A p \in outs : p.mem \in 1..MaxMems
      BY DEF TypeOK, Struct
  <2> QED
      BY <1>1, <2>1, <2>2 DEF Overreaches, TypeOK
<1>2. CASE ~Overreaches(o, c)
    BY <1>2 DEF Torn, TypeOK
<1> QED
    BY <1>1, <1>2

(* A monitor that is plugged in gets a new address and surface, and has the *)
(* wallpaper and the buffer of its old struct and no other.                 *)
LEMMA StartedFrom ==
    ASSUME TypeOK, NEW n, n = plugs + 1, n \in 1..MaxPlugs,
           NEW m \in Monitors, NEW mode \in Sizes
    PROVE  LET s == Started(m, mode)
           IN  /\ s \in Raw /\ s.name = m /\ s.ptr = n /\ s.surf = n
               /\ s.mem \in 0..Len(mems)
               /\ Named(m) # {} => \E p \in Named(m) : s.set = p.set
               /\ s.mem # 0 => \E p \in Named(m) : s.mem = p.mem /\ s.size = p.size
<1> DEFINE new   == [ptr |-> plugs + 1, name |-> m, size |-> mode,
                     mem |-> 0, surf |-> 0, set |-> None]
           known == IF Named(m) = {} THEN new
                    ELSE Adopt(new, CHOOSE o \in Named(m) : TRUE)
           start == Started(m, mode)
<1>1. /\ Len(mems) \in Nat /\ n \in 0..MaxPlugs
      /\ 0 \in 0..MaxPlugs /\ 0 \in 0..MaxMems /\ 0 \in 0..Len(mems)
    BY OutputsAssumption DEF TypeOK, OutputsAssumption
<1>2. /\ known \in Raw /\ known.name = m /\ known.ptr = n /\ known.mem \in 0..Len(mems)
      /\ Named(m) # {} => \E p \in Named(m) : known.set = p.set
      /\ known.mem # 0 => \E p \in Named(m) : known.mem = p.mem /\ known.size = p.size
  <2>1. CASE Named(m) = {}
    <3>1. known = new /\ new \in Raw /\ new.name = m /\ new.ptr = n /\ new.mem = 0
        BY <1>1, <2>1 DEF Raw
    <3> HIDE DEF known
    <3> QED
        BY <1>1, <2>1, <3>1
  <2>2. CASE Named(m) # {}
    <3>1. PICK p \in Named(m) : p = CHOOSE q \in Named(m) : TRUE
        BY <2>2
    <3>2. p \in Struct /\ p.name = m /\ p.mem \in 1..Len(mems)
        BY DEF Named, TypeOK
    <3>3. new.ptr = n
        OBVIOUS
    <3>4. known = [p EXCEPT !.ptr = n]
        BY <2>2, <3>1, <3>3 DEF Adopt
    <3>5. p.mem \in 0..Len(mems) /\ p.mem \in 0..MaxMems /\ p.surf \in 0..MaxPlugs
        BY <1>1, <3>2, OutputsAssumption DEF Struct, OutputsAssumption
    <3> HIDE DEF known
    <3>6. known \in Raw /\ known.name = m /\ known.ptr = n /\ known.mem = p.mem
          /\ known.set = p.set /\ known.size = p.size
        BY <1>1, <3>2, <3>4, <3>5 DEF Raw, Struct
    <3> QED
        BY <3>5, <3>6
  <2> QED
      BY <2>1, <2>2
<1>3. start = [known EXCEPT !.surf = n]
    BY DEF Started
<1> HIDE DEF known
<1> HIDE DEF start
<1>4. /\ start \in Raw /\ start.name = m /\ start.ptr = n /\ start.surf = n
      /\ start.mem = known.mem /\ start.size = known.size /\ start.set = known.set
    BY <1>1, <1>2, <1>3 DEF Raw
<1>5. /\ start.mem \in 0..Len(mems)
      /\ Named(m) # {} => \E p \in Named(m) : start.set = p.set
      /\ start.mem # 0 => \E p \in Named(m) : start.mem = p.mem /\ start.size = p.size
    BY <1>2, <1>4
<1> QED
    BY <1>4, <1>5 DEF start

(* Plugging a monitor in replaces its struct, if it has one, by one at the  *)
(* new address, with the new surface and the old wallpaper.                 *)
LEMMA Plugged ==
    ASSUME TypeOK,
           NEW m \in Monitors, NEW mode \in Sizes, NEW c \in Sizes,
           Plug(m, mode, c)
    PROVE  /\ plugs' \in 1..MaxPlugs
           /\ mems' \in Seq(Sizes) /\ Len(mems') <= MaxMems /\ Len(mems) <= Len(mems')
           /\ pool' \in Settings \cup {None} /\ state' \in {"up", "error", "crash"}
           /\ open' \subseteq Surface
           /\ \A l \in open' : \E k \in open \cup {NewSurface(m, plugs')} : SameSurface(l, k)
           /\ \A i \in 1..Len(mems) : mems'[i] = mems[i]
           /\ torn' \subseteq 1..MaxMems
           /\ torn' # torn => \E p \in Named(m) : p.size > mems[p.mem]
           /\ \E b \in Struct :
                 /\ outs' = (outs \ Named(m)) \cup {b}
                 /\ b.name = m /\ b.ptr = plugs' /\ b.surf = plugs'
                 /\ b.mem \in 1..Len(mems')
                 /\ Named(m) # {} => \E o \in Named(m) : b.set = o.set
                 /\ \/ b.size = mems'[b.mem]
                    \/ \E p \in Named(m) : b.mem = p.mem /\ b.size = p.size
                 /\ state' = "crash" => b.size > mems'[b.mem] \/ torn # {}
<1> DEFINE start == Started(m, mode)
           o     == Resized(start, c)
           now   == open \cup {NewSurface(m, plugs')}
           b     == Buffered(o)
<1>1. plugs' \in 1..MaxPlugs /\ plugs' = plugs + 1
    BY OutputsAssumption DEF TypeOK, Plug, Pluggable, OutputsAssumption
<1>2. /\ outs' = (outs \ Named(m)) \cup {b}
      /\ mems' = Files(o)
      /\ ~Exhausted(o) /\ torn' \in Torn(start, c)
      /\ \/ open' = now /\ state' \in {"up", "error"} /\ UNCHANGED pool
         \/ Paint(b, mems', now)
    BY Zenon DEF Plug, Replaced, NewSurface
<1> HIDE DEF start
<1>6. /\ start \in Raw /\ start.name = m /\ start.ptr = plugs' /\ start.surf = plugs'
      /\ start.mem \in 0..Len(mems)
      /\ Named(m) # {} => \E p \in Named(m) : start.set = p.set
      /\ start.mem # 0 => \E p \in Named(m) : start.mem = p.mem /\ start.size = p.size
  <2>1. PICK n : n = plugs + 1
      OBVIOUS
  <2> QED
      BY <1>1, <2>1, StartedFrom DEF start
<1>7. /\ torn' \subseteq 1..MaxMems
      /\ torn' # torn => \E p \in Named(m) : p.size > mems[p.mem]
    BY <1>2, <1>6, TornBy
<1>8. /\ b \in Struct
      /\ b.ptr = start.ptr /\ b.name = start.name /\ b.surf = start.surf /\ b.set = start.set
      /\ Files(o) \in Seq(Sizes) /\ Len(Files(o)) <= MaxMems
      /\ Len(mems) <= Len(Files(o))
      /\ b.mem \in 1..Len(Files(o))
      /\ \A i \in 1..Len(mems) : Files(o)[i] = mems[i]
      /\ \/ b.size = Files(o)[b.mem]
         \/ start.mem # 0 /\ b.mem = start.mem /\ b.size = start.size
    BY <1>1, <1>2, <1>6, ConfiguredStruct
<1> HIDE DEF o
<1> HIDE DEF b
<1>9. NewSurface(m, plugs') \in Surface /\ now \subseteq Surface
    BY <1>1 DEF NewSurface, Surface, TypeOK
<1>10. /\ open' \subseteq Surface
       /\ \A l \in open' : \E k \in now : SameSurface(l, k)
       /\ pool' \in Settings \cup {None} /\ state' \in {"up", "error", "crash"}
       /\ state' = "crash" => b.size > mems'[b.mem] \/ torn # {}
  <2>1. CASE open' = now /\ state' \in {"up", "error"} /\ UNCHANGED pool
      BY <1>9, <2>1 DEF SameSurface, TypeOK
  <2>2. CASE Paint(b, mems', now)
      BY <1>8, <1>9, <2>2, PaintedSurfaces DEF SameSurface, Strays
  <2> QED
      BY <1>2, <2>1, <2>2
<1>11. \/ b.size = mems'[b.mem]
       \/ \E p \in Named(m) : b.mem = p.mem /\ b.size = p.size
    BY <1>2, <1>6, <1>8
<1>12. Named(m) # {} => \E p \in Named(m) : b.set = p.set
    BY <1>6, <1>8
<1>13. /\ b.name = m /\ b.ptr = plugs' /\ b.surf = plugs' /\ b.mem \in 1..Len(mems')
       /\ mems' \in Seq(Sizes) /\ Len(mems') <= MaxMems /\ Len(mems) <= Len(mems')
       /\ \A i \in 1..Len(mems) : mems'[i] = mems[i]
    BY <1>2, <1>6, <1>8
<1>14. /\ open' \subseteq Surface
       /\ \A l \in open' : \E k \in open \cup {NewSurface(m, plugs')} : SameSurface(l, k)
       /\ pool' \in Settings \cup {None} /\ state' \in {"up", "error", "crash"}
    BY <1>10
<1> HIDE DEF now
<1>15. \E a \in Struct :
          /\ outs' = (outs \ Named(m)) \cup {a}
          /\ a.name = m /\ a.ptr = plugs' /\ a.surf = plugs'
          /\ a.mem \in 1..Len(mems')
          /\ Named(m) # {} => \E p \in Named(m) : a.set = p.set
          /\ \/ a.size = mems'[a.mem]
             \/ \E p \in Named(m) : a.mem = p.mem /\ a.size = p.size
          /\ state' = "crash" => a.size > mems'[a.mem] \/ torn # {}
    BY <1>2, <1>8, <1>10, <1>11, <1>12, <1>13
<1> QED
    BY <1>1, <1>7, <1>15, <1>13, <1>14

(* A configure event replaces the struct its listener points to by one that *)
(* differs in size and buffer only.                                         *)
LEMMA Configured ==
    ASSUME TypeOK, NEW l \in open, NEW c \in Sizes, Configure(l, c)
    PROVE  /\ mems' \in Seq(Sizes) /\ Len(mems') <= MaxMems /\ Len(mems) <= Len(mems')
           /\ state' \in {"up", "error"}
           /\ torn' \subseteq 1..MaxMems
           /\ \A i \in 1..Len(mems) : mems'[i] = mems[i]
           /\ \E o \in outs, b \in Struct :
                 /\ outs' = (outs \ {o}) \cup {b}
                 /\ b.ptr = o.ptr /\ b.name = o.name /\ b.surf = o.surf /\ b.set = o.set
                 /\ b.mem \in 1..Len(mems')
                 /\ \/ b.size = mems'[b.mem]
                    \/ b.mem = o.mem /\ b.size = o.size
                 /\ torn' # torn => o.size > mems[o.mem]
<1>1. PICK o \in outs :
         /\ torn' \in Torn(o, c) /\ ~Exhausted(Resized(o, c))
         /\ outs' = (outs \ {o}) \cup {Buffered(Resized(o, c))}
         /\ mems' = Files(Resized(o, c))
         /\ state' = IF Newest(open) # l.surf \/ Refused(Resized(o, c)) THEN "error" ELSE "up"
    BY Zenon DEF Configure
<1>2. o \in Struct /\ o.mem \in 1..Len(mems) /\ Len(mems) \in Nat
    BY DEF TypeOK
<1>3. o \in Raw /\ o.surf \in 1..MaxPlugs /\ o.mem \in 0..Len(mems)
    BY <1>2, OutputsAssumption DEF Struct, Raw, OutputsAssumption
<1>4. torn' \subseteq 1..MaxMems /\ (torn' # torn => o.size > mems[o.mem])
    BY <1>1, TornBy
<1> DEFINE b == Buffered(Resized(o, c))
<1>5. /\ b \in Struct
      /\ b.ptr = o.ptr /\ b.name = o.name /\ b.surf = o.surf /\ b.set = o.set
      /\ mems' \in Seq(Sizes) /\ Len(mems') <= MaxMems /\ Len(mems) <= Len(mems')
      /\ b.mem \in 1..Len(mems')
      /\ \A i \in 1..Len(mems) : mems'[i] = mems[i]
      /\ \/ b.size = mems'[b.mem]
         \/ b.mem = o.mem /\ b.size = o.size
    BY <1>1, <1>3, ConfiguredStruct
<1> QED
    BY <1>1, <1>4, <1>5

(* A change of mode touches sizes only.                                     *)
LEMMA Moded ==
    ASSUME TypeOK, NEW m \in Monitors, NEW mode \in Sizes, Mode(m, mode)
    PROVE  /\ \A b \in outs' : \E o \in outs :
                 /\ b \in Struct /\ b.mem = o.mem
                 /\ b.ptr = o.ptr /\ b.name = o.name /\ b.surf = o.surf /\ b.set = o.set
                 /\ b.name = m \/ b.size = o.size
           /\ \A o \in outs : \E b \in outs' :
                 b.ptr = o.ptr /\ b.name = o.name /\ b.surf = o.surf /\ b.set = o.set
           /\ \A b, d \in outs' : \E o, p \in outs :
                 b.name = o.name /\ d.name = p.name /\ (o = p => b = d)
<1> DEFINE new(o) == IF o.name = m THEN [o EXCEPT !.size = mode] ELSE o
<1>1. outs' = {new(o) : o \in outs}
    BY DEF Mode
<1>2. ASSUME NEW o \in outs
      PROVE  /\ new(o) \in Struct /\ new(o).mem = o.mem /\ new(o).ptr = o.ptr
             /\ new(o).name = o.name /\ new(o).surf = o.surf /\ new(o).set = o.set
             /\ new(o).name = m \/ new(o).size = o.size
  <2>1. o \in Struct
      BY DEF TypeOK
  <2>2. CASE o.name = m
      BY <2>1, <2>2 DEF Struct
  <2>3. CASE o.name # m
      BY <2>1, <2>3
  <2> QED
      BY <2>2, <2>3
<1> HIDE DEF new
<1>3. \A b \in outs' : \E o \in outs :
         /\ b \in Struct /\ b.mem = o.mem
         /\ b.ptr = o.ptr /\ b.name = o.name /\ b.surf = o.surf /\ b.set = o.set
         /\ b.name = m \/ b.size = o.size
    BY <1>1, <1>2
<1>4. \A o \in outs : \E b \in outs' :
         b.ptr = o.ptr /\ b.name = o.name /\ b.surf = o.surf /\ b.set = o.set
    BY <1>1, <1>2
<1>5. ASSUME NEW b \in outs', NEW d \in outs'
      PROVE  \E o, p \in outs : b.name = o.name /\ d.name = p.name /\ (o = p => b = d)
  <2>1. PICK o \in outs : b = new(o)
      BY <1>1
  <2>2. PICK p \in outs : d = new(p)
      BY <1>1
  <2>3. b.name = o.name /\ d.name = p.name
      BY <2>1, <2>2, <1>2
  <2> QED
      BY <2>1, <2>2, <2>3
<1> QED
    BY <1>3, <1>4, <1>5

(* A request changes the wallpaper of a struct and what surfaces show.      *)
LEMMA SetOne ==
    ASSUME TypeOK, NEW o \in outs, NEW s \in Settings, Set(o, s)
    PROVE  /\ open' \subseteq Surface
           /\ \A l \in open' : \E k \in open : SameSurface(l, k)
           /\ pool' \in Settings \cup {None} /\ state' \in {"up", "error", "crash"}
           /\ \E b \in Struct :
                 /\ outs' = (outs \ {o}) \cup {b}
                 /\ b.ptr = o.ptr /\ b.name = o.name /\ b.surf = o.surf /\ b.mem = o.mem
                 /\ b.size = o.size
           /\ state' = "crash" => o.size > mems[o.mem] \/ torn # {}
<1> DEFINE b == [o EXCEPT !.set = s]
<1>1. outs' = (outs \ {o}) \cup {b} /\ Paint(b, mems, open)
    BY Zenon DEF Set
<1>2. o \in Struct /\ open \subseteq Surface
    BY DEF TypeOK
<1>3. b \in Struct /\ b.ptr = o.ptr /\ b.name = o.name /\ b.surf = o.surf /\ b.mem = o.mem
      /\ b.size = o.size
    BY <1>2 DEF Struct
<1> HIDE DEF b
<1>4. /\ open' \subseteq Surface
      /\ \A l \in open' : \E k \in open : SameSurface(l, k)
      /\ pool' \in Settings \cup {None} /\ state' \in {"up", "error", "crash"}
      /\ state' = "crash" => o.size > mems[o.mem] \/ torn # {}
    BY <1>1, <1>2, <1>3, PaintedSurfaces DEF SameSurface, Strays
<1> QED
    BY <1>1, <1>3, <1>4

-----------------------------------------------------------------------------
(* Every variable keeps its range: in particular every output always has a  *)
(* mapped buffer, and no surface outlives its monitor.                      *)
THEOREM TypeCorrect == Spec => []TypeOK
<1>1. Init => TypeOK
    BY OutputsAssumption DEF Init, TypeOK, OutputsAssumption
<1>2. TypeOK /\ [Next]_vars => TypeOK'
  <2> SUFFICES ASSUME TypeOK, [Next]_vars PROVE TypeOK'
      OBVIOUS
  <2>1. ASSUME NEW m \in Monitors, NEW mode \in Sizes, NEW c \in Sizes, Plug(m, mode, c)
        PROVE  TypeOK'
    <3>1. /\ plugs' \in 1..MaxPlugs
          /\ mems' \in Seq(Sizes) /\ Len(mems') <= MaxMems /\ Len(mems) <= Len(mems')
          /\ pool' \in Settings \cup {None} /\ state' \in {"up", "error", "crash"}
          /\ open' \subseteq Surface /\ torn' \subseteq 1..MaxMems
          /\ \A l \in open' : \E k \in open \cup {NewSurface(m, plugs')} : SameSurface(l, k)
        BY <2>1, Plugged
    <3>2. PICK b \in Struct : outs' = (outs \ Named(m)) \cup {b} /\ b.mem \in 1..Len(mems')
        BY <2>1, Plugged
    <3>3. plugged' = plugged \cup {m} /\ closing' = closing /\ moded' = moded
        BY <2>1 DEF Plug
    <3>4. \A l \in open' : l.mon \in plugged'
        BY <3>1, <3>3 DEF SameSurface, NewSurface, TypeOK
    <3>5. plugs' \in 0..MaxPlugs
        BY <3>1, OutputsAssumption DEF OutputsAssumption
    <3>6. Len(mems) \in Nat /\ Len(mems') \in Nat
        BY <3>1 DEF TypeOK
    <3>7. \A o \in outs' : o \in Struct /\ o.mem \in 1..Len(mems')
        BY <3>1, <3>2, <3>6 DEF TypeOK
    <3> QED
        BY <3>1, <3>3, <3>4, <3>5, <3>7 DEF TypeOK
  <2>2. ASSUME NEW m \in Monitors, Unplug(m) PROVE TypeOK'
    <3>0. \A l \in open : Owned(l) \subseteq 1..MaxPlugs
        BY DEF Owned, TypeOK, Struct
    <3>1. closing' \subseteq 1..MaxPlugs
        BY <2>2, <3>0 DEF Unplug, TypeOK
    <3>2. open' \subseteq Surface /\ \A l \in open' : l.mon \in plugged'
        BY <2>2 DEF Unplug, TypeOK
    <3> QED
        BY <2>2, <3>1, <3>2 DEF Unplug, buffers, TypeOK
  <2>3. ASSUME NEW m \in Monitors, NEW mode \in Sizes, Mode(m, mode) PROVE TypeOK'
    <3>1. \A b \in outs' : b \in Struct /\ b.mem \in 1..Len(mems)
        BY <2>3, Moded DEF TypeOK
    <3> QED
        BY <2>3, <3>1 DEF Mode, monitors, buffers, TypeOK
  <2>4. ASSUME NEW l \in open, Close(l) PROVE TypeOK'
    <3>1. closing' \subseteq 1..MaxPlugs
        BY <2>4 DEF Close, Owned, TypeOK, Struct
    <3> QED
        BY <2>4, <3>1 DEF Close, monitors, buffers, TypeOK
  <2>5. ASSUME NEW l \in open, NEW c \in Sizes, Configure(l, c) PROVE TypeOK'
    <3>1. /\ mems' \in Seq(Sizes) /\ Len(mems') <= MaxMems /\ Len(mems) <= Len(mems')
          /\ state' \in {"up", "error"} /\ torn' \subseteq 1..MaxMems
        BY <2>5, Configured
    <3>2. PICK o \in outs, b \in Struct :
             outs' = (outs \ {o}) \cup {b} /\ b.mem \in 1..Len(mems')
        BY <2>5, Configured
    <3>3. Len(mems) \in Nat /\ Len(mems') \in Nat
        BY <3>1 DEF TypeOK
    <3>4. \A p \in outs' : p \in Struct /\ p.mem \in 1..Len(mems')
        BY <3>1, <3>2, <3>3 DEF TypeOK
    <3> QED
        BY <2>5, <3>1, <3>4 DEF Configure, monitors, TypeOK
  <2>6. ASSUME NEW o \in outs, NEW s \in Settings, Set(o, s) PROVE TypeOK'
    <3>1. /\ open' \subseteq Surface
          /\ \A l \in open' : \E k \in open : SameSurface(l, k)
          /\ pool' \in Settings \cup {None} /\ state' \in {"up", "error", "crash"}
        BY <2>6, SetOne
    <3>2. PICK b \in Struct : outs' = (outs \ {o}) \cup {b} /\ b.mem = o.mem
        BY <2>6, SetOne
    <3>3. \A p \in outs' : p \in Struct /\ p.mem \in 1..Len(mems)
        BY <3>2 DEF TypeOK
    <3>4. UNCHANGED <<plugged, plugs, closing, mems, torn, moded>>
        BY <2>6 DEF Set, monitors
    <3>5. \A l \in open' : l.mon \in plugged'
        BY <3>1, <3>4 DEF SameSurface, TypeOK
    <3> QED
        BY <3>1, <3>3, <3>4, <3>5 DEF TypeOK
  <2>7. CASE Deleted
      BY <2>7 DEF Deleted, monitors, buffers, TypeOK
  <2>8. CASE UNCHANGED vars
      BY <2>8 DEF vars, monitors, buffers, TypeOK
  <2>9. ASSUME NEW m \in Monitors, NEW mode \in Sizes, NEW c \in Sizes, PlugEnds(m, mode, c)
        PROVE  TypeOK'
      BY <2>9 DEF PlugEnds, Ends, monitors, buffers, TypeOK
  <2>10. ASSUME NEW l \in open, NEW c \in Sizes, ConfigureEnds(l, c) PROVE TypeOK'
      BY <2>10 DEF ConfigureEnds, Ends, monitors, buffers, TypeOK
  <2> QED
      BY <2>1, <2>2, <2>3, <2>4, <2>5, <2>6, <2>7, <2>8, <2>9, <2>10 DEF Next
<1> QED
    BY <1>1, <1>2, PTL DEF Spec

-----------------------------------------------------------------------------
Inv == OneStructEach /\ ListenersLive

(* The struct that replaces one of the list, with its name, address and     *)
(* surface, keeps Inv.                                                      *)
LEMMA Exchanged ==
    ASSUME TypeOK, Inv, NEW o \in outs, NEW b \in Struct,
           outs' = (outs \ {o}) \cup {b},
           b.ptr = o.ptr, b.name = o.name, b.surf = o.surf,
           plugged' = plugged,
           \A l \in open' : \E k \in open : SameSurface(l, k)
    PROVE  Inv'
<1>1. ASSUME NEW p \in outs', NEW q \in outs', p.name = q.name PROVE p = q
    BY <1>1 DEF Inv, OneStructEach
<1>2. ASSUME NEW m \in plugged' PROVE Named(m)' # {}
  <2>1. PICK p \in outs : p.name = m
      BY <1>2 DEF Inv, OneStructEach, Named
  <2>2. \E q \in outs' : q.name = m
      BY <2>1
  <2> QED
      BY <2>2 DEF Named
<1>3. ASSUME NEW l \in open'
      PROVE  \E p \in outs' : p.ptr = l.ptr /\ p.name = l.mon /\ p.surf = l.surf
  <2>1. PICK k \in open : SameSurface(l, k)
      OBVIOUS
  <2>2. PICK p \in outs : p.ptr = k.ptr /\ p.name = k.mon /\ p.surf = k.surf
      BY DEF Inv, ListenersLive
  <2>3. CASE p = o
      BY <2>1, <2>2, <2>3 DEF SameSurface
  <2>4. CASE p # o
      BY <2>1, <2>2, <2>4 DEF SameSurface
  <2> QED
      BY <2>3, <2>4
<1> QED
    BY <1>1, <1>2, <1>3 DEF Inv, OneStructEach, ListenersLive

(* Every step keeps one struct for each monitor, and the listeners' pointers *)
(* into the list.                                                           *)
LEMMA Preserved ==
    ASSUME TypeOK, Inv, [Next]_vars PROVE Inv'
<1>1. ASSUME NEW m \in Monitors, NEW mode \in Sizes, NEW c \in Sizes, Plug(m, mode, c)
      PROVE  Inv'
  <2>1. \A l \in open' : \E k \in open \cup {NewSurface(m, plugs')} : SameSurface(l, k)
      BY <1>1, Plugged
  <2>2. PICK b \in Struct :
           /\ outs' = (outs \ Named(m)) \cup {b}
           /\ b.name = m /\ b.ptr = plugs' /\ b.surf = plugs'
      BY <1>1, Plugged
  <2>3. plugged' = plugged \cup {m} /\ m \notin plugged
      BY <1>1 DEF Plug, Pluggable
  <2>4. ASSUME NEW p \in outs', NEW q \in outs', p.name = q.name PROVE p = q
      BY <2>2, <2>4 DEF Inv, OneStructEach, Named
  <2>5. ASSUME NEW n \in plugged' PROVE \E p \in outs' : p.name = n
    <3>1. CASE n = m
        BY <2>2, <3>1
    <3>2. CASE n # m
      <4>1. PICK p \in outs : p.name = n
          BY <2>3, <2>5, <3>2 DEF Inv, OneStructEach, Named
      <4> QED
          BY <2>2, <3>2, <4>1 DEF Named
    <3> QED
        BY <3>1, <3>2
  <2>6. ASSUME NEW l \in open'
        PROVE  \E p \in outs' : p.ptr = l.ptr /\ p.name = l.mon /\ p.surf = l.surf
    <3>1. PICK k \in open \cup {NewSurface(m, plugs')} : SameSurface(l, k)
        BY <2>1
    <3>2. CASE k = NewSurface(m, plugs')
        BY <2>2, <3>1, <3>2 DEF SameSurface, NewSurface
    <3>3. CASE k \in open
      <4>1. PICK p \in outs : p.ptr = k.ptr /\ p.name = k.mon /\ p.surf = k.surf
          BY <3>3 DEF Inv, ListenersLive
      <4>2. p.name # m
          BY <2>3, <3>3, <4>1 DEF TypeOK
      <4> QED
          BY <2>2, <3>1, <4>1, <4>2 DEF SameSurface, Named
    <3> QED
        BY <3>2, <3>3
  <2> QED
      BY <2>4, <2>5, <2>6 DEF Inv, OneStructEach, ListenersLive, Named
<1>2. ASSUME NEW m \in Monitors, NEW mode \in Sizes, Mode(m, mode) PROVE Inv'
  <2>1. /\ \A o \in outs : \E b \in outs' :
              b.ptr = o.ptr /\ b.name = o.name /\ b.surf = o.surf /\ b.set = o.set
        /\ \A b, d \in outs' : \E o, p \in outs :
              b.name = o.name /\ d.name = p.name /\ (o = p => b = d)
      BY <1>2, Moded
  <2>2. plugged' = plugged /\ open' = open
      BY <1>2 DEF Mode, monitors
  <2>3. \A b, d \in outs' : b.name = d.name => b = d
      BY <2>1 DEF Inv, OneStructEach
  <2>4. \A n \in plugged' : \E b \in outs' : b.name = n
      BY <2>1, <2>2 DEF Inv, OneStructEach, Named
  <2>5. \A l \in open' : \E b \in outs' : b.ptr = l.ptr /\ b.name = l.mon /\ b.surf = l.surf
      BY <2>1, <2>2 DEF Inv, ListenersLive
  <2> QED
      BY <2>3, <2>4, <2>5 DEF Inv, OneStructEach, ListenersLive, Named
<1>3. ASSUME NEW l \in open, NEW c \in Sizes, Configure(l, c) PROVE Inv'
  <2>1. PICK o \in outs, b \in Struct :
           /\ outs' = (outs \ {o}) \cup {b}
           /\ b.ptr = o.ptr /\ b.name = o.name /\ b.surf = o.surf
      BY <1>3, Configured
  <2>2. plugged' = plugged /\ open' = open
      BY <1>3 DEF Configure, monitors
  <2> QED
      BY <2>1, <2>2, Exchanged DEF SameSurface
<1>4. ASSUME NEW o \in outs, NEW s \in Settings, Set(o, s) PROVE Inv'
  <2>1. PICK b \in Struct :
           /\ outs' = (outs \ {o}) \cup {b}
           /\ b.ptr = o.ptr /\ b.name = o.name /\ b.surf = o.surf
      BY <1>4, SetOne
  <2>2. plugged' = plugged /\ \A l \in open' : \E k \in open : SameSurface(l, k)
      BY <1>4, SetOne DEF Set, monitors
  <2> QED
      BY <2>1, <2>2, Exchanged
<1>5. ASSUME outs' = outs, plugged' \subseteq plugged, open' \subseteq open PROVE Inv'
    BY <1>5 DEF Inv, OneStructEach, ListenersLive, Named
<1>6. ASSUME NEW m \in Monitors, Unplug(m) PROVE Inv'
    BY <1>5, <1>6 DEF Unplug
<1>7. ASSUME NEW l \in open, Close(l) PROVE Inv'
    BY <1>5, <1>7 DEF Close, monitors
<1>8. CASE Deleted
    BY <1>5, <1>8 DEF Deleted, monitors
<1>9. CASE UNCHANGED vars
    BY <1>5, <1>9 DEF vars, monitors
<1>10. ASSUME NEW m \in Monitors, NEW mode \in Sizes, NEW c \in Sizes, PlugEnds(m, mode, c)
       PROVE  Inv'
    BY <1>5, <1>10 DEF PlugEnds, monitors
<1>11. ASSUME NEW l \in open, NEW c \in Sizes, ConfigureEnds(l, c) PROVE Inv'
    BY <1>5, <1>11 DEF ConfigureEnds, monitors
<1> QED
    BY <1>1, <1>2, <1>3, <1>4, <1>6, <1>7, <1>8, <1>9, <1>10, <1>11 DEF Next

(* However often a monitor is replugged, it has one struct output.          *)
THEOREM OneStruct == Spec => []OneStructEach
<1>1. Init => Inv
    BY DEF Init, Inv, OneStructEach, ListenersLive, Named
<1>2. TypeOK /\ Inv /\ [Next]_vars => Inv'
    BY Preserved
<1>3. Inv => OneStructEach
    BY DEF Inv
<1> QED
    BY <1>1, <1>2, <1>3, TypeCorrect, PTL DEF Spec

(* A listener never holds the address of a struct that has been freed.      *)
THEOREM Listeners == Spec => []ListenersLive
<1>1. Init => Inv
    BY DEF Init, Inv, OneStructEach, ListenersLive, Named
<1>2. TypeOK /\ Inv /\ [Next]_vars => Inv'
    BY Preserved
<1>3. Inv => ListenersLive
    BY DEF Inv
<1> QED
    BY <1>1, <1>2, <1>3, TypeCorrect, PTL DEF Spec

(* A monitor that is unplugged and plugged in again keeps its wallpaper, and *)
(* takes none from another.                                                 *)
THEOREM SettingsKept == Spec => PlugKeepsSettings
<1> DEFINE Kept == plugged' # plugged =>
                       \A o \in outs : \E p \in outs' : p.name = o.name /\ p.set = o.set
<1>1. ASSUME TypeOK, OneStructEach, Next PROVE Kept
  <2>1. ASSUME NEW m \in Monitors, NEW mode \in Sizes, NEW c \in Sizes, Plug(m, mode, c)
        PROVE  Kept
    <3>1. PICK b \in Struct :
             /\ outs' = (outs \ Named(m)) \cup {b} /\ b.name = m
             /\ Named(m) # {} => \E o \in Named(m) : b.set = o.set
        BY <2>1, Plugged, <1>1
    <3>2. ASSUME NEW o \in outs PROVE \E p \in outs' : p.name = o.name /\ p.set = o.set
      <4>1. CASE o.name = m
        <5>1. o \in Named(m)
            BY <4>1 DEF Named
        <5>2. PICK q \in Named(m) : b.set = q.set
            BY <3>1, <5>1
        <5>3. q = o
            BY <4>1, <1>1 DEF OneStructEach, Named
        <5> QED
            BY <3>1, <4>1, <5>2, <5>3
      <4>2. CASE o.name # m
          BY <3>1, <4>2 DEF Named
      <4> QED
          BY <4>1, <4>2
    <3> QED
        BY <3>2
  <2>2. ASSUME NEW m \in Monitors, Unplug(m) PROVE Kept
      BY <2>2 DEF Unplug
  <2>3. ASSUME plugged' = plugged PROVE Kept
      BY <2>3
  <2> HIDE DEF Kept
  <2> QED
      BY <1>1, <2>1, <2>2, <2>3
      DEF Next, PlugEnds, ConfigureEnds, Mode, Close, Configure, Set, Deleted, monitors
<1>2. ASSUME TypeOK, OneStructEach, [Next]_vars PROVE [Kept]_vars
    BY <1>1, <1>2
<1> QED
    BY <1>2, OneStruct, TypeCorrect, PTL DEF Spec, PlugKeepsSettings

-----------------------------------------------------------------------------
\* DrawInBounds in two parts: of a struct, and of the daemon.
Fits(o) == o.size = mems[o.mem] \/ o.name \in moded
Whole == torn # {} \/ state = "crash" => moded # {}

(* What is larger than a size is not that size.                             *)
LEMMA Unequal ==
    ASSUME NEW x \in Sizes, NEW y, y > x
    PROVE  y # x
<1>1. x \in Nat
    BY OutputsAssumption DEF OutputsAssumption
<1>2. ~(x > x)
    BY <1>1
<1> QED
    BY <1>2

(* A struct larger than its memory is that of a monitor whose mode changed. *)
LEMMA Larger ==
    ASSUME TypeOK, NEW o \in outs, Fits(o), o.size > mems[o.mem]
    PROVE  moded # {}
<1>1. mems \in Seq(Sizes) /\ o.mem \in 1..Len(mems)
    BY DEF TypeOK
<1>2. mems[o.mem] \in Sizes
    BY <1>1
<1>3. o.size # mems[o.mem]
    BY <1>2, Unequal
<1> QED
    BY <1>3 DEF Fits

(* DrawInBounds: without a mode event every output keeps to its memory, and *)
(* no memory in use is unmapped: nothing the daemon draws makes it crash.   *)
THEOREM InBounds == Spec => []DrawInBounds
<1>1. Init => DrawInBounds
    BY DEF Init, DrawInBounds
<1>2. TypeOK /\ TypeOK' /\ DrawInBounds /\ [Next]_vars => DrawInBounds'
  <2> SUFFICES ASSUME TypeOK, TypeOK', DrawInBounds, [Next]_vars PROVE DrawInBounds'
      OBVIOUS
  <2>0. Whole /\ \A o \in outs : Fits(o)
      BY DEF DrawInBounds, Fits, Whole
  <2> DEFINE Goal == Whole' /\ \A o \in outs' : Fits(o)'
  <2>1. ASSUME NEW m \in Monitors, NEW mode \in Sizes, NEW c \in Sizes, Plug(m, mode, c)
        PROVE  Goal
    <3>1. /\ \A i \in 1..Len(mems) : mems'[i] = mems[i]
          /\ torn' # torn => \E p \in Named(m) : p.size > mems[p.mem]
        BY <2>1, Plugged
    <3>2. PICK b \in Struct :
             /\ outs' = (outs \ Named(m)) \cup {b} /\ b.name = m /\ b.mem \in 1..Len(mems')
             /\ \/ b.size = mems'[b.mem]
                \/ \E p \in Named(m) : b.mem = p.mem /\ b.size = p.size
             /\ state' = "crash" => b.size > mems'[b.mem] \/ torn # {}
        BY <2>1, Plugged
    <3>3. moded' = moded /\ state = "up"
        BY <2>1 DEF Plug, Pluggable
    <3>4. \A p \in outs : p.mem \in 1..Len(mems)
        BY DEF TypeOK
    <3>5. \A o \in outs' : Fits(o)'
        BY <2>0, <3>1, <3>2, <3>3, <3>4 DEF Fits, Named
    <3>6. ASSUME torn' # torn PROVE moded # {}
        BY <2>0, <3>1, <3>6, Larger DEF Named
    <3>7. ASSUME state' = "crash" PROVE moded # {}
      <4>1. CASE torn # {}
          BY <2>0, <4>1 DEF Whole
      <4>2. CASE b.size > mems'[b.mem]
        <5>1. mems' \in Seq(Sizes) /\ b.mem \in 1..Len(mems') /\ b \in outs'
            BY <2>1, <3>2, Plugged
        <5>2. mems'[b.mem] \in Sizes
            BY <5>1
        <5>3. b.size # mems'[b.mem]
            BY <4>2, <5>2, Unequal
        <5> QED
            BY <3>3, <3>5, <5>1, <5>3 DEF Fits
      <4> QED
          BY <3>2, <3>7, <4>1, <4>2
    <3> QED
        BY <2>0, <3>3, <3>5, <3>6, <3>7 DEF Whole
  <2>2. ASSUME NEW l \in open, NEW c \in Sizes, Configure(l, c) PROVE Goal
    <3>1. /\ \A i \in 1..Len(mems) : mems'[i] = mems[i]
          /\ state' \in {"up", "error"}
        BY <2>2, Configured
    <3>2. PICK o \in outs, b \in Struct :
             /\ outs' = (outs \ {o}) \cup {b} /\ b.name = o.name
             /\ \/ b.size = mems'[b.mem]
                \/ b.mem = o.mem /\ b.size = o.size
             /\ torn' # torn => o.size > mems[o.mem]
        BY <2>2, Configured
    <3>3. moded' = moded
        BY <2>2 DEF Configure
    <3>4. \A p \in outs : p.mem \in 1..Len(mems)
        BY DEF TypeOK
    <3>5. \A p \in outs' : Fits(p)'
        BY <2>0, <3>1, <3>2, <3>3, <3>4 DEF Fits
    <3>6. ASSUME torn' # torn PROVE moded # {}
        BY <2>0, <3>2, <3>6, Larger
    <3> QED
        BY <2>0, <3>1, <3>3, <3>5, <3>6 DEF Whole
  <2>3. ASSUME NEW m \in Monitors, NEW mode \in Sizes, Mode(m, mode) PROVE Goal
    <3>1. mems' = mems /\ torn' = torn /\ state' = state /\ moded' = moded \cup {m}
        BY <2>3 DEF Mode, buffers
    <3>2. \A b \in outs' : \E o \in outs :
             b.mem = o.mem /\ b.name = o.name /\ (b.name = m \/ b.size = o.size)
        BY <2>3, Moded
    <3> QED
        BY <2>0, <3>1, <3>2 DEF Fits, Whole
  <2>4. ASSUME NEW o \in outs, NEW s \in Settings, Set(o, s) PROVE Goal
    <3>1. PICK b \in Struct :
             outs' = (outs \ {o}) \cup {b} /\ b.name = o.name /\ b.mem = o.mem /\ b.size = o.size
        BY <2>4, SetOne
    <3>2. state' = "crash" => o.size > mems[o.mem] \/ torn # {}
        BY <2>4, SetOne
    <3>3. mems' = mems /\ torn' = torn /\ moded' = moded
        BY <2>4 DEF Set
    <3>4. ASSUME o.size > mems[o.mem] PROVE moded # {}
        BY <2>0, <3>4, Larger
    <3> QED
        BY <2>0, <3>1, <3>2, <3>3, <3>4 DEF Fits, Whole
  <2>5. ASSUME NEW o \in outs, NEW c \in Sizes, o.mem # 0 => Fits(o), Ends(o, c),
               UNCHANGED <<outs, mems, torn, moded>>
        PROVE  Goal
    <3>1. state' = "crash" => o.size > mems[o.mem]
        BY <2>5 DEF Ends, Overreaches
    <3>2. ASSUME o.size > mems[o.mem] PROVE moded # {}
        BY <2>0, <3>2, Larger
    <3> QED
        BY <2>0, <2>5, <3>1, <3>2 DEF Fits, Whole
  <2>6. ASSUME NEW l \in open, NEW c \in Sizes, ConfigureEnds(l, c) PROVE Goal
      BY <2>0, <2>5, <2>6 DEF ConfigureEnds, buffers
  <2>7. ASSUME NEW m \in Monitors, NEW mode \in Sizes, NEW c \in Sizes, PlugEnds(m, mode, c)
        PROVE  Goal
    <3>1. Ends(Started(m, mode), c) /\ UNCHANGED <<outs, mems, torn, moded>>
        BY <2>7 DEF PlugEnds, buffers
    <3>2. state' = "crash" =>
             Started(m, mode).mem # 0 /\ Started(m, mode).size > mems[Started(m, mode).mem]
        BY <3>1 DEF Ends, Overreaches
    <3>3. Started(m, mode).mem # 0 =>
             \E p \in Named(m) : Started(m, mode).mem = p.mem /\ Started(m, mode).size = p.size
      <4>1. PICK n : n = plugs + 1 /\ n \in 1..MaxPlugs
          BY <2>7, OutputsAssumption DEF PlugEnds, Pluggable, TypeOK, OutputsAssumption
      <4> QED
          BY <4>1, StartedFrom
    <3>4. ASSUME state' = "crash" PROVE moded # {}
      <4>1. PICK p \in Named(m) : p.size > mems[p.mem]
          BY <3>2, <3>3, <3>4
      <4> QED
          BY <2>0, <4>1, Larger DEF Named
    <3> QED
        BY <2>0, <3>1, <3>4 DEF Fits, Whole
  <2>8. ASSUME UNCHANGED <<outs, mems, torn, state, moded>> PROVE Goal
      BY <2>0, <2>8 DEF Fits, Whole
  <2>9. Goal
    <3> HIDE DEF Goal
    <3> QED
        BY <2>1, <2>2, <2>3, <2>4, <2>6, <2>7, <2>8
        DEF Next, Unplug, Close, Deleted, vars, monitors, buffers
  <2> QED
      BY <2>9 DEF DrawInBounds, Fits, Whole
<1> QED
    BY <1>1, <1>2, TypeCorrect, PTL DEF Spec

-----------------------------------------------------------------------------
(* A buffer that is refused is the second one at least.                     *)
LEMMA RefusedSecond ==
    ASSUME TypeOK, NEW o, Refused(o)
    PROVE  Len(Files(o)) > 1
<1>1. mems \in Seq(Sizes) /\ mems # <<>> /\ Files(o) = Append(mems, o.size)
    BY DEF TypeOK, Refused, Files
<1>2. Len(mems) \in Nat /\ Len(mems) # 0
    BY <1>1
<1>3. Len(Files(o)) = Len(mems) + 1
    BY <1>1
<1> QED
    BY <1>2, <1>3

(* With one surface, and none that is being destroyed, the newest surface   *)
(* is the one a configure event is for.                                     *)
LEMMA OnlySurface ==
    ASSUME TypeOK, IsFiniteSet(open), NEW l \in open, Newest(open) # l.surf
    PROVE  Cardinality(open) > 1 \/ closing # {}
<1>1. Cardinality(open) \in Nat /\ Cardinality(open) # 0
    BY FS_CardinalityType, FS_EmptySet
<1>2. ASSUME Cardinality(open) = 1, closing = {} PROVE FALSE
  <2>1. open = {l}
      BY <1>2, FS_Singleton
  <2>2. {k.surf : k \in open} \cup closing = {l.surf}
      BY <1>2, <2>1
  <2>3. l.surf \in Nat
      BY OutputsAssumption DEF TypeOK, Surface, OutputsAssumption
  <2>4. Max({l.surf}) = l.surf
      BY <2>3 DEF Max
  <2> QED
      BY <2>2, <2>4 DEF Newest
<1> QED
    BY <1>1, <1>2

(* Painting is an error only on a surface that is being destroyed, and      *)
(* leaves as many surfaces as there are.                                    *)
LEMMA PaintErrors ==
    ASSUME NEW o, NEW files, NEW surfaces, IsFiniteSet(surfaces), Paint(o, files, surfaces)
    PROVE  /\ IsFiniteSet(open')
           /\ state' = "error" => closing # {}
           /\ state' # "exit"
<1> DEFINE shown(l) == IF l.surf = Newest(surfaces) THEN [l EXCEPT !.shows = pool'] ELSE l
<1>1. CASE open' = surfaces /\ state' = "crash"
    BY <1>1
<1>2. CASE /\ open' = {shown(l) : l \in surfaces}
           /\ state' = IF surfaces = {} /\ closing = {} THEN "up"
                       ELSE IF Newest(surfaces) \in closing THEN "error" ELSE "up"
  <2>1. IsFiniteSet({shown(l) : l \in surfaces})
    <3> DEFINE T == {shown(l) : l \in surfaces}
               f == [l \in surfaces |-> shown(l)]
    <3> HIDE DEF shown
    <3>1. f \in Surjection(surfaces, T)
        BY Zenon DEF Surjection
    <3> QED
        BY <3>1, FS_Surjection
  <2> QED
      BY <1>2, <2>1
<1> QED
    BY <1>1, <1>2 DEF Paint

(* ErrorExplained: as long as there is one monitor that keeps its size, and *)
(* none was unplugged, the compositor finds nothing wrong; and nothing but  *)
(* the files it keeps open makes the daemon exit.                           *)
THEOREM Errors == Spec => []ErrorExplained
<1> DEFINE EInv == IsFiniteSet(open) /\ ErrorExplained
<1>1. Init => EInv
    BY FS_EmptySet DEF Init, ErrorExplained
<1>2. TypeOK /\ TypeOK' /\ EInv /\ [Next]_vars => EInv'
  <2> SUFFICES ASSUME TypeOK, TypeOK', EInv, [Next]_vars PROVE EInv'
      OBVIOUS
  <2>1. ASSUME NEW m \in Monitors, NEW mode \in Sizes, NEW c \in Sizes, Plug(m, mode, c)
        PROVE  EInv'
    <3> DEFINE o   == Resized(Started(m, mode), c)
               now == open \cup {NewSurface(m, plugs')}
    <3>1. /\ mems' = Files(o) /\ closing' = closing
          /\ IF Refused(o) \/ o.set = None
             THEN open' = now /\ state' = (IF Refused(o) THEN "error" ELSE "up")
             ELSE Paint(Buffered(o), mems', now)
        BY <2>1 DEF Plug, NewSurface
    <3>2. IsFiniteSet(now)
        BY FS_AddElement
    <3>3. CASE open' = now /\ state' = (IF Refused(o) THEN "error" ELSE "up")
      <4> HIDE DEF o, now
      <4> QED
          BY <3>1, <3>2, <3>3, RefusedSecond DEF ErrorExplained
    <3>4. CASE Paint(Buffered(o), mems', now)
      <4> HIDE DEF o, now
      <4> QED
          BY <3>1, <3>2, <3>4, PaintErrors DEF ErrorExplained
    <3> QED
        BY <3>1, <3>3, <3>4
  <2>2. ASSUME NEW l \in open, NEW c \in Sizes, Configure(l, c) PROVE EInv'
    <3>1. PICK o \in outs :
             /\ mems' = Files(Resized(o, c))
             /\ state' = IF Newest(open) # l.surf \/ Refused(Resized(o, c)) THEN "error" ELSE "up"
        BY <2>2, Zenon DEF Configure
    <3>2. UNCHANGED <<open, closing>>
        BY <2>2 DEF Configure
    <3>3. CASE Newest(open) # l.surf
        BY <3>1, <3>2, <3>3, OnlySurface DEF ErrorExplained
    <3>4. CASE Refused(Resized(o, c))
        BY <3>1, <3>2, <3>4, RefusedSecond DEF ErrorExplained
    <3> QED
        BY <3>1, <3>2, <3>3, <3>4 DEF ErrorExplained
  <2>3. ASSUME NEW o \in outs, NEW s \in Settings, Set(o, s) PROVE EInv'
    <3>1. Paint([o EXCEPT !.set = s], mems, open) /\ closing' = closing
        BY <2>3, Zenon DEF Set
    <3> QED
        BY <3>1, PaintErrors DEF ErrorExplained
  <2>4. ASSUME NEW o, NEW c, Ends(o, c), UNCHANGED <<open, mems>> PROVE EInv'
      BY <2>4 DEF Ends, Exhausted, ErrorExplained
  <2>5. ASSUME NEW m \in Monitors, NEW mode \in Sizes, NEW c \in Sizes, PlugEnds(m, mode, c)
        PROVE  EInv'
      BY <2>4, <2>5 DEF PlugEnds, buffers
  <2>6. ASSUME NEW l \in open, NEW c \in Sizes, ConfigureEnds(l, c) PROVE EInv'
      BY <2>4, <2>6 DEF ConfigureEnds, buffers
  <2>7. ASSUME open' \subseteq open, state' = "up" PROVE EInv'
      BY <2>7, FS_Subset DEF ErrorExplained
  <2>8. CASE UNCHANGED vars
      BY <2>8 DEF vars, buffers, ErrorExplained
  <2> HIDE DEF EInv
  <2>9. ASSUME NEW m \in Monitors, Unplug(m) PROVE EInv'
      BY <2>7, <2>9 DEF Unplug
  <2>10. ASSUME NEW m \in Monitors, NEW mode \in Sizes, Mode(m, mode) PROVE EInv'
      BY <2>7, <2>10 DEF Mode
  <2>11. ASSUME NEW l \in open, Close(l) PROVE EInv'
      BY <2>7, <2>11 DEF Close
  <2>12. CASE Deleted
      BY <2>7, <2>12 DEF Deleted
  <2> QED
      BY <2>1, <2>2, <2>3, <2>5, <2>6, <2>8, <2>9, <2>10, <2>11, <2>12 DEF Next
<1>3. EInv => ErrorExplained
    OBVIOUS
<1> QED
    BY <1>1, <1>2, <1>3, TypeCorrect, PTL DEF Spec

-----------------------------------------------------------------------------
\* While there is one buffer, there is one struct, which has the newest surface
\* there ever was and has not had its memory unmapped.
Alone ==
    Len(mems) <= 1 =>
        /\ torn = {}
        /\ \A o, p \in outs : o = p
        /\ \A o \in outs : o.surf = plugs

\* Surfaces are counted.
Numbered == closing \subseteq 1..plugs /\ \A o \in outs : o.surf <= plugs

(* What is the newest.                                                      *)
LEMMA NewestIs ==
    ASSUME NEW n \in Nat, NEW surfaces, closing \subseteq 1..n,
           \A l \in surfaces : l.surf = n, surfaces # {}
    PROVE  Newest(surfaces) = n
<1> DEFINE S == {l.surf : l \in surfaces} \cup closing
<1>1. S = {n} \cup closing
    OBVIOUS
<1> HIDE DEF S
<1>2. n \in S /\ \A x \in S : x \in Nat /\ x <= n
    BY <1>1
<1>3. \A x \in S : (\A y \in S : x >= y) <=> x = n
    BY <1>2
<1>4. Max(S) = n
    BY <1>2, <1>3 DEF Max
<1> QED
    BY <1>4 DEF Newest, S

(* What is drawn in the pool is what the newest surface shows then.         *)
LEMMA PaintShows ==
    ASSUME NEW o \in Struct, o.mem = 1, o.mem \notin torn, NEW files,
           NEW surfaces, surfaces \subseteq Surface,
           \A l \in surfaces : l.surf = Newest(surfaces),
           Paint(o, files, surfaces), state' = "up"
    PROVE  \A l \in open' : l.shows = o.set
<1>1. pool' = o.set
    BY DEF Paint, Pool
<1>2. open' = {IF l.surf = Newest(surfaces) THEN [l EXCEPT !.shows = pool'] ELSE l : l \in surfaces}
    BY DEF Paint
<1>3. ASSUME NEW l \in open' PROVE l.shows = pool'
  <2>1. PICK k \in surfaces : l = [k EXCEPT !.shows = pool']
      BY <1>2
  <2>2. k \in Surface
      OBVIOUS
  <2> QED
      BY <2>1, <2>2 DEF Surface
<1> QED
    BY <1>1, <1>3

(* A struct without a buffer gets a new one.                                *)
LEMMA NewFile ==
    ASSUME TypeOK, NEW o \in Raw, NEW c \in Sizes, o.mem = 0 \/ o.size # c
    PROVE  Len(Files(Resized(o, c))) = Len(mems) + 1
<1>1. Resized(o, c).mem = 0
  <2>1. CASE o.size = c
      BY <2>1 DEF Resized
  <2>2. CASE o.size # c
      BY <2>2 DEF Resized, Raw
  <2> QED
      BY <2>1, <2>2
<1>2. mems \in Seq(Sizes) /\ Files(Resized(o, c)) = Append(mems, Resized(o, c).size)
    BY <1>1 DEF TypeOK, Files
<1> QED
    BY <1>2

\* What the proof is about.
Shown == TypeOK /\ Inv /\ Alone /\ Numbered /\ OnlyBufferShows

(* A monitor that is plugged in shows the wallpaper of its struct.          *)
LEMMA PlugShows ==
    ASSUME Shown, TypeOK',
           NEW m \in Monitors, NEW mode \in Sizes, NEW c \in Sizes, Plug(m, mode, c)
    PROVE  Alone' /\ Numbered' /\ OnlyBufferShows'
<1> DEFINE start == Started(m, mode)
           o     == Resized(start, c)
           now   == open \cup {NewSurface(m, plugs')}
<1>1. TypeOK /\ Alone /\ Numbered /\ OneStructEach /\ ListenersLive
    BY DEF Shown, Inv
<1>2. PICK n \in 1..MaxPlugs : n = plugs + 1 /\ plugs' = n /\ plugs \in Nat /\ n \in Nat
    BY <1>1, OutputsAssumption DEF TypeOK, Plug, Pluggable, OutputsAssumption
<1>3. /\ outs' = (outs \ Named(m)) \cup {Buffered(o)}
      /\ mems' = Files(o) /\ torn' \in Torn(start, c)
      /\ IF Refused(o) \/ o.set = None
         THEN open' = now /\ state' = (IF Refused(o) THEN "error" ELSE "up")
         ELSE Paint(Buffered(o), mems', now)
      /\ m \notin plugged /\ closing' = closing
    BY Zenon DEF Plug, Pluggable, Replaced, NewSurface
<1>4. /\ start \in Raw /\ start.name = m
      /\ start.mem # 0 => Named(m) # {}
  <2>1. /\ start \in Raw /\ start.name = m
        /\ start.mem # 0 => \E p \in Named(m) : start.mem = p.mem /\ start.size = p.size
      BY <1>1, <1>2, StartedFrom
  <2> QED
      BY <2>1
<1>5. PICK b \in Struct :
         /\ outs' = (outs \ Named(m)) \cup {b}
         /\ b.surf = n /\ b.mem \in 1..Len(mems')
    BY <1>1, <1>2, Plugged
<1>6. Len(mems) \in Nat /\ Len(mems') \in Nat /\ Len(mems) <= Len(mems')
    BY <1>1, Plugged DEF TypeOK
<1>7. o.set = None => Buffered(o).set = None
  <2>1. o = start \/ o = [start EXCEPT !.size = c, !.mem = 0]
      BY DEF Resized
  <2>2. o \in [ptr : 1..MaxPlugs, name : Monitors, size : Sizes,
               mem : 0..MaxMems, surf : 0..MaxPlugs, set : Settings \cup {None}]
    <3>1. 0 \in 0..MaxMems
        BY OutputsAssumption DEF OutputsAssumption
    <3> QED
        BY <1>4, <2>1, <3>1 DEF Raw
  <2> HIDE DEF o
  <2> QED
      BY <2>2 DEF Buffered
<1>8. Numbered'
    BY <1>1, <1>2, <1>3, <1>5 DEF Numbered, TypeOK, Struct
<1>9. ASSUME Len(mems') <= 1
      PROVE  outs \ Named(m) = {} /\ open = {} /\ torn' = {} /\ torn = {}
  <2>1. Len(mems) <= 1
      BY <1>6, <1>9
  <2>2. outs \ Named(m) = {}
    <3>1. CASE Named(m) = {}
      <4>1. Len(mems') = Len(mems) + 1
          BY <1>1, <1>3, <1>4, <3>1, NewFile
      <4>2. Len(mems) = 0
          BY <1>6, <1>9, <4>1
      <4> QED
          BY <1>1, <4>2 DEF TypeOK
    <3>2. CASE Named(m) # {}
        BY <1>1, <2>1, <3>2 DEF Alone, Named
    <3> QED
        BY <3>1, <3>2
  <2>3. open = {}
      BY <1>1, <1>3, <2>2 DEF ListenersLive, Named, TypeOK
  <2>4. {q \in outs : q.name # start.name} = {}
      BY <1>4, <2>2 DEF Named
  <2>5. torn' = torn
      BY <1>3, <2>4 DEF Torn
  <2> QED
      BY <1>1, <2>1, <2>2, <2>3, <2>5 DEF Alone
<1>10. Alone'
    BY <1>2, <1>5, <1>9 DEF Alone
<1>11. ASSUME state' = "up", Len(mems') = 1
       PROVE  \A l \in open' : \A p \in outs' : l.shows = p.set
  <2>1. /\ outs' = {Buffered(o)} /\ Buffered(o) \in Struct /\ Buffered(o).mem = 1
        /\ now = {NewSurface(m, n)} /\ torn = {}
    <3>1. outs \ Named(m) = {} /\ open = {} /\ torn = {}
        BY <1>9, <1>11
    <3>2. outs' = {b} /\ outs' = {Buffered(o)}
        BY <1>3, <1>5, <3>1
    <3>3. b = Buffered(o)
        BY <3>2
    <3> QED
        BY <1>2, <1>5, <1>11, <3>1, <3>2, <3>3
  <2>2. /\ NewSurface(m, n) \in Surface /\ NewSurface(m, n).surf = n
        /\ NewSurface(m, n).shows = None
      BY <1>2 DEF NewSurface, Surface
  <2>3. CASE open' = now /\ o.set = None
      BY <1>7, <2>1, <2>2, <2>3
  <2>4. CASE Paint(Buffered(o), mems', now)
    <3>1. Newest(now) = n
      <4>1. closing \subseteq 1..n
          BY <1>1, <1>2 DEF Numbered
      <4> QED
          BY <1>2, <2>1, <2>2, <4>1, NewestIs
    <3>2. now \subseteq Surface /\ \A l \in now : l.surf = Newest(now)
        BY <2>1, <2>2, <3>1
    <3> HIDE DEF o, now
    <3>3. \A l \in open' : l.shows = Buffered(o).set
        BY <1>11, <2>1, <2>4, <3>2, PaintShows
    <3> QED
        BY <2>1, <3>3
  <2> QED
      BY <1>3, <1>11, <2>3, <2>4
<1> QED
    BY <1>8, <1>10, <1>11 DEF OnlyBufferShows

(* What a request draws is shown.                                           *)
LEMMA SetShows ==
    ASSUME Shown, TypeOK', NEW o \in outs, NEW s \in Settings, Set(o, s)
    PROVE  Alone' /\ Numbered' /\ OnlyBufferShows'
<1> DEFINE b == [o EXCEPT !.set = s]
<1>1. /\ outs' = (outs \ {o}) \cup {b} /\ Paint(b, mems, open)
      /\ UNCHANGED <<plugs, closing, mems, torn>>
    BY Zenon DEF Set, monitors
<1>2. TypeOK /\ Alone /\ Numbered /\ ListenersLive
    BY DEF Shown, Inv
<1>3. b \in Struct /\ b.surf = o.surf /\ b.mem = o.mem
    BY <1>2 DEF TypeOK, Struct
<1> HIDE DEF b
<1>4. Alone' /\ Numbered'
    BY <1>1, <1>2, <1>3 DEF Alone, Numbered
<1>5. ASSUME state' = "up", Len(mems) = 1, open # {}
      PROVE  \A l \in open' : \A p \in outs' : l.shows = p.set
  <2>1. torn = {} /\ outs' = {b} /\ b.surf = plugs /\ b.mem = 1 /\ plugs \in Nat
    <3>1. o.mem \in 1..Len(mems) /\ plugs \in Nat
        BY <1>2, OutputsAssumption DEF TypeOK, OutputsAssumption
    <3> QED
        BY <1>1, <1>2, <1>3, <1>5, <3>1 DEF Alone
  <2>2. \A l \in open : l.surf = plugs
      BY <1>2, <1>5 DEF ListenersLive, Alone
  <2>3. Newest(open) = plugs
      BY <1>2, <1>5, <2>1, <2>2, NewestIs DEF Numbered
  <2>4. open \subseteq Surface /\ \A l \in open : l.surf = Newest(open)
      BY <1>2, <2>2, <2>3 DEF TypeOK
  <2>5. \A l \in open' : l.shows = b.set
      BY <1>1, <1>3, <1>5, <2>1, <2>4, PaintShows
  <2> QED
      BY <2>1, <2>5
<1>6. open = {} => open' = {}
    BY <1>1 DEF Paint
<1> QED
    BY <1>1, <1>4, <1>5, <1>6 DEF OnlyBufferShows

(* A configure event of the same size changes nothing, one of another takes *)
(* a second buffer.                                                         *)
LEMMA ConfigureShows ==
    ASSUME Shown, TypeOK', NEW l \in open, NEW c \in Sizes, Configure(l, c)
    PROVE  Alone' /\ Numbered' /\ OnlyBufferShows'
<1>1. TypeOK /\ Alone /\ Numbered /\ OnlyBufferShows
    BY DEF Shown
<1>2. UNCHANGED <<open, closing, plugs>> /\ state = "up"
    BY DEF Configure, monitors
<1>3. PICK o \in outs :
         /\ torn' \in Torn(o, c)
         /\ outs' = (outs \ {o}) \cup {Buffered(Resized(o, c))}
         /\ mems' = Files(Resized(o, c))
    BY Zenon DEF Configure
<1>4. o \in Raw /\ o.mem \in 1..Len(mems) /\ Len(mems) \in Nat
    BY <1>1, OutputsAssumption DEF TypeOK, Struct, Raw, OutputsAssumption
<1>5. CASE o.size = c
  <2>1. Resized(o, c) = o /\ Buffered(o) = o /\ Files(o) = mems /\ torn' = torn
      BY <1>3, <1>4, <1>5 DEF Resized, Buffered, Files, Torn, Overreaches
  <2>2. outs' = outs /\ mems' = mems
      BY <1>3, <2>1
  <2> QED
      BY <1>1, <1>2, <2>1, <2>2 DEF Alone, Numbered, OnlyBufferShows
<1>6. CASE o.size # c
  <2>1. Len(mems') = Len(mems) + 1
      BY <1>1, <1>3, <1>4, <1>6, NewFile
  <2>2. Len(mems') > 1
      BY <1>4, <2>1
  <2>3. PICK p \in outs, b \in Struct : outs' = (outs \ {p}) \cup {b} /\ b.surf = p.surf
      BY <1>1, Configured
  <2>4. Numbered'
      BY <1>1, <1>2, <2>3 DEF Numbered
  <2> QED
      BY <2>1, <2>2, <2>4, <1>4 DEF Alone, OnlyBufferShows
<1> QED
    BY <1>5, <1>6

(* And nothing else is drawn or attached.                                   *)
LEMMA NextShows ==
    ASSUME Shown, TypeOK', [Next]_vars
    PROVE  Alone' /\ Numbered' /\ OnlyBufferShows'
<1> DEFINE Goal == Alone' /\ Numbered' /\ OnlyBufferShows'
<1>0. TypeOK /\ Alone /\ Numbered /\ OnlyBufferShows
    BY DEF Shown
<1>1. ASSUME UNCHANGED <<outs, mems, torn, plugs>>, closing' \subseteq 1..plugs,
             open' \subseteq open, state' = "up" => state = "up"
      PROVE  Goal
    BY <1>0, <1>1 DEF Alone, Numbered, OnlyBufferShows
<1>2. \A l \in open : Owned(l) \subseteq 1..plugs
  <2>1. \A o \in outs : o.surf \in Nat \ {0} /\ o.surf <= plugs /\ plugs \in Nat
      BY <1>0, OutputsAssumption DEF TypeOK, Struct, Numbered, OutputsAssumption
  <2> QED
      BY <2>1 DEF Owned
<1>3. closing \subseteq 1..plugs
    BY <1>0 DEF Numbered
<1>4. ASSUME NEW m \in Monitors, Unplug(m) PROVE Goal
  <2>1. closing' \subseteq 1..plugs
    <3>1. UNION {Owned(k) : k \in open \ open'} \subseteq 1..plugs
        BY <1>2
    <3>2. closing' = closing \cup UNION {Owned(k) : k \in open \ open'}
        BY <1>4 DEF Unplug
    <3> QED
        BY <1>3, <3>1, <3>2
  <2> QED
      BY <1>1, <1>4, <2>1 DEF Unplug, buffers
<1>5. ASSUME NEW l \in open, Close(l) PROVE Goal
  <2>1. closing' \subseteq 1..plugs
      BY <1>2, <1>3, <1>5 DEF Close
  <2> QED
      BY <1>1, <1>5, <2>1 DEF Close, buffers, monitors
<1>6. CASE Deleted
    BY <1>1, <1>6 DEF Deleted, buffers, monitors
<1>7. CASE UNCHANGED vars
    BY <1>1, <1>3, <1>7 DEF vars, buffers, monitors
<1>8. ASSUME NEW o, NEW c, Ends(o, c), UNCHANGED <<outs, open, closing, mems, torn, plugs>>
      PROVE  Goal
  <2>1. state' # "up"
      BY <1>8 DEF Ends
  <2> QED
      BY <1>1, <1>3, <1>8, <2>1
<1>9. ASSUME NEW m \in Monitors, NEW mode \in Sizes, NEW c \in Sizes, PlugEnds(m, mode, c)
      PROVE  Goal
    BY <1>8, <1>9 DEF PlugEnds, buffers, monitors
<1>10. ASSUME NEW l \in open, NEW c \in Sizes, ConfigureEnds(l, c) PROVE Goal
    BY <1>8, <1>10 DEF ConfigureEnds, buffers, monitors
<1>11. ASSUME NEW m \in Monitors, NEW mode \in Sizes, Mode(m, mode) PROVE Goal
  <2>1. UNCHANGED <<plugs, open, closing, mems, torn, state>>
      BY <1>11 DEF Mode, buffers, monitors
  <2>2. /\ \A b \in outs' : \E o \in outs : b.ptr = o.ptr /\ b.surf = o.surf /\ b.set = o.set
        /\ \A b, d \in outs' : \E o, p \in outs : (o = p => b = d)
      BY <1>0, <1>11, Moded
  <2> QED
      BY <1>0, <2>1, <2>2 DEF Alone, Numbered, OnlyBufferShows
<1> QED
    BY <1>4, <1>5, <1>6, <1>7, <1>9, <1>10, <1>11, PlugShows, SetShows, ConfigureShows DEF Next

(* OnlyBufferShows: one monitor that keeps its size shows its wallpaper,    *)
(* however often it is replugged, closed and set to another.                *)
THEOREM OnlyBuffer == Spec => []OnlyBufferShows
<1>1. Init => Alone /\ Numbered /\ OnlyBufferShows
    BY DEF Init, Alone, Numbered, OnlyBufferShows
<1>2. Init => Inv
    BY DEF Init, Inv, OneStructEach, ListenersLive, Named
<1>3. TypeOK /\ Inv /\ [Next]_vars => Inv'
    BY Preserved
<1>4. TypeOK /\ TypeOK' /\ Inv /\ Alone /\ Numbered /\ OnlyBufferShows /\ [Next]_vars
         => Alone' /\ Numbered' /\ OnlyBufferShows'
    BY NextShows DEF Shown
<1> QED
    BY <1>1, <1>2, <1>3, <1>4, TypeCorrect, PTL DEF Spec

=============================================================================
