---------------------------- MODULE Device_proofs ----------------------------
(***************************************************************************)
(* What stands between the engine and the device: the set-up of the device,*)
(* the pipelines, and the scheduler with its fences.                       *)
(* The components share nothing; each has its own specification, invariant *)
(* and theorems.                                                           *)
(***************************************************************************)
EXTENDS DeviceSetup, ShaderLibrary, FenceScheduler, SetsAndQueues

-----------------------------------------------------------------------------
(* DeviceSetup: what init knows at each stage.                             *)
LEMMA MinOf ==
  ASSUME NEW S, S \subseteq Nat, S # {}
  PROVE  Min(S) \in S /\ \A x \in S : Min(S) <= x
  BY SmallestNumber DEF Min

GpuPicked ==
  /\ listed \in Systems /\ gpu \in DOMAIN listed
  /\ Gpu.amd \/ \A i \in DOMAIN listed : ~listed[i].amd

WaveRuns == /\ wave.size \in Gpu.min .. Gpu.max
            /\ wave.force => 32 \in Gpu.min .. Gpu.max

FamilyBest ==
  /\ family \in DOMAIN Gpu.families /\ Gpu.families[family].compute
  /\ \A i \in DOMAIN Gpu.families \ {family} : Gpu.families[i].compute => Better(family, i)

QueuesThere ==
  /\ DOMAIN queues = 1 .. 4
  /\ \A q \in 1 .. 4 : queues[q][1] = family /\ queues[q][2] <= QueueCount
  /\ QueueCount <= Gpu.families[family].count

DeviceInv ==
  /\ setupAt = "instance" => listed \in Systems
  /\ setupAt \in {"picked", "wave", "family", "ready"} => GpuPicked
  /\ setupAt \in {"wave", "family", "ready"} => WaveRuns
  /\ setupAt \in {"family", "ready"} => FamilyBest
  /\ setupAt = "ready" => QueuesThere

LEMMA KindIs ==
  ASSUME NEW r
  PROVE  /\ Kind(r, 1) <=> r.compute /\ ~r.graphics /\ r.count >= 4
         /\ Kind(r, 2) <=> r.compute /\ ~r.graphics
         /\ Kind(r, 3) <=> r.compute /\ r.count >= 4
         /\ Kind(r, 4) <=> r.compute
<1>1. Kind(r, 1) <=> r.compute /\ ~r.graphics /\ r.count >= 4
  BY DEF Kind
<1>2. Kind(r, 2) <=> r.compute /\ ~r.graphics
  BY DEF Kind
<1>3. Kind(r, 3) <=> r.compute /\ r.count >= 4
  BY DEF Kind
<1>4. Kind(r, 4) <=> r.compute
  BY DEF Kind
<1> QED BY <1>1, <1>2, <1>3, <1>4

(* The first family a pass finds is the best one: the passes before it     *)
(* found none.                                                             *)
LEMMA FourPasses ==
  ASSUME GpuPicked, FindQueueFamily, family' # 0
  PROVE  FamilyBest'
<1> DEFINE fams == Gpu.families
           Of(n) == {i \in DOMAIN fams : Kind(fams[i], n)}
           found == {n \in 1 .. 4 : Pass(n) # 0}
<1>1. /\ DOMAIN fams = 1 .. Len(fams) /\ Len(fams) \in Nat
      /\ \A i \in DOMAIN fams : /\ fams[i].count \in Nat
                                /\ fams[i].compute \in BOOLEAN /\ fams[i].graphics \in BOOLEAN
  BY DeviceAssumption DEF GpuPicked, Gpu
<1>2. Gpu' = Gpu /\ family' = IF found = {} THEN 0 ELSE Pass(Min(found))
  BY DEF FindQueueFamily, Gpu
<1>3. ASSUME NEW n \in 1 .. 4
      PROVE  /\ Pass(n) = 0 <=> Of(n) = {}
             /\ Pass(n) # 0 => Pass(n) \in Of(n) /\ \A i \in Of(n) : Pass(n) <= i
  <2>1. Of(n) \subseteq Nat /\ 0 \notin Of(n) /\ Pass(n) = FirstOf(Of(n))
    BY <1>1 DEF Pass
  <2> HIDE DEF Of
  <2>2. Of(n) # {} => Min(Of(n)) \in Of(n) /\ \A i \in Of(n) : Min(Of(n)) <= i
    BY <2>1, MinOf
  <2> QED BY <2>1, <2>2 DEF FirstOf
<1> DEFINE m == Min(found)
<1>4. m \in found /\ \A n \in found : m <= n
  <2>1. found \subseteq Nat /\ found # {}
    BY <1>2
  <2> HIDE DEF found
  <2> QED BY <2>1, MinOf
<1>5. m \in 1 .. 4 /\ family' = Pass(m) /\ \A n \in 1 .. 4 : n < m => Of(n) = {}
  BY <1>2, <1>3, <1>4
<1> HIDE DEF m, found
<1>6. family' \in Of(m) /\ \A i \in Of(m) : family' <= i
  BY <1>2, <1>3, <1>5
<1> DEFINE f == family'
<1>7. f \in DOMAIN fams /\ Kind(fams[f], m)
  BY <1>6
<1>m. m = 1 \/ m = 2 \/ m = 3 \/ m = 4
  BY <1>5
<1>8. fams[f].compute
  <2> HIDE DEF f, fams
  <2> QED BY <1>m, <1>7, KindIs
<1>9. ASSUME NEW i \in DOMAIN fams, i # f, fams[i].compute
      PROVE  IF fams[f].graphics # fams[i].graphics THEN fams[i].graphics
             ELSE IF (fams[f].count >= 4) # (fams[i].count >= 4) THEN fams[f].count >= 4
             ELSE f < i
  <2>1. \A n \in 1 .. 4 : n < m => ~Kind(fams[i], n)
    BY <1>5, <1>9
  <2>2. Kind(fams[i], m) => f < i
    BY <1>1, <1>6, <1>7, <1>9
  <2> HIDE DEF f, fams
  <2> DEFINE a == fams[f]
             b == fams[i]
  <2>3. a.count \in Nat /\ a.compute \in BOOLEAN /\ a.graphics \in BOOLEAN
    BY <1>1, <1>7
  <2>4. b.count \in Nat /\ b.compute \in BOOLEAN /\ b.graphics \in BOOLEAN /\ b.compute
    BY <1>1, <1>9
  <2>5. Kind(a, m) /\ (Kind(b, m) => f < i) /\ \A n \in 1 .. 4 : n < m => ~Kind(b, n)
    BY <1>7, <2>1, <2>2
  <2> HIDE DEF a, b
  <2> DEFINE Goal == /\ a.graphics => b.graphics
                     /\ (a.graphics <=> b.graphics) /\ b.count >= 4 => a.count >= 4
                     /\ (a.graphics <=> b.graphics) /\ (a.count >= 4 <=> b.count >= 4) => f < i
  <2>6. ASSUME m = 1 PROVE Goal
    <3>1. Kind(a, 1) /\ (Kind(b, 1) => f < i)
      BY <2>5, <2>6
    <3> QED BY <2>4, <3>1, KindIs
  <2>7. ASSUME m = 2 PROVE Goal
    <3>1. Kind(a, 2) /\ (Kind(b, 2) => f < i) /\ ~Kind(b, 1)
      BY <2>5, <2>7
    <3> QED BY <2>4, <3>1, KindIs
  <2>8. ASSUME m = 3 PROVE Goal
    <3>1. Kind(a, 3) /\ (Kind(b, 3) => f < i) /\ ~Kind(b, 1) /\ ~Kind(b, 2)
      BY <2>5, <2>8
    <3> QED BY <2>4, <3>1, KindIs
  <2>9. ASSUME m = 4 PROVE Goal
    <3>1. Kind(a, 4) /\ (Kind(b, 4) => f < i) /\ ~Kind(b, 1) /\ ~Kind(b, 2) /\ ~Kind(b, 3)
      BY <2>5, <2>9
    <3> QED BY <2>4, <3>1, KindIs
  <2>g. Goal
    BY <1>m, <2>6, <2>7, <2>8, <2>9
  <2>10. IF a.graphics # b.graphics THEN b.graphics
         ELSE IF (a.count >= 4) # (b.count >= 4) THEN a.count >= 4 ELSE f < i
    BY <2>3, <2>4, <2>g
  <2> QED BY <2>10 DEF a, b
<1> QED BY <1>2, <1>7, <1>8, <1>9 DEF FamilyBest, Better

LEMMA DeviceStepInv == DeviceInv /\ [DeviceNext]_deviceVars => DeviceInv'
<1> SUFFICES ASSUME DeviceInv, [DeviceNext]_deviceVars PROVE DeviceInv'
  OBVIOUS
<1> USE DEF GpuPicked, WaveRuns, FamilyBest, QueuesThere, Better, Gpu
<1>1. CASE UNCHANGED deviceVars
  BY <1>1 DEF deviceVars, DeviceInv, QueueCount
<1>2. CASE CreateInstance \/ Cleanup
  BY <1>2 DEF CreateInstance, Cleanup, DeviceInv
<1>3. CASE PickPhysicalDevice
  <2> DEFINE amd == {i \in DOMAIN listed : listed[i].amd}
  <2>1. /\ listed \in Systems /\ listed' = listed
        /\ gpu' = IF listed = << >> THEN 0 ELSE IF amd = {} THEN 1 ELSE Min(amd)
        /\ setupAt' = IF listed = << >> THEN "failed" ELSE "picked"
    BY <1>3 DEF PickPhysicalDevice, DeviceInv
  <2>2. DOMAIN listed = 1 .. Len(listed) /\ Len(listed) \in Nat
    BY <2>1, DeviceAssumption
  <2>3. amd # {} => Min(amd) \in amd
    <3>1. amd \subseteq Nat
      BY <2>2
    <3> HIDE DEF amd
    <3> QED BY <3>1, MinOf
  <2>4. listed # << >> => gpu' \in DOMAIN listed /\ (amd # {} => gpu' \in amd)
    BY <2>1, <2>2, <2>3
  <2>5. setupAt' = "picked" => GpuPicked'
    BY <2>1, <2>4
  <2> QED BY <2>1, <2>5 DEF DeviceInv
<1>4. CASE DetectWave
  <2>1. GpuPicked /\ UNCHANGED <<listed, gpu>>
    BY <1>4 DEF DetectWave, DeviceInv
  <2>2. Gpu.min \in Nat /\ Gpu.max \in Nat /\ Gpu.default \in Gpu.min .. Gpu.max
    BY <2>1, DeviceAssumption
  <2> DEFINE g     == Gpu
             rdna4 == Wave32Available(g) /\ g.default = 64
  <2>3. wave' = IF ~g.amd THEN [DefaultWave EXCEPT !.size = g.default]
                ELSE [size       |-> IF rdna4 THEN 32 ELSE g.default,
                      generation |-> IF rdna4 THEN 4 ELSE IF g.default <= 32 THEN 3 ELSE 1,
                      force      |-> Wave32Available(g)]
    BY <1>4 DEF DetectWave
  <2>4. g' = g
    BY <2>1
  <2>5. g.min \in Nat /\ g.max \in Nat /\ g.default \in g.min .. g.max
    BY <2>2
  <2>6. wave'.size \in g.min .. g.max /\ (wave'.force => 32 \in g.min .. g.max)
    <3> HIDE DEF g
    <3>1. CASE ~g.amd
      BY <2>3, <2>5, <3>1 DEF DefaultWave
    <3>2. CASE g.amd
      <4>1. /\ wave'.size = IF rdna4 THEN 32 ELSE g.default
            /\ wave'.force = Wave32Available(g)
        BY <2>3, <3>2
      <4>2. Wave32Available(g) => 32 \in g.min .. g.max
        BY <2>5 DEF Wave32Available
      <4> QED BY <2>5, <4>1, <4>2
    <3> QED BY <3>1, <3>2
  <2>7. WaveRuns'
    BY <2>4, <2>6
  <2> QED BY <1>4, <2>1, <2>7 DEF DetectWave, DeviceInv
<1>5. CASE FindQueueFamily
  <2>1. GpuPicked /\ WaveRuns /\ UNCHANGED <<listed, gpu, wave>>
    BY <1>5 DEF FindQueueFamily, DeviceInv
  <2>2. setupAt' = IF family' = 0 THEN "failed" ELSE "family"
    BY <1>5 DEF FindQueueFamily
  <2>3. setupAt' = "family" => FamilyBest'
    BY <1>5, <2>1, <2>2, FourPasses
  <2> QED BY <2>1, <2>2, <2>3 DEF DeviceInv
<1>6. CASE CreateDevice
  <2>1. GpuPicked /\ WaveRuns /\ FamilyBest /\ UNCHANGED <<listed, gpu, wave, family>>
    BY <1>6 DEF CreateDevice, DeviceInv
  <2>2. Gpu.families[family].count \in Nat \ {0}
    BY <2>1, DeviceAssumption
  <2>3. QueueCount \in 1 .. Gpu.families[family].count
    <3> DEFINE S == {4, Gpu.families[family].count}
    <3>1. S \subseteq Nat /\ S # {} /\ 4 \in S /\ Gpu.families[family].count \in S
      BY <2>2
    <3> HIDE DEF S
    <3>2. Min(S) \in S /\ Min(S) <= Gpu.families[family].count
      BY <3>1, MinOf
    <3> QED BY <2>2, <3>2 DEF S, QueueCount
  <2>4. QueuesRequested[family] = QueueCount
    BY DEF QueuesRequested
  <2>5. setupAt' = "ready" => QueuesThere'
    <3> SUFFICES ASSUME setupAt' = "ready" PROVE QueuesThere'
      OBVIOUS
    <3>1. queues' = [q \in 1 .. 4 |-> IF q <= QueueCount THEN <<family, q>> ELSE <<family, 1>>]
      BY <1>6, <2>4 DEF CreateDevice
    <3>2. QueueCount' = QueueCount /\ Gpu' = Gpu /\ family' = family
      BY <2>1 DEF QueueCount
    <3>3. QueueCount \in Nat /\ 1 <= QueueCount /\ QueueCount <= Gpu.families[family].count
      BY <2>2, <2>3
    <3> HIDE DEF Gpu
    <3>4. DOMAIN queues' = 1 .. 4
      BY <3>1
    <3>5. \A q \in 1 .. 4 : queues'[q][1] = family /\ queues'[q][2] <= QueueCount
      BY <3>1, <3>3
    <3> QED BY <3>2, <3>3, <3>4, <3>5
  <2>6. setupAt' \in {"ready", "failed"}
    BY <1>6 DEF CreateDevice
  <2> QED BY <2>1, <2>5, <2>6 DEF DeviceInv
<1> QED BY <1>1, <1>2, <1>3, <1>4, <1>5, <1>6 DEF DeviceNext

(* Whatever the loader lists, a device that is ready can be used as the    *)
(* rest of the program uses it: its four queues exist, its family is the   *)
(* best there is, its waves have a width the GPU can run.                  *)
THEOREM SetupDeviceUsable == DeviceSpec => []DeviceUsable
<1>1. DeviceInit => DeviceInv
  BY DEF DeviceInit, DeviceInv
<1>0. QueuesRequested[family] = QueueCount
  BY DEF QueuesRequested
<1>2. DeviceInv => DeviceUsable
  BY <1>0 DEF DeviceInv, DeviceUsable, GpuPicked, WaveRuns, FamilyBest, QueuesThere
<1> QED BY <1>1, <1>2, DeviceStepInv, PTL DEF DeviceSpec

-----------------------------------------------------------------------------
(* ShaderLibrary: what the cache files and the pipelines hold.             *)

(* Every file lies under the name of its shader and its specialisation.    *)
CacheTrue(c) ==
  \A k \in DOMAIN c : \E f \in Shaders, s \in Specs :
    k = BuildCacheKey(f, s) /\ c[k].from = f /\ c[k].spec = s

(* No file is written again.                                               *)
Grows(c, d) == DOMAIN c \subseteq DOMAIN d /\ \A k \in DOMAIN c : d[k] = c[k]

(* A pipeline runs the installed code or that of its cache file.           *)
CodeOf(key, code, c) ==
  LET k == BuildCacheKey(FileOf[key.type], key.spec)
  IN  code = Installed(FileOf[key.type]) \/ (k \in DOMAIN c /\ code = c[k])

FromCache(ps, c) == \A key \in DOMAIN ps : key \in Keys /\ CodeOf(key, ps[key], c)

LibraryInv == /\ DOMAIN pipelines = layouts
              /\ CacheTrue(cache)
              /\ FromCache(pipelines, cache)

LEMMA CodeStays ==
  ASSUME NEW c, NEW d, NEW ps, FromCache(ps, c), Grows(c, d)
  PROVE  FromCache(ps, d)
  BY DEF FromCache, CodeOf, Grows

(* A new file keeps the cache as it should be.                             *)
LEMMA FileAdded ==
  ASSUME NEW c, CacheTrue(c), NEW f \in Shaders, NEW s \in Specs,
         BuildCacheKey(f, s) \notin DOMAIN c, NEW v, v.from = f, v.spec = s
  PROVE  /\ CacheTrue(With(c, BuildCacheKey(f, s), v))
         /\ Grows(c, With(c, BuildCacheKey(f, s), v))
<1> DEFINE k == BuildCacheKey(f, s)
           d == With(c, k, v)
<1>1. DOMAIN d = DOMAIN c \cup {k} /\ d[k] = v /\ \A j \in DOMAIN c : j # k => d[j] = c[j]
  BY DEF With
<1>2. Grows(c, d)
  BY <1>1 DEF Grows
<1> HIDE DEF d
<1>3. CacheTrue(d)
  BY <1>1 DEF CacheTrue
<1> QED BY <1>2, <1>3 DEF d

LEMMA CompileGrows ==
  ASSUME CacheTrue(cache), NEW f \in Shaders, NEW s \in Specs, NEW result \in Compile(f, s)
  PROVE  /\ CacheTrue(result.cache)
         /\ Grows(cache, result.cache)
         /\ result.ok => /\ BuildCacheKey(f, s) \in DOMAIN result.cache
                         /\ result.code = {result.cache[BuildCacheKey(f, s)]}
<1> DEFINE k     == BuildCacheKey(f, s)
           v     == Compiled(f, s)
           after == With(cache, k, v)
<1>1. Grows(cache, cache)
  BY DEF Grows
<1>2. CASE result = NotCompiled(cache)
  BY <1>1, <1>2 DEF NotCompiled
<1>3. CASE k \in DOMAIN cache /\ result = [ok |-> TRUE, code |-> {cache[k]}, cache |-> cache]
  BY <1>1, <1>3
<1>4. v.from = f /\ v.spec = s
  BY DEF Compiled
<1>5. CASE /\ k \notin DOMAIN cache
           /\ \/ result = NotCompiled(after)
              \/ result = [ok |-> TRUE, code |-> {v}, cache |-> after]
  <2>1. CacheTrue(after) /\ Grows(cache, after)
    BY <1>4, <1>5, FileAdded
  <2>2. k \in DOMAIN after /\ after[k] = v
    BY DEF With
  <2> HIDE DEF after, k, v
  <2>3. CASE result = NotCompiled(after)
    BY <2>1, <2>3 DEF NotCompiled
  <2>4. CASE result = [ok |-> TRUE, code |-> {v}, cache |-> after]
    BY <2>1, <2>2, <2>4 DEF k
  <2> QED BY <1>5, <2>3, <2>4
<1>6. \/ result = NotCompiled(cache)
      \/ k \in DOMAIN cache /\ result = [ok |-> TRUE, code |-> {cache[k]}, cache |-> cache]
      \/ /\ k \notin DOMAIN cache
         /\ \/ result = NotCompiled(after)
            \/ result = [ok |-> TRUE, code |-> {v}, cache |-> after]
  <2>1. CASE ~available
    BY <2>1 DEF Compile
  <2>2. CASE available /\ k \in DOMAIN cache
    <3>1. ReadSpvFile(k) = {cache[k]} /\ ReadSpvFile(k) # {}
      BY <2>2 DEF ReadSpvFile
    <3> QED BY <2>2, <3>1 DEF Compile
  <2>3. CASE available /\ k \notin DOMAIN cache
    <3>1. ReadSpvFile(k) = {}
      BY <2>3 DEF ReadSpvFile
    <3> QED BY <2>3, <3>1 DEF Compile
  <2> QED BY <2>1, <2>2, <2>3
<1> QED BY <1>2, <1>3, <1>5, <1>6

LEMMA LibraryStepInv == LibraryInv /\ [ShaderNext]_shaderVars => LibraryInv'
<1> SUFFICES ASSUME LibraryInv, [ShaderNext]_shaderVars PROVE LibraryInv'
  OBVIOUS
<1>1. CASE UNCHANGED shaderVars
  BY <1>1 DEF shaderVars, LibraryInv, CacheTrue, FromCache, CodeOf
<1>0. ASSUME CacheTrue(cache'), Grows(cache, cache'), UNCHANGED <<pipelines, layouts>>
      PROVE  LibraryInv'
  BY <1>0, CodeStays DEF LibraryInv
<1>2. ASSUME NEW key \in Keys, GetPipeline(key) PROVE LibraryInv'
  <2> DEFINE f == FileOf[key.type]
             s == key.spec
  <2>1. f \in Shaders /\ s \in Specs
    BY DEF Keys, Shaders
  <2>2. CASE key \in DOMAIN pipelines
    BY <1>2, <2>2, <1>0 DEF GetPipeline, CompileKernel, LibraryInv, Grows
  <2>3. CASE key \notin DOMAIN pipelines
    <3>1. PICK result \in Compile(f, s) :
            /\ cache' = result.cache
            /\ \E codes \in CodesFor(f, result) :
                 IF codes = {} THEN UNCHANGED <<pipelines, layouts, modules>>
                 ELSE MakePipeline(f,
                        /\ \E code \in codes : pipelines' = With(pipelines, key, code)
                        /\ layouts' = layouts \cup {key},
                        UNCHANGED <<pipelines, layouts>>)
      BY <1>2, <2>3 DEF GetPipeline, CompileKernel
    <3>2. /\ CacheTrue(cache') /\ Grows(cache, cache')
          /\ result.ok => /\ BuildCacheKey(f, s) \in DOMAIN cache'
                          /\ result.code = {cache'[BuildCacheKey(f, s)]}
      BY <2>1, <3>1, CompileGrows DEF LibraryInv
    <3>3. CASE UNCHANGED <<pipelines, layouts>>
      BY <1>0, <3>2, <3>3
    <3>4. ASSUME NEW codes \in CodesFor(f, result), NEW code \in codes,
                 pipelines' = With(pipelines, key, code), layouts' = layouts \cup {key}
          PROVE  LibraryInv'
      <4>1. CodeOf(key, code, cache')
        BY <3>2, <3>4 DEF CodesFor, CodeOf
      <4>2. /\ DOMAIN pipelines' = DOMAIN pipelines \cup {key} /\ pipelines'[key] = code
            /\ \A j \in DOMAIN pipelines : j # key => pipelines'[j] = pipelines[j]
        BY <3>4 DEF With
      <4>3. FromCache(pipelines, cache')
        BY <3>2, CodeStays DEF LibraryInv
      <4>4. FromCache(pipelines', cache')
        BY <4>1, <4>2, <4>3 DEF FromCache
      <4> QED BY <3>2, <3>4, <4>2, <4>4 DEF LibraryInv
    <3> QED BY <3>1, <3>3, <3>4 DEF MakePipeline
  <2> QED BY <2>2, <2>3
<1>3. ASSUME NEW f \in Shaders, NEW s \in Specs, CompileNamedShader(f, s) PROVE LibraryInv'
  <2>1. PICK result \in Compile(f, s) : cache' = result.cache
    BY <1>3 DEF CompileNamedShader
  <2>2. CacheTrue(cache') /\ Grows(cache, cache')
    BY <2>1, CompileGrows DEF LibraryInv
  <2> QED BY <1>0, <1>3, <2>2 DEF CompileNamedShader
<1>4. ASSUME NEW s \in Specs, PrecompileAll(s) PROVE LibraryInv'
  <2>1. PICK done \in SUBSET Shaders :
          LET missing == {f \in done : BuildCacheKey(f, s) \notin DOMAIN cache}
              names   == {BuildCacheKey(f, s) : f \in missing}
          IN cache' = [k \in DOMAIN cache \cup names |->
                         IF k \in names THEN Compiled(k[1], s) ELSE cache[k]]
    BY <1>4 DEF PrecompileAll
  <2> DEFINE missing == {f \in done : BuildCacheKey(f, s) \notin DOMAIN cache}
             names   == {BuildCacheKey(f, s) : f \in missing}
  <2>2. /\ DOMAIN cache' = DOMAIN cache \cup names
        /\ \A k \in names : cache'[k] = Compiled(k[1], s)
        /\ \A k \in DOMAIN cache : k \notin names => cache'[k] = cache[k]
    BY <2>1
  <2>3. \A k \in names : k \notin DOMAIN cache /\ \E f \in Shaders : k = BuildCacheKey(f, s)
    OBVIOUS
  <2> HIDE DEF names
  <2>4. Grows(cache, cache')
    BY <2>2, <2>3 DEF Grows
  <2>5. CacheTrue(cache')
    <3>1. ASSUME NEW k \in names
          PROVE  \E f \in Shaders, t \in Specs :
                   k = BuildCacheKey(f, t) /\ cache'[k].from = f /\ cache'[k].spec = t
      <4>1. PICK f \in Shaders : k = BuildCacheKey(f, s)
        BY <2>3
      <4>2. k[1] = f
        BY <4>1 DEF BuildCacheKey
      <4>3. cache'[k].from = f /\ cache'[k].spec = s
        BY <2>2, <4>2 DEF Compiled
      <4> QED BY <4>1, <4>3
    <3>2. ASSUME NEW k \in DOMAIN cache
          PROVE  \E f \in Shaders, t \in Specs :
                   k = BuildCacheKey(f, t) /\ cache'[k].from = f /\ cache'[k].spec = t
      <4>1. cache'[k] = cache[k]
        BY <2>4 DEF Grows
      <4> QED BY <4>1 DEF LibraryInv, CacheTrue
    <3> QED BY <2>2, <3>1, <3>2 DEF CacheTrue
  <2> QED BY <1>0, <1>4, <2>4, <2>5 DEF PrecompileAll
<1>5. ASSUME NEW f \in Shaders, EditSource(f) PROVE LibraryInv'
  BY <1>0, <1>5 DEF EditSource, LibraryInv, Grows
<1>6. ASSUME CacheTrue(cache'), NewLibrary PROVE LibraryInv'
  BY <1>6 DEF NewLibrary, Empty, LibraryInv, FromCache
<1>7. CASE EndProgram
  BY <1>6, <1>7 DEF EndProgram, LibraryInv
<1>8. ASSUME NEW f \in Shaders, NEW s \in Specs, KilledWhileCompiling(f, s) PROVE LibraryInv'
  <2>1. BuildCacheKey(f, s) \notin DOMAIN cache
    BY <1>8 DEF KilledWhileCompiling, ReadSpvFile
  <2>2. Torn(f, s).from = f /\ Torn(f, s).spec = s
    BY DEF Torn
  <2>3. CacheTrue(cache')
    BY <1>8, <2>1, <2>2, FileAdded DEF KilledWhileCompiling, LibraryInv
  <2> QED BY <1>6, <1>8, <2>3 DEF KilledWhileCompiling
<1> QED BY <1>1, <1>2, <1>3, <1>4, <1>5, <1>7, <1>8 DEF ShaderNext

(* A cache file names its specialisation, so two pipelines of one shader   *)
(* and one specialisation have the code of one file.                       *)
LEMMA LibraryAgrees == LibraryInv => PipelinesAgree
<1> SUFFICES ASSUME LibraryInv PROVE PipelinesAgree
  OBVIOUS
<1>1. ASSUME NEW key \in DOMAIN pipelines
      PROVE  \/ pipelines[key] = Installed(FileOf[key.type])
             \/ /\ pipelines[key] = cache[BuildCacheKey(FileOf[key.type], key.spec)]
                /\ pipelines[key].from = FileOf[key.type]
                /\ pipelines[key].spec = key.spec /\ key.spec \in Specs
  <2>1. key \in Keys /\ CodeOf(key, pipelines[key], cache)
    BY DEF LibraryInv, FromCache
  <2> DEFINE k == BuildCacheKey(FileOf[key.type], key.spec)
  <2>2. CASE k \in DOMAIN cache /\ pipelines[key] = cache[k]
    <3>1. PICK f \in Shaders, s \in Specs :
            k = BuildCacheKey(f, s) /\ cache[k].from = f /\ cache[k].spec = s
      BY <2>2 DEF LibraryInv, CacheTrue
    <3>2. f = FileOf[key.type] /\ s = key.spec
      BY <3>1 DEF BuildCacheKey
    <3> QED BY <2>2, <3>1, <3>2
  <2> QED BY <2>1, <2>2 DEF CodeOf
<1>2. VariantOfKey
  BY <1>1 DEF VariantOfKey
<1>3. OneVersion
  <2> SUFFICES ASSUME NEW j \in DOMAIN pipelines, NEW k \in DOMAIN pipelines,
                      FileOf[j.type] = FileOf[k.type], pipelines[j].spec = pipelines[k].spec
               PROVE  pipelines[j] = pipelines[k]
    BY DEF OneVersion
  <2>2. "built in" \notin Specs
    BY ShaderAssumption
  <2>3. ASSUME NEW key \in DOMAIN pipelines
        PROVE  pipelines[key] = Installed(FileOf[key.type]) <=> pipelines[key].spec = "built in"
    <3>1. Installed(FileOf[key.type]).spec = "built in"
      BY DEF Installed
    <3>2. pipelines[key] = Installed(FileOf[key.type]) \/ pipelines[key].spec \in Specs
      BY <1>1
    <3> QED BY <2>2, <3>1, <3>2
  <2>4. CASE pipelines[j] = Installed(FileOf[j.type])
    BY <2>3, <2>4
  <2>5. CASE pipelines[j] # Installed(FileOf[j.type])
    <3>1. pipelines[k] # Installed(FileOf[k.type])
      BY <2>3, <2>5
    <3>2. /\ pipelines[j] = cache[BuildCacheKey(FileOf[j.type], j.spec)] /\ pipelines[j].spec = j.spec
          /\ pipelines[k] = cache[BuildCacheKey(FileOf[k.type], k.spec)] /\ pipelines[k].spec = k.spec
      BY <1>1, <2>5, <3>1
    <3> QED BY <3>2
  <2> QED BY <2>4, <2>5
<1> QED BY <1>2, <1>3 DEF PipelinesAgree, LibraryInv

(* Through edits, failures, kills and restarts every pipeline runs its own *)
(* shader and specialisation, and one version of it.                       *)
THEOREM LibraryPipelinesAgree == ShaderSpec => []PipelinesAgree
<1>1. ShaderInit => LibraryInv
  BY DEF ShaderInit, LibraryInv, CacheTrue, FromCache, Empty
<1> QED BY <1>1, LibraryStepInv, LibraryAgrees, PTL DEF ShaderSpec

-----------------------------------------------------------------------------
(* FenceScheduler, for every number of queues and fences.  The first half  *)
(* is about the tables of fences and the two loops of syncAll: the one     *)
(* over the queues (FlattenSeq) and the one that releases the fences       *)
(* (FoldLeft), by the smallest number of rounds after which what is        *)
(* claimed of them would fail.                                             *)

(* Tables of fences, per queue.                                            *)
InTable(tb) == UNION {ToSet(tb[q]) : q \in Queues}

(* No fence of S lies twice in a table.                                    *)
Distinct(tb, S) ==
  \A q, r \in Queues : \A i \in DOMAIN tb[q], j \in DOMAIN tb[r] :
    tb[q][i] \in S /\ tb[q][i] = tb[r][j] => q = r /\ i = j

(* Only the entry of queue q differs: it is s now.                         *)
ChangedAt(tb, t, q, s) == t[q] = s /\ \A r \in Queues \ {q} : t[r] = tb[r]

(* A fence added to, or taken from, the entry of queue q.                  *)
Put(tb, q, f) == [tb EXCEPT ![q] = Append(@, f)]
Rest(tb, q)   == [tb EXCEPT ![q] = Tail(@)]

LEMMA InTableIs ==
  ASSUME NEW tb, NEW f
  PROVE  f \in InTable(tb) <=> \E q \in Queues : \E i \in DOMAIN tb[q] : f = tb[q][i]
  BY DEF InTable, ToSet

LEMMA AppendIs ==
  ASSUME NEW V, NEW s \in Seq(V), NEW e \in V
  PROVE  /\ Append(s, e) \in Seq(V) /\ DOMAIN Append(s, e) = DOMAIN s \cup {Len(s) + 1}
         /\ Len(s) + 1 \notin DOMAIN s /\ Append(s, e)[Len(s) + 1] = e
         /\ \A i \in DOMAIN s : Append(s, e)[i] = s[i]
  OBVIOUS

LEMMA AppendKeeps ==
  ASSUME NEW V, NEW S, NEW tb \in [Queues -> Seq(V)], NEW q \in Queues, NEW f \in V,
         Distinct(tb, S), f \in S => f \notin InTable(tb),
         NEW t, ChangedAt(tb, t, q, Append(tb[q], f))
  PROVE  Distinct(t, S) /\ InTable(t) = InTable(tb) \cup {f}
<1> DEFINE n == Len(tb[q]) + 1
<1>2. /\ \A r \in Queues \ {q} : t[r] = tb[r]
      /\ DOMAIN t[q] = DOMAIN tb[q] \cup {n} /\ n \notin DOMAIN tb[q] /\ t[q][n] = f
      /\ \A i \in DOMAIN tb[q] : t[q][i] = tb[q][i]
  <2>1. t[q] = Append(tb[q], f) /\ tb[q] \in Seq(V) /\ \A r \in Queues \ {q} : t[r] = tb[r]
    BY DEF ChangedAt
  <2> QED BY <2>1, AppendIs
<1> HIDE DEF n
<1>3. ASSUME NEW r \in Queues, NEW i \in DOMAIN t[r]
      PROVE  (r = q /\ i = n /\ t[r][i] = f) \/ (i \in DOMAIN tb[r] /\ t[r][i] = tb[r][i])
  BY <1>2
<1>4. ASSUME NEW r \in Queues, NEW i \in DOMAIN tb[r]
      PROVE  i \in DOMAIN t[r] /\ t[r][i] = tb[r][i] /\ tb[r][i] \in InTable(tb)
  BY <1>2, InTableIs
<1>5. Distinct(t, S)
  <2> SUFFICES ASSUME NEW r \in Queues, NEW s \in Queues,
                      NEW i \in DOMAIN t[r], NEW j \in DOMAIN t[s],
                      t[r][i] \in S, t[r][i] = t[s][j]
               PROVE  r = s /\ i = j
    BY DEF Distinct
  <2>1. CASE i \in DOMAIN tb[r] /\ t[r][i] = tb[r][i] /\ j \in DOMAIN tb[s] /\ t[s][j] = tb[s][j]
    <3>1. tb[r][i] \in S /\ tb[r][i] = tb[s][j]
      BY <2>1
    <3> QED BY <2>1, <3>1 DEF Distinct
  <2> QED BY <1>3, <1>4, <2>1
<1>6. InTable(t) = InTable(tb) \cup {f}
  <2>1. ASSUME NEW g \in InTable(t) PROVE g \in InTable(tb) \cup {f}
    <3>1. PICK r \in Queues : \E i \in DOMAIN t[r] : g = t[r][i]
      BY <2>1, InTableIs
    <3>2. PICK i \in DOMAIN t[r] : g = t[r][i]
      BY <3>1
    <3> QED BY <1>3, <1>4, <3>2
  <2>2. ASSUME NEW g \in InTable(tb) PROVE g \in InTable(t)
    BY <1>4, InTableIs
  <2>3. f \in InTable(t)
    BY <1>2, InTableIs
  <2> QED BY <2>1, <2>2, <2>3
<1> QED BY <1>5, <1>6

LEMMA TableAppend ==
  ASSUME NEW V, NEW S, NEW tb \in [Queues -> Seq(V)], NEW q \in Queues, NEW f \in V,
         Distinct(tb, S), f \in S => f \notin InTable(tb)
  PROVE  /\ Put(tb, q, f) \in [Queues -> Seq(V)]
         /\ Distinct(Put(tb, q, f), S)
         /\ InTable(Put(tb, q, f)) = InTable(tb) \cup {f}
<1> DEFINE t == Put(tb, q, f)
<1>1. Append(tb[q], f) \in Seq(V)
  <2>1. tb[q] \in Seq(V)
    OBVIOUS
  <2> QED BY <2>1, AppendIs
<1>2. t \in [Queues -> Seq(V)] /\ ChangedAt(tb, t, q, Append(tb[q], f))
  BY <1>1 DEF Put, ChangedAt
<1> HIDE DEF t
<1>3. Distinct(t, S) /\ InTable(t) = InTable(tb) \cup {f}
  BY <1>2, AppendKeeps, SMTT(60)
<1> QED BY <1>2, <1>3 DEF t

LEMMA TailIs ==
  ASSUME NEW V, NEW s \in Seq(V), s # << >>
  PROVE  /\ Tail(s) \in Seq(V) /\ 1 \in DOMAIN s /\ Head(s) = s[1]
         /\ \A i \in DOMAIN Tail(s) : i + 1 \in DOMAIN s /\ Tail(s)[i] = s[i + 1] /\ i + 1 # 1
         /\ \A i \in DOMAIN Tail(s) : i \in Nat
  OBVIOUS

LEMMA TailKeeps ==
  ASSUME NEW V, NEW S, NEW tb \in [Queues -> Seq(V)], NEW q \in Queues, tb[q] # << >>,
         Distinct(tb, S), NEW t, ChangedAt(tb, t, q, Tail(tb[q]))
  PROVE  /\ Distinct(t, S) /\ InTable(t) \subseteq InTable(tb)
         /\ Head(tb[q]) \in S => Head(tb[q]) \notin InTable(t)
<1> DEFINE at(r, i) == IF r = q THEN i + 1 ELSE i
<1>2. t[q] = Tail(tb[q]) /\ tb[q] \in Seq(V) /\ \A r \in Queues \ {q} : t[r] = tb[r]
  BY DEF ChangedAt
<1>3. ASSUME NEW r \in Queues, NEW i \in DOMAIN t[r]
      PROVE  /\ at(r, i) \in DOMAIN tb[r] /\ t[r][i] = tb[r][at(r, i)]
             /\ r = q => at(r, i) # 1 /\ i \in Nat
  <2>1. CASE r = q
    BY <1>2, <2>1, TailIs
  <2>2. CASE r # q
    BY <1>2, <2>2
  <2> QED BY <2>1, <2>2
<1>4. Distinct(t, S)
  <2> SUFFICES ASSUME NEW r \in Queues, NEW s \in Queues,
                      NEW i \in DOMAIN t[r], NEW j \in DOMAIN t[s],
                      t[r][i] \in S, t[r][i] = t[s][j]
               PROVE  r = s /\ i = j
    BY DEF Distinct
  <2>1. r = s /\ at(r, i) = at(s, j)
    <3> HIDE DEF at
    <3> QED BY <1>3 DEF Distinct
  <2> QED BY <1>3, <2>1
<1>5. ASSUME NEW g \in InTable(t) PROVE g \in InTable(tb)
  <2> HIDE DEF at
  <2> QED BY <1>3, InTableIs
<1>6. ASSUME Head(tb[q]) \in S, Head(tb[q]) \in InTable(t) PROVE FALSE
  <2>1. PICK r \in Queues : \E i \in DOMAIN t[r] : Head(tb[q]) = t[r][i]
    BY <1>6, InTableIs
  <2>2. PICK i \in DOMAIN t[r] : Head(tb[q]) = t[r][i]
    BY <2>1
  <2>3. Head(tb[q]) = tb[q][1] /\ 1 \in DOMAIN tb[q]
    BY <1>2, TailIs
  <2>4. at(r, i) \in DOMAIN tb[r] /\ tb[q][1] = tb[r][at(r, i)] /\ (r = q => at(r, i) # 1)
    BY <1>3, <2>2, <2>3
  <2> HIDE DEF at
  <2>5. r = q /\ at(r, i) = 1
    BY <1>6, <2>3, <2>4 DEF Distinct
  <2> QED BY <2>4, <2>5
<1> QED BY <1>4, <1>5, <1>6

LEMMA TableTail ==
  ASSUME NEW V, NEW S, NEW tb \in [Queues -> Seq(V)], NEW q \in Queues, tb[q] # << >>,
         Distinct(tb, S)
  PROVE  /\ Rest(tb, q) \in [Queues -> Seq(V)]
         /\ Distinct(Rest(tb, q), S)
         /\ InTable(Rest(tb, q)) \subseteq InTable(tb)
         /\ Head(tb[q]) \in S => Head(tb[q]) \notin InTable(Rest(tb, q))
<1> DEFINE t == Rest(tb, q)
<1>1. Tail(tb[q]) \in Seq(V)
  <2>1. tb[q] \in Seq(V)
    OBVIOUS
  <2> QED BY <2>1, TailIs
<1>2. t \in [Queues -> Seq(V)] /\ ChangedAt(tb, t, q, Tail(tb[q]))
  BY <1>1 DEF Rest, ChangedAt
<1> HIDE DEF t
<1>3. /\ Distinct(t, S) /\ InTable(t) \subseteq InTable(tb)
      /\ Head(tb[q]) \in S => Head(tb[q]) \notin InTable(t)
  BY <1>2, TailKeeps
<1> QED BY <1>2, <1>3 DEF t

-----------------------------------------------------------------------------
(* The pool.                                                               *)
LEMMA FrontIs ==
  ASSUME NEW V, NEW p \in Seq(V), IsInjective(p), p # << >>
  PROVE  /\ Front(p) \in Seq(V) /\ IsInjective(Front(p)) /\ Last(p) \in V
         /\ Last(p) \in ToSet(p)
         /\ ToSet(Front(p)) \subseteq ToSet(p)
         /\ Last(p) \notin ToSet(Front(p))
<1>1. Len(p) \in Nat \ {0} /\ DOMAIN p = 1 .. Len(p)
  OBVIOUS
<1>2. /\ Front(p) \in Seq(V) /\ DOMAIN Front(p) = 1 .. Len(p) - 1
      /\ \A i \in 1 .. Len(p) - 1 : Front(p)[i] = p[i]
  BY <1>1 DEF Front
<1>3. Last(p) = p[Len(p)] /\ Last(p) \in V
  BY <1>1 DEF Last
<1> QED BY <1>1, <1>2, <1>3 DEF IsInjective, ToSet

LEMMA PoolAppend ==
  ASSUME NEW V, NEW p \in Seq(V), IsInjective(p), NEW f \in V, f \notin ToSet(p)
  PROVE  /\ Append(p, f) \in Seq(V) /\ IsInjective(Append(p, f))
         /\ ToSet(Append(p, f)) = ToSet(p) \cup {f}
<1> DEFINE a == Append(p, f)
<1>1. /\ a \in Seq(V) /\ DOMAIN a = DOMAIN p \cup {Len(p) + 1}
      /\ Len(p) + 1 \notin DOMAIN p /\ a[Len(p) + 1] = f
      /\ \A i \in DOMAIN p : a[i] = p[i]
  BY AppendIs
<1> HIDE DEF a
<1> QED BY <1>1 DEF IsInjective, ToSet, a

-----------------------------------------------------------------------------
(* FlattenSeq, by the smallest number of queues for which it would fail.   *)
Flat(tr, m, g) == g = [i \in 1 .. m |-> IF i = 1 THEN tr[i] ELSE g[i - 1] \o tr[i]]

(* What lies in the tables of the first k queues.                          *)
InFirst(tr, k) == UNION {ToSet(tr[q]) : q \in 1 .. k}

(* s holds what lies there, and nothing of S twice.                        *)
Flattened(tr, k, S, s) ==
  /\ ToSet(s) = InFirst(tr, k)
  /\ \A i, j \in DOMAIN s : s[i] \in S /\ s[i] = s[j] => i = j

LEMMA FlatExists ==
  ASSUME NEW tr, NEW n \in Nat \ {0}
  PROVE  \E g : Flat(tr, n, g)
<1> DEFINE W == {m \in Nat \ {0} : ~ \E g : Flat(tr, m, g)}
<1> SUFFICES ASSUME W # {} PROVE FALSE
  OBVIOUS
<1>1. PICK m \in W : \A k \in W : m <= k
  <2>1. W \subseteq Nat
    OBVIOUS
  <2> HIDE DEF W
  <2> QED BY <2>1, SmallestNumber
<1>2. CASE m = 1
  <2> DEFINE h == [i \in 1 .. 1 |-> tr[i]]
  <2>1. h = [i \in 1 .. 1 |-> IF i = 1 THEN tr[i] ELSE h[i - 1] \o tr[i]]
    OBVIOUS
  <2> HIDE DEF h
  <2> QED BY <1>1, <1>2, <2>1 DEF Flat
<1>3. CASE m # 1
  <2>1. m - 1 \in Nat \ {0} /\ m - 1 \notin W
    BY <1>1, <1>3
  <2>2. PICK g : Flat(tr, m - 1, g)
    BY <2>1
  <2> DEFINE h == [i \in 1 .. m |-> IF i = m THEN g[m - 1] \o tr[m] ELSE g[i]]
  <2>3. ASSUME NEW i \in 1 .. m PROVE h[i] = IF i = 1 THEN tr[i] ELSE h[i - 1] \o tr[i]
    <3>1. CASE i = m
      <4>1. m - 1 \in 1 .. m /\ m - 1 # m /\ m \in 1 .. m
        BY <1>1, <1>3
      <4>2. h[m] = g[m - 1] \o tr[m] /\ h[m - 1] = g[m - 1]
        BY <4>1
      <4> HIDE DEF h
      <4> QED BY <1>3, <3>1, <4>2
    <3>2. CASE i # m
      <4>1. i \in 1 .. m - 1 /\ h[i] = g[i] /\ (i # 1 => i - 1 \in 1 .. m - 1 /\ h[i - 1] = g[i - 1])
        BY <1>1, <3>2
      <4>2. g[i] = IF i = 1 THEN tr[i] ELSE g[i - 1] \o tr[i]
        BY <2>2, <4>1 DEF Flat
      <4> HIDE DEF h
      <4> QED BY <4>1, <4>2
    <3> QED BY <3>1, <3>2
  <2>4. h = [i \in 1 .. m |-> h[i]]
    OBVIOUS
  <2>5. Flat(tr, m, h)
    <3> HIDE DEF h
    <3> QED BY <2>3, <2>4 DEF Flat
  <2> QED BY <1>1, <2>5
<1> QED BY <1>2, <1>3

LEMMA ConcatIs ==
  ASSUME NEW V, NEW s \in Seq(V), NEW t \in Seq(V), NEW c, c = s \o t
  PROVE  /\ c \in Seq(V) /\ DOMAIN c \subseteq Nat /\ Len(s) \in Nat
         /\ \A i \in DOMAIN c : \/ i \in DOMAIN s /\ c[i] = s[i]
                                \/ i - Len(s) \in DOMAIN t /\ c[i] = t[i - Len(s)]
         /\ \A i \in DOMAIN s : i \in DOMAIN c /\ c[i] = s[i]
         /\ \A i \in DOMAIN t : i + Len(s) \in DOMAIN c /\ c[i + Len(s)] = t[i]
  OBVIOUS

LEMMA FlattenStep ==
  ASSUME NEW V, NEW S, NEW tr \in [Queues -> Seq(V)], Distinct(tr, S),
         NEW k \in Nat \ {0}, k + 1 \in Queues, NEW s \in Seq(V), Flattened(tr, k, S, s)
  PROVE  s \o tr[k + 1] \in Seq(V) /\ Flattened(tr, k + 1, S, s \o tr[k + 1])
<1> DEFINE t == tr[k + 1]
           c == s \o t
           n == Len(s)
<1>0. t \in Seq(V) /\ 1 .. k \subseteq Queues
  BY SchedulerAssumption DEF Queues
<1>1. /\ c \in Seq(V) /\ DOMAIN c \subseteq Nat /\ n \in Nat
      /\ \A i \in DOMAIN c : \/ i \in DOMAIN s /\ c[i] = s[i]
                             \/ i - n \in DOMAIN t /\ c[i] = t[i - n]
      /\ \A i \in DOMAIN s : i \in DOMAIN c /\ c[i] = s[i]
      /\ \A i \in DOMAIN t : i + n \in DOMAIN c /\ c[i + n] = t[i]
  <2>1. c = s \o t
    OBVIOUS
  <2> HIDE DEF t, c
  <2> QED BY <1>0, <2>1, ConcatIs
<1>2. InFirst(tr, k + 1) = InFirst(tr, k) \cup ToSet(t)
  BY DEF InFirst
<1> HIDE DEF c, n
<1>3. ToSet(c) = ToSet(s) \cup ToSet(t)
  <2> HIDE DEF t
  <2>1. ASSUME NEW f \in ToSet(c) PROVE f \in ToSet(s) \cup ToSet(t)
    BY <1>1 DEF ToSet
  <2>2. ASSUME NEW f \in ToSet(s) PROVE f \in ToSet(c)
    BY <1>1 DEF ToSet
  <2>3. ASSUME NEW f \in ToSet(t) PROVE f \in ToSet(c)
    BY <1>1 DEF ToSet
  <2> QED BY <2>1, <2>2, <2>3
<1>4. ASSUME NEW i \in DOMAIN s, NEW j \in DOMAIN t, s[i] \in S PROVE s[i] # t[j]
  <2>1. s[i] \in InFirst(tr, k)
    BY DEF Flattened, ToSet
  <2>2. PICK q \in 1 .. k : \E x \in DOMAIN tr[q] : s[i] = tr[q][x]
    BY <2>1 DEF InFirst, ToSet
  <2>3. q \in Queues /\ q # k + 1
    BY <1>0
  <2> QED BY <1>4, <2>2, <2>3 DEF Distinct
<1>5. ASSUME NEW i \in DOMAIN t, NEW j \in DOMAIN t, t[i] \in S, t[i] = t[j] PROVE i = j
  BY <1>5 DEF Distinct
<1>6. ASSUME NEW i \in DOMAIN s, NEW j \in DOMAIN s, s[i] \in S, s[i] = s[j] PROVE i = j
  BY <1>6 DEF Flattened
<1> HIDE DEF t
<1>7. ASSUME NEW i \in DOMAIN c, NEW j \in DOMAIN c, c[i] \in S, c[i] = c[j] PROVE i = j
  <2>1. CASE i \in DOMAIN s /\ c[i] = s[i] /\ j \in DOMAIN s /\ c[j] = s[j]
    BY <1>6, <1>7, <2>1
  <2>2. CASE i \in DOMAIN s /\ c[i] = s[i] /\ j - n \in DOMAIN t /\ c[j] = t[j - n]
    BY <1>4, <1>7, <2>2
  <2>3. CASE i - n \in DOMAIN t /\ c[i] = t[i - n] /\ j \in DOMAIN s /\ c[j] = s[j]
    BY <1>4, <1>7, <2>3
  <2>4. CASE i - n \in DOMAIN t /\ c[i] = t[i - n] /\ j - n \in DOMAIN t /\ c[j] = t[j - n]
    <3>1. i - n = j - n
      BY <1>5, <1>7, <2>4
    <3> QED BY <1>1, <3>1
  <2> QED BY <1>1, <2>1, <2>2, <2>3, <2>4
<1>8. Flattened(tr, k + 1, S, c)
  BY <1>2, <1>3, <1>7 DEF Flattened
<1> QED BY <1>1, <1>8 DEF c, t

LEMMA FlattenIs ==
  ASSUME NEW V, NEW S, NEW tr \in [Queues -> Seq(V)], Distinct(tr, S)
  PROVE  /\ FlattenSeq(tr) \in Seq(V) /\ ToSet(FlattenSeq(tr)) = InTable(tr)
         /\ \A i, j \in DOMAIN FlattenSeq(tr) :
              FlattenSeq(tr)[i] \in S /\ FlattenSeq(tr)[i] = FlattenSeq(tr)[j] => i = j
<1> DEFINE n == NumQueues
<1>1. n \in Nat /\ Queues = 1 .. n /\ tr \in Seq(Seq(V)) /\ Len(tr) = n
  BY SchedulerAssumption DEF Queues
<1>2. InTable(tr) = InFirst(tr, n)
  BY <1>1 DEF InTable, InFirst
<1>3. CASE n = 0
  <2>1. FlattenSeq(tr) = tr /\ DOMAIN tr = {} /\ tr = << >>
    BY <1>1, <1>3 DEF FlattenSeq
  <2> QED BY <1>1, <1>3, <2>1 DEF ToSet, InTable
<1>4. CASE n # 0
  <2>1. PICK g : g = CHOOSE x : Flat(tr, n, x)
    OBVIOUS
  <2>2. Flat(tr, n, g)
    BY <1>1, <1>4, <2>1, FlatExists
  <2>3. FlattenSeq(tr) = g[n]
    BY <1>1, <1>4, <2>1 DEF FlattenSeq, Flat
  <2> DEFINE Good(k) == g[k] \in Seq(V) /\ Flattened(tr, k, S, g[k])
             W == {k \in 1 .. n : ~Good(k)}
  <2>4. W = {}
    <3> SUFFICES ASSUME W # {} PROVE FALSE
      OBVIOUS
    <3>1. PICK m \in W : \A k \in W : m <= k
      <4>1. W \subseteq Nat
        BY <1>1
      <4> HIDE DEF W
      <4> QED BY <4>1, SmallestNumber
    <3>2. CASE m = 1
      <4>1. g[1] = tr[1] /\ 1 \in Queues /\ tr[1] \in Seq(V)
        BY <1>1, <1>4, <2>2 DEF Flat
      <4>2. InFirst(tr, 1) = ToSet(tr[1])
        BY DEF InFirst
      <4>3. \A i, j \in DOMAIN tr[1] : tr[1][i] \in S /\ tr[1][i] = tr[1][j] => i = j
        BY <4>1 DEF Distinct
      <4>4. Flattened(tr, 1, S, tr[1])
        BY <4>2, <4>3 DEF Flattened
      <4> QED BY <3>1, <3>2, <4>1, <4>4
    <3>3. CASE m # 1
      <4>1. m - 1 \in Nat \ {0} /\ m - 1 \in 1 .. n /\ m - 1 \notin W /\ m \in Queues
            /\ (m - 1) + 1 = m
        BY <1>1, <3>1, <3>3
      <4>2. Good(m - 1)
        BY <4>1
      <4>3. g[m] = g[m - 1] \o tr[m]
        BY <1>1, <2>2, <3>1, <3>3 DEF Flat
      <4> DEFINE k == m - 1
      <4>4. k \in Nat \ {0} /\ m = k + 1 /\ g[k] \in Seq(V) /\ Flattened(tr, k, S, g[k])
            /\ g[m] = g[k] \o tr[m]
        BY <4>1, <4>2, <4>3
      <4> HIDE DEF k
      <4>5. k + 1 \in Queues
        BY <4>1, <4>4
      <4>6. g[k] \o tr[k + 1] \in Seq(V) /\ Flattened(tr, k + 1, S, g[k] \o tr[k + 1])
        BY <4>4, <4>5, FlattenStep
      <4>7. Good(m)
        BY <4>4, <4>6
      <4> QED BY <3>1, <4>7
    <3> QED BY <3>2, <3>3
  <2>5. Good(n)
    BY <1>1, <1>4, <2>4
  <2> QED BY <1>2, <2>3, <2>5 DEF Flattened
<1> QED BY <1>3, <1>4

-----------------------------------------------------------------------------
(* Releasing a sequence of fences one by one.                              *)
Releases(base, seq, m, g) ==
  g = [s \in SUBSET (1 .. m) |->
         IF s = {} THEN base ELSE Released(g[s \ {Max(s)}], seq[Max(s)])]

LEMMA MaxOf ==
  ASSUME NEW m \in Nat, NEW S, S \subseteq 1 .. m, S # {}
  PROVE  Max(S) \in S /\ \A y \in S : y <= Max(S)
<1>0. S \subseteq 0 .. m
  OBVIOUS
<1>1. \E x \in S : \A y \in S : y <= x
  BY <1>0, LargestNumber
<1>2. \E x \in S : \A y \in S : x >= y
  BY <1>0, <1>1
<1>3. Max(S) \in S /\ \A y \in S : Max(S) >= y
  BY <1>2 DEF Max
<1> QED BY <1>3

LEMMA ReleasesExist ==
  ASSUME NEW base, NEW seq, NEW n \in Nat
  PROVE  \E g : Releases(base, seq, n, g)
<1> DEFINE W == {m \in Nat : ~ \E g : Releases(base, seq, m, g)}
<1> SUFFICES ASSUME W # {} PROVE FALSE
  OBVIOUS
<1>1. PICK m \in W : \A k \in W : m <= k
  <2>1. W \subseteq Nat
    OBVIOUS
  <2> HIDE DEF W
  <2> QED BY <2>1, SmallestNumber
<1>2. CASE m = 0
  <2> DEFINE h == [s \in SUBSET (1 .. 0) |-> base]
  <2>1. \A s \in SUBSET (1 .. 0) : s = {}
    OBVIOUS
  <2>2. h = [s \in SUBSET (1 .. 0) |->
               IF s = {} THEN base ELSE Released(h[s \ {Max(s)}], seq[Max(s)])]
    BY <2>1
  <2> HIDE DEF h
  <2> QED BY <1>1, <1>2, <2>2 DEF Releases
<1>3. CASE m # 0
  <2>1. m - 1 \in Nat /\ m - 1 \notin W
    BY <1>1, <1>3
  <2>2. PICK g : Releases(base, seq, m - 1, g)
    BY <2>1
  <2> DEFINE h == [s \in SUBSET (1 .. m) |->
                     IF m \in s THEN Released(g[s \ {m}], seq[m]) ELSE g[s]]
  <2>3. ASSUME NEW s \in SUBSET (1 .. m)
        PROVE  h[s] = IF s = {} THEN base ELSE Released(h[s \ {Max(s)}], seq[Max(s)])
    <3>1. CASE m \in s
      <4>1. Max(s) = m
        <5>1. Max(s) \in s /\ m <= Max(s)
          BY <1>1, <3>1, MaxOf
        <5>2. Max(s) \in 1 .. m
          BY <5>1
        <5> HIDE DEF h
        <5> QED BY <1>1, <5>1, <5>2
      <4>2. h[s \ {m}] = g[s \ {m}] /\ h[s] = Released(g[s \ {m}], seq[m])
        BY <3>1
      <4> HIDE DEF h
      <4> QED BY <3>1, <4>1, <4>2
    <3>2. CASE m \notin s /\ s # {}
      <4>1. s \in SUBSET (1 .. m - 1)
        BY <1>1, <3>2
      <4>2. g[s] = Released(g[s \ {Max(s)}], seq[Max(s)])
        BY <2>2, <3>2, <4>1 DEF Releases
      <4>3. h[s] = g[s] /\ h[s \ {Max(s)}] = g[s \ {Max(s)}]
        BY <3>2
      <4> HIDE DEF h
      <4> QED BY <3>2, <4>2, <4>3
    <3>3. CASE s = {}
      <4>1. g[{}] = base
        BY <2>2 DEF Releases
      <4> QED BY <3>3, <4>1
    <3> QED BY <3>1, <3>2, <3>3
  <2>4. h = [s \in SUBSET (1 .. m) |-> h[s]]
    OBVIOUS
  <2>5. Releases(base, seq, m, h)
    <3> HIDE DEF h
    <3> QED BY <2>3, <2>4 DEF Releases
  <2> QED BY <1>1, <2>5
<1> QED BY <1>2, <1>3

LEMMA FoldIsReleases ==
  \A base, seq : FoldLeft(Released, base, seq) =
    (CHOOSE g : g = [s \in SUBSET DOMAIN seq |->
       IF s = {} THEN base ELSE Released(g[s \ {Max(s)}], seq[Max(s)])])[DOMAIN seq]
  BY DEF FoldLeft, MapThenFoldSet

(* Fences that are apart stay apart in the pool.                           *)
LEMMA ReleasedApart ==
  ASSUME NEW p \in Seq(Own), IsInjective(p), NEW s \in Seq(Own \cup {NoFence}),
         \A i, j \in DOMAIN s : s[i] \in Own /\ s[i] = s[j] => i = j,
         ToSet(p) \cap ToSet(s) = {}
  PROVE  LET r == FoldLeft(Released, p, s)
         IN  /\ r \in Seq(Own) /\ IsInjective(r)
             /\ ToSet(r) \subseteq ToSet(p) \cup (ToSet(s) \ {NoFence})
<1> DEFINE r == FoldLeft(Released, p, s)
           n == Len(s)
<1>1. n \in Nat /\ DOMAIN s = 1 .. n
  OBVIOUS
<1>2. PICK g : g = CHOOSE x : Releases(p, s, n, x)
  OBVIOUS
<1>3. Releases(p, s, n, g)
  BY <1>1, <1>2, ReleasesExist
<1>4. r = g[1 .. n]
  BY <1>1, <1>2, FoldIsReleases DEF Releases
<1>5. g[{}] = p
  BY <1>3 DEF Releases
<1>6. ASSUME NEW k \in 1 .. n PROVE g[1 .. k] = Released(g[1 .. k - 1], s[k])
  <2>1. 1 .. k \in SUBSET (1 .. n) /\ 1 .. k # {} /\ k \in 1 .. k /\ k \in Nat
    BY <1>1
  <2>2. Max(1 .. k) = k
    <3>1. Max(1 .. k) \in 1 .. k /\ k <= Max(1 .. k)
      BY <2>1, MaxOf
    <3> QED BY <2>1, <3>1
  <2>3. (1 .. k) \ {k} = 1 .. k - 1
    BY <2>1
  <2>4. g[1 .. k] = Released(g[(1 .. k) \ {Max(1 .. k)}], s[Max(1 .. k)])
    BY <1>3, <2>1 DEF Releases
  <2> QED BY <2>2, <2>3, <2>4
<1> DEFINE Good(k) == /\ g[1 .. k] \in Seq(Own) /\ IsInjective(g[1 .. k])
                      /\ ToSet(g[1 .. k]) \subseteq ToSet(p) \cup ({s[i] : i \in 1 .. k} \ {NoFence})
           W == {k \in 0 .. n : ~Good(k)}
<1>7. W = {}
  <2> SUFFICES ASSUME W # {} PROVE FALSE
    OBVIOUS
  <2>1. PICK m \in W : \A k \in W : m <= k
    <3>1. W \subseteq Nat
      BY <1>1
    <3> HIDE DEF W
    <3> QED BY <3>1, SmallestNumber
  <2>2. CASE m = 0
    <3>1. 1 .. 0 = {}
      OBVIOUS
    <3> QED BY <1>5, <2>1, <2>2, <3>1
  <2>3. CASE m # 0
    <3>1. m \in 1 .. n /\ m - 1 \in 0 .. n /\ m - 1 \notin W
      BY <1>1, <2>1, <2>3
    <3> DEFINE a == g[1 .. m - 1]
               b == g[1 .. m]
    <3>2. /\ a \in Seq(Own) /\ IsInjective(a)
          /\ ToSet(a) \subseteq ToSet(p) \cup ({s[i] : i \in 1 .. m - 1} \ {NoFence})
      BY <3>1
    <3>3. b = Released(a, s[m]) /\ s[m] \in Own \cup {NoFence}
      BY <1>1, <1>6, <3>1
    <3>4. {s[i] : i \in 1 .. m - 1} \subseteq {s[i] : i \in 1 .. m}
      BY <1>1, <3>1
    <3> HIDE DEF a, b, W
    <3>5. CASE s[m] = NoFence
      <4>1. b = a
        BY <3>3, <3>5 DEF Released
      <4>2. Good(m)
        BY <3>2, <3>4, <4>1 DEF b
      <4> QED BY <2>1, <4>2 DEF W
    <3>6. CASE s[m] # NoFence
      <4>1. s[m] \in Own /\ b = Append(a, s[m])
        BY <3>3, <3>6 DEF Released
      <4>2. s[m] \notin ToSet(p)
        BY <1>1, <3>1 DEF ToSet
      <4>3. s[m] \notin {s[i] : i \in 1 .. m - 1}
        <5>1. \A i \in 1 .. m - 1 : i \in DOMAIN s /\ i # m
          BY <1>1, <3>1
        <5> QED BY <1>1, <3>1, <4>1, <5>1
      <4>4. /\ b \in Seq(Own) /\ IsInjective(b) /\ ToSet(b) = ToSet(a) \cup {s[m]}
        BY <3>2, <4>1, <4>2, <4>3, PoolAppend
      <4>5. s[m] \in {s[i] : i \in 1 .. m} \ {NoFence}
        BY <1>1, <3>1, <3>6
      <4>6. Good(m)
        BY <3>2, <3>4, <4>4, <4>5 DEF b
      <4> QED BY <2>1, <4>6 DEF W
    <3> QED BY <3>5, <3>6
  <2> QED BY <2>2, <2>3
<1>8. Good(n)
  BY <1>1, <1>7
<1>9. {s[i] : i \in 1 .. n} = ToSet(s)
  BY <1>1 DEF ToSet
<1> HIDE DEF r
<1> QED BY <1>4, <1>8, <1>9 DEF r

-----------------------------------------------------------------------------
(* Every fence of the scheduler that is in the pool p, in the table tr or  *)
(* waited for by dispatchTimed (t) exists and is in one of them, once.     *)
Kept(p, c, tr, t) ==
  /\ c \in 0 .. MaxFences
  /\ p \in Seq(Own) /\ IsInjective(p)
  /\ tr \in [Queues -> Seq(Own \cup {NoFence})] /\ Distinct(tr, Own)
  /\ t \in Own \cup {NoFence}
  /\ ToSet(p) \cap InTable(tr) = {}
  /\ t \notin ToSet(p)
  /\ t \in Own => t \notin InTable(tr)
  /\ \A f \in Own : f \in ToSet(p) \cup InTable(tr) \cup {t} => f <= c

(* The submissions that are not finished have fences that are pending and  *)
(* not in the pool.                                                        *)
Running(wk, st, p, tr, t) ==
  /\ Distinct(wk, Own)
  /\ \A f \in Own \cap InTable(wk) : st[f] = "pending" /\ f \in InTable(tr) \cup {t}
  /\ \A f \in ToSet(p) : st[f] # "pending"

FenceInv ==
  /\ pooled \in BOOLEAN /\ nullWait \in BOOLEAN
  /\ batch \in Queues \cup {NoBatch}
  /\ pc \in {"running", "timed", "sync", "cleanup", "gone"}
  /\ status \in [Fences -> {"unsignaled", "pending", "signaled"}]
  /\ work \in [Queues -> Seq(Fences \cup {NoFence})]
  /\ Kept(pool, created, tracked, timed)
  /\ timed # NoFence => pc = "timed"
  /\ ~pooled => pool = << >> /\ InTable(tracked) = {}
  /\ vkState = "ok" /\ ~nullWait => Running(work, status, pool, tracked, timed)

LEMMA FencesApart ==
  /\ NoFence \notin Own /\ NoFence \notin Queues /\ Own \subseteq Nat
  /\ NoFence \notin UserFences /\ UserFences \cap Own = {}
  /\ Fences = Own \cup UserFences
  BY SchedulerAssumption DEF Own, Queues, Fences

LEMMA OwnIs ==
  ASSUME NEW f \in Own
  PROVE  f \in Nat /\ f >= 1 /\ f <= MaxFences
  BY SchedulerAssumption DEF Own

LEMMA KeptTrack ==
  ASSUME NEW p, NEW c, NEW tr, NEW t, Kept(p, c, tr, t), NEW q \in Queues,
         NEW f \in Own \cup {NoFence},
         f \in Own => f <= c /\ f \notin ToSet(p) /\ f \notin InTable(tr) /\ f # t
  PROVE  Kept(p, c, Put(tr, q, f), t) /\ InTable(Put(tr, q, f)) = InTable(tr) \cup {f}
<1> DEFINE V == Own \cup {NoFence}
           u == Put(tr, q, f)
<1>1. tr \in [Queues -> Seq(V)] /\ f \in V /\ Distinct(tr, Own)
  BY DEF Kept
<1>2. f \in Own => f \notin InTable(tr)
  OBVIOUS
<1> HIDE DEF V
<1>3. u \in [Queues -> Seq(V)] /\ Distinct(u, Own) /\ InTable(u) = InTable(tr) \cup {f}
  BY <1>1, <1>2, TableAppend
<1>4. NoFence \notin ToSet(p)
  BY FencesApart DEF Kept, ToSet
<1> HIDE DEF u
<1>5. Kept(p, c, u, t)
  BY <1>3, <1>4 DEF Kept, V
<1> QED BY <1>3, <1>5 DEF u

LEMMA KeptRelease ==
  ASSUME NEW p, NEW c, NEW tr, NEW t, Kept(p, c, tr, t), NEW f \in Own \cup {NoFence},
         f \in Own => f <= c /\ f \notin ToSet(p) /\ f \notin InTable(tr) /\ f # t
  PROVE  /\ Kept(Released(p, f), c, tr, t)
         /\ ToSet(Released(p, f)) = ToSet(p) \cup ({f} \ {NoFence})
<1>1. CASE f = NoFence
  BY <1>1 DEF Released
<1>2. CASE f # NoFence
  <2>1. f \in Own /\ Released(p, f) = Append(p, f)
    BY <1>2 DEF Released
  <2>2. /\ Released(p, f) \in Seq(Own) /\ IsInjective(Released(p, f))
        /\ ToSet(Released(p, f)) = ToSet(p) \cup {f}
    BY <2>1, PoolAppend DEF Kept
  <2> QED BY <1>2, <2>1, <2>2 DEF Kept
<1> QED BY <1>1, <1>2

LEMMA KeptTimed ==
  ASSUME NEW p, NEW c, NEW tr, Kept(p, c, tr, NoFence), NEW f \in Own \cup {NoFence},
         f \in Own => f <= c /\ f \notin ToSet(p) /\ f \notin InTable(tr)
  PROVE  Kept(p, c, tr, f)
  BY FencesApart DEF Kept

LEMMA KeptReturned ==
  ASSUME NEW p, NEW c, NEW tr, NEW t, Kept(p, c, tr, t)
  PROVE  /\ Kept(p, c, tr, NoFence)
         /\ Kept(Released(p, t), c, tr, NoFence)
         /\ ToSet(Released(p, t)) = ToSet(p) \cup ({t} \ {NoFence})
<1>1. NoFence \notin ToSet(p) /\ NoFence \notin Own
  BY FencesApart DEF Kept, ToSet
<1>2. Kept(p, c, tr, NoFence)
  BY <1>1 DEF Kept
<1>3. /\ t \in Own \cup {NoFence}
      /\ t \in Own => t <= c /\ t \notin ToSet(p) /\ t \notin InTable(tr) /\ t # NoFence
  BY <1>1 DEF Kept
<1> QED BY <1>2, <1>3, KeptRelease

LEMMA KeptSynced ==
  ASSUME NEW p, NEW c, NEW tr, Kept(p, c, tr, NoFence)
  PROVE  LET r == FoldLeft(Released, p, FlattenSeq(tr))
         IN  /\ Kept(r, c, Forgotten, NoFence)
             /\ ToSet(r) \subseteq ToSet(p) \cup (InTable(tr) \ {NoFence})
             /\ InTable(Forgotten) = {}
<1> DEFINE s == FlattenSeq(tr)
           r == FoldLeft(Released, p, s)
<1>1. /\ s \in Seq(Own \cup {NoFence}) /\ ToSet(s) = InTable(tr)
      /\ \A i, j \in DOMAIN s : s[i] \in Own /\ s[i] = s[j] => i = j
  BY FlattenIs DEF Kept
<1>2. p \in Seq(Own) /\ IsInjective(p) /\ ToSet(p) \cap ToSet(s) = {}
  BY <1>1 DEF Kept
<1> HIDE DEF s
<1>3. /\ r \in Seq(Own) /\ IsInjective(r)
      /\ ToSet(r) \subseteq ToSet(p) \cup (ToSet(s) \ {NoFence})
  BY <1>1, <1>2, ReleasedApart
<1>4. /\ Forgotten \in [Queues -> Seq(Own \cup {NoFence})]
      /\ \A q \in Queues : Forgotten[q] = << >>
  BY DEF Forgotten
<1>5. InTable(Forgotten) = {} /\ Distinct(Forgotten, Own)
  BY <1>4 DEF InTable, ToSet, Distinct
<1>6. NoFence \notin ToSet(r)
  BY <1>3, FencesApart DEF ToSet
<1> HIDE DEF r
<1>7. Kept(r, c, Forgotten, NoFence)
  BY <1>1, <1>3, <1>4, <1>5, <1>6, FencesApart DEF Kept
<1> QED BY <1>1, <1>3, <1>5, <1>7 DEF r, s

-----------------------------------------------------------------------------
(* Taking a fence and submitting with it.                                  *)
LEMMA Taken ==
  ASSUME Kept(pool, created, tracked, timed), NEW a \in Made \cup Acquired
  PROVE  /\ a.fence \in Own \cup {NoFence}
         /\ Kept(a.pool, a.created, tracked, timed)
         /\ ToSet(a.pool) \subseteq ToSet(pool)
         /\ pool = << >> => a.pool = pool
         /\ a.fence \in Own =>
              /\ a.fence <= a.created /\ a.fence \notin ToSet(a.pool)
              /\ a.fence \notin InTable(tracked) /\ a.fence # timed
              /\ a.fence \in ToSet(pool) \/ a.fence = created + 1
<1>1. created \in Nat /\ created <= MaxFences /\ pool \in Seq(Own)
  BY SchedulerAssumption DEF Kept
<1>2. CASE a = [fence |-> NoFence, pool |-> pool, created |-> created]
  BY <1>2, FencesApart
<1>3. CASE created < MaxFences /\ a = [fence |-> created + 1, pool |-> pool, created |-> created + 1]
  <2>1. created + 1 \in Own /\ created + 1 \in 0 .. MaxFences
    BY <1>1, <1>3, SchedulerAssumption DEF Own
  <2>2. \A f \in Own : f \in ToSet(pool) \cup InTable(tracked) \cup {timed} =>
          f <= created + 1 /\ f # created + 1
    BY <1>1, OwnIs DEF Kept
  <2>3. Kept(pool, created + 1, tracked, timed)
    BY <2>1, <2>2 DEF Kept
  <2> QED BY <1>1, <1>3, <2>1, <2>2, <2>3
<1>4. CASE pool # << >> /\ a = [fence |-> Last(pool), pool |-> Front(pool), created |-> created]
  <2>1. /\ Front(pool) \in Seq(Own) /\ IsInjective(Front(pool)) /\ Last(pool) \in Own
        /\ Last(pool) \in ToSet(pool) /\ ToSet(Front(pool)) \subseteq ToSet(pool)
        /\ Last(pool) \notin ToSet(Front(pool))
    BY <1>1, <1>4, FrontIs DEF Kept
  <2>2. Kept(Front(pool), created, tracked, timed)
    BY <2>1 DEF Kept
  <2>3. Last(pool) <= created /\ Last(pool) \notin InTable(tracked) /\ Last(pool) # timed
    BY <2>1 DEF Kept
  <2> QED BY <1>4, <2>1, <2>2, <2>3
<1> QED BY <1>2, <1>3, <1>4 DEF Made, Acquired

(* A fence that was just taken is not in use.                              *)
LEMMA TakenIdle ==
  ASSUME FenceInv, vkState = "ok", ~nullWait,
         NEW f \in Own, f \in ToSet(pool) \/ f = created + 1
  PROVE  f \notin InTable(work)
<1> SUFFICES ASSUME f \in InTable(work) PROVE FALSE
  OBVIOUS
<1>1. Running(work, status, pool, tracked, timed) /\ Kept(pool, created, tracked, timed)
  BY DEF FenceInv
<1>2. status[f] = "pending" /\ f \in InTable(tracked) \cup {timed}
  BY <1>1 DEF Running
<1>3. f <= created /\ created \in Nat
  BY <1>1, <1>2 DEF Kept
<1>4. f \notin ToSet(pool)
  BY <1>1, <1>2 DEF Running
<1> QED BY <1>3, <1>4

LEMMA SubmittedIs ==
  ASSUME FenceInv, NEW q \in Queues, NEW f \in Fences \cup {NoFence}, Submitted(q, f)
  PROVE  /\ work' \in [Queues -> Seq(Fences \cup {NoFence})]
         /\ work' = Put(work, q, f)
         /\ status' \in [Fences -> {"unsignaled", "pending", "signaled"}]
         /\ \A g \in Fences \ {f} : status'[g] = status[g]
         /\ f \in Fences => status'[f] = "pending"
<1> DEFINE V == Fences \cup {NoFence}
<1>1. work \in [Queues -> Seq(V)] /\ f \in V /\ Distinct(work, {})
  BY DEF FenceInv, Distinct
<1>2. work' = Put(work, q, f)
  BY DEF Submitted, Put
<1>3. work' \in [Queues -> Seq(V)]
  <2> HIDE DEF V
  <2> QED BY <1>1, <1>2, TableAppend
<1> QED BY <1>2, <1>3, FencesApart DEF Submitted, FenceInv

LEMMA RunningSubmitted ==
  ASSUME FenceInv, NEW q \in Queues, NEW f \in Fences \cup {NoFence}, Submitted(q, f),
         NEW p, NEW tr, NEW t, ToSet(p) \subseteq ToSet(pool),
         f \in Own => f \notin ToSet(p) /\ f \notin InTable(work) /\ f \in InTable(tr) \cup {t},
         InTable(tracked) \cup {timed} \subseteq InTable(tr) \cup {t},
         Running(work, status, pool, tracked, timed)
  PROVE  Running(work', status', p, tr, t)
<1> DEFINE V == Fences \cup {NoFence}
<1>1. work \in [Queues -> Seq(V)] /\ f \in V /\ Distinct(work, Own)
  BY DEF FenceInv, Running
<1>2. work' = Put(work, q, f)
  BY SubmittedIs
<1>3. Distinct(work', Own) /\ InTable(work') = InTable(work) \cup {f}
  <2> HIDE DEF V
  <2> QED BY <1>1, <1>2, TableAppend
<1>4. (\A g \in Fences \ {f} : status'[g] = status[g]) /\ (f \in Fences => status'[f] = "pending")
  BY SubmittedIs
<1>5. ASSUME NEW g \in Own \cap InTable(work')
      PROVE  status'[g] = "pending" /\ g \in InTable(tr) \cup {t}
  BY <1>3, <1>4, FencesApart DEF Running
<1>6. ASSUME NEW g \in ToSet(p) PROVE status'[g] # "pending"
  <2>1. g \in ToSet(pool) /\ g \in Own
    <3>1. ToSet(pool) \subseteq Own
      BY DEF FenceInv, Kept, ToSet
    <3> QED BY <3>1
  <2>2. g # f /\ g \in Fences
    BY <2>1, FencesApart
  <2> QED BY <1>4, <2>1, <2>2 DEF Running
<1> QED BY <1>3, <1>5, <1>6 DEF Running

LEMMA NotSubmittedIs ==
  ASSUME FenceInv, NEW f \in Fences \cup {NoFence}, NotSubmitted(f)
  PROVE  /\ work' = work
         /\ status' \in [Fences -> {"unsignaled", "pending", "signaled"}]
         /\ \A g \in Fences \ {f} : status'[g] = status[g]
         /\ f \in Fences => status'[f] = "unsignaled"
  BY FencesApart DEF NotSubmitted, FenceInv

LEMMA RunningNotSubmitted ==
  ASSUME FenceInv, NEW f \in Fences \cup {NoFence}, NotSubmitted(f),
         NEW p, ToSet(p) \subseteq ToSet(pool) \cup ({f} \ {NoFence}),
         f \in Own => f \notin InTable(work),
         Running(work, status, pool, tracked, timed)
  PROVE  Running(work', status', p, tracked, timed)
<1>1. /\ work' = work /\ \A g \in Fences \ {f} : status'[g] = status[g]
      /\ f \in Fences => status'[f] = "unsignaled"
  BY NotSubmittedIs
<1>2. ToSet(pool) \subseteq Own
  BY DEF FenceInv, Kept, ToSet
<1>3. ASSUME NEW g \in ToSet(p) PROVE status'[g] # "pending"
  BY <1>1, <1>2, FencesApart DEF Running
<1>4. ASSUME NEW g \in Own \cap InTable(work) PROVE status'[g] = "pending"
  BY <1>1, FencesApart DEF Running
<1> QED BY <1>1, <1>3, <1>4 DEF Running

-----------------------------------------------------------------------------
(* The steps.                                                              *)
LEMMA SubmitInv ==
  ASSUME FenceInv, NEW q \in Queues, NEW f \in UserFences \cup {NoFence}, SubmitTracking(q, f),
         UNCHANGED <<pooled, timed, pc, vkState, nullWait>>, batch' \in Queues \cup {NoBatch}
  PROVE  FenceInv'
<1> DEFINE owns == f = NoFence /\ pooled
<1>1. PICK a \in IF owns THEN Acquired ELSE {Lent(f)} : \E done \in Submissions :
       /\ created' = a.created
       /\ IF done
          THEN /\ Submitted(q, a.fence)
               /\ pool' = a.pool
               /\ tracked' = IF owns THEN [tracked EXCEPT ![q] = Append(@, a.fence)]
                             ELSE tracked
          ELSE /\ NotSubmitted(a.fence)
               /\ pool' = IF owns THEN Released(a.pool, a.fence) ELSE a.pool
               /\ UNCHANGED tracked
  BY DEF SubmitTracking
<1> DEFINE g == a.fence
           Ok == vkState = "ok" /\ ~nullWait
<1>2. Kept(pool, created, tracked, timed) /\ (Ok => Running(work, status, pool, tracked, timed))
  BY DEF FenceInv
<1>3. CASE ~owns
  <2>1. g = f /\ a.pool = pool /\ a.created = created
    BY <1>1, <1>3 DEF Lent
  <2>2. f \in Fences \cup {NoFence} /\ f \notin Own
    BY FencesApart
  <2>3. CASE Submitted(q, f) /\ UNCHANGED <<pool, tracked, created>>
    <3>1. Ok => Running(work', status', pool, tracked, timed)
      BY <1>2, <2>2, <2>3, RunningSubmitted
    <3>2. /\ work' \in [Queues -> Seq(Fences \cup {NoFence})]
          /\ status' \in [Fences -> {"unsignaled", "pending", "signaled"}]
      BY <2>2, <2>3, SubmittedIs
    <3> QED BY <2>3, <3>1, <3>2 DEF FenceInv
  <2>4. CASE NotSubmitted(f) /\ UNCHANGED <<pool, tracked, created>>
    <3>1. Ok => Running(work', status', pool, tracked, timed)
      BY <1>2, <2>2, <2>4, RunningNotSubmitted
    <3>2. /\ work' = work
          /\ status' \in [Fences -> {"unsignaled", "pending", "signaled"}]
      BY <2>2, <2>4, NotSubmittedIs
    <3> QED BY <2>4, <3>1, <3>2 DEF FenceInv
  <2> QED BY <1>1, <1>3, <2>1, <2>3, <2>4
<1>4. CASE owns
  <2>1. /\ g \in Own \cup {NoFence}
        /\ Kept(a.pool, a.created, tracked, timed)
        /\ ToSet(a.pool) \subseteq ToSet(pool)
        /\ g \in Own => /\ g <= a.created /\ g \notin ToSet(a.pool)
                        /\ g \notin InTable(tracked) /\ g # timed
                        /\ g \in ToSet(pool) \/ g = created + 1
    BY <1>1, <1>2, <1>4, Taken
  <2>2. Ok => (g \in Own => g \notin InTable(work))
    BY <2>1, TakenIdle
  <2>3. g \in Fences \cup {NoFence} /\ pooled
    BY <1>4, <2>1, FencesApart
  <2> HIDE DEF g
  <2>4. CASE /\ Submitted(q, g) /\ pool' = a.pool /\ created' = a.created
             /\ tracked' = [tracked EXCEPT ![q] = Append(@, g)]
    <3>0. tracked' = Put(tracked, q, g)
      BY <2>4 DEF Put
    <3>1. /\ Kept(pool', created', tracked', timed)
          /\ InTable(tracked') = InTable(tracked) \cup {g}
      <4> DEFINE p == a.pool
                 c == a.created
      <4>1. /\ Kept(p, c, tracked, timed) /\ g \in Own \cup {NoFence}
            /\ g \in Own => g <= c /\ g \notin ToSet(p) /\ g \notin InTable(tracked) /\ g # timed
        BY <2>1
      <4> HIDE DEF p, c
      <4>2. /\ Kept(p, c, Put(tracked, q, g), timed)
            /\ InTable(Put(tracked, q, g)) = InTable(tracked) \cup {g}
        BY <4>1, KeptTrack
      <4> QED BY <2>4, <3>0, <4>2 DEF p, c
    <3>3. Ok => Running(work', status', pool', tracked', timed)
      BY <1>2, <2>1, <2>2, <2>3, <2>4, <3>1, RunningSubmitted
    <3>4. /\ work' \in [Queues -> Seq(Fences \cup {NoFence})]
          /\ status' \in [Fences -> {"unsignaled", "pending", "signaled"}]
      BY <2>3, <2>4, SubmittedIs
    <3> QED BY <2>3, <3>1, <3>3, <3>4 DEF FenceInv
  <2>5. CASE /\ NotSubmitted(g) /\ pool' = Released(a.pool, g) /\ created' = a.created
             /\ tracked' = tracked
    <3>1. /\ Kept(pool', created', tracked, timed)
          /\ ToSet(pool') = ToSet(a.pool) \cup ({g} \ {NoFence})
      BY <2>1, <2>5, KeptRelease
    <3>2. Ok => Running(work', status', pool', tracked, timed)
      BY <1>2, <2>1, <2>2, <2>3, <2>5, <3>1, RunningNotSubmitted
    <3>3. /\ work' = work
          /\ status' \in [Fences -> {"unsignaled", "pending", "signaled"}]
      BY <2>3, <2>5, NotSubmittedIs
    <3> QED BY <2>3, <2>5, <3>1, <3>2, <3>3 DEF FenceInv
  <2> QED BY <1>1, <1>4, <2>4, <2>5 DEF g
<1> QED BY <1>3, <1>4

LEMMA TimedInv ==
  ASSUME FenceInv, NEW q \in Queues, DispatchTimed(q)
  PROVE  FenceInv'
<1> DEFINE Ok == vkState = "ok" /\ ~nullWait
<1>1. PICK a \in IF pooled THEN Acquired ELSE Made : \E done \in Submissions :
       /\ IF done
          THEN /\ Submitted(q, a.fence)
               /\ pool' = a.pool /\ timed' = a.fence /\ pc' = "timed"
          ELSE /\ NotSubmitted(a.fence)
               /\ pool' = IF pooled THEN Released(a.pool, a.fence) ELSE a.pool
               /\ UNCHANGED <<timed, pc>>
       /\ created' = IF done \/ pooled THEN a.created ELSE created
  BY DEF DispatchTimed
<1>2. UNCHANGED <<pooled, tracked, batch, vkState, nullWait>> /\ pc = "running"
  BY DEF DispatchTimed, Room
<1> DEFINE g == a.fence
           p == a.pool
           c == a.created
<1>3. Kept(pool, created, tracked, timed) /\ (Ok => Running(work, status, pool, tracked, timed))
  BY DEF FenceInv
<1>4. timed = NoFence /\ (~pooled => pool = << >> /\ InTable(tracked) = {})
  BY <1>2 DEF FenceInv
<1>5. /\ g \in Own \cup {NoFence}
      /\ Kept(p, c, tracked, NoFence)
      /\ ToSet(p) \subseteq ToSet(pool)
      /\ pool = << >> => p = pool
      /\ g \in Own => /\ g <= c /\ g \notin ToSet(p) /\ g \notin InTable(tracked)
                      /\ g \in ToSet(pool) \/ g = created + 1
  BY <1>1, <1>3, <1>4, Taken
<1>6. Ok => (g \in Own => g \notin InTable(work))
  BY <1>5, TakenIdle
<1>7. g \in Fences \cup {NoFence}
  BY <1>5, FencesApart
<1>8. CASE Submitted(q, g) /\ pool' = p /\ timed' = g /\ pc' = "timed" /\ created' = c
  <2> HIDE DEF g, p, c
  <2>1. Kept(p, c, tracked, g)
    BY <1>5, KeptTimed
  <2>2. InTable(tracked) \cup {timed} \subseteq InTable(tracked) \cup {g} \cup {NoFence}
    BY <1>4
  <2>3. ASSUME Ok PROVE Running(work', status', p, tracked, g)
    <3>1. Running(work, status, pool, tracked, NoFence)
      BY <1>3, <1>4, <2>3
    <3>2. Running(work, status, pool, tracked, g)
      BY <3>1, FencesApart DEF Running
    <3>3. CASE g = NoFence
      BY <1>5, <1>7, <1>8, <1>4, <3>1, <3>3, FencesApart, RunningSubmitted
    <3>4. CASE g # NoFence
      <4>1. g \in Own /\ g \notin InTable(work) /\ g \notin ToSet(p)
        BY <1>5, <1>6, <2>3, <3>4
      <4>2. /\ work' = Put(work, q, g)
            /\ \A f \in Fences \ {g} : status'[f] = status[f]
            /\ g \in Fences => status'[g] = "pending"
        BY <1>7, <1>8, SubmittedIs
      <4>3. Distinct(work', Own) /\ InTable(work') = InTable(work) \cup {g}
        <5> DEFINE V == Fences \cup {NoFence}
        <5>1. work \in [Queues -> Seq(V)] /\ g \in V /\ Distinct(work, Own)
          BY <1>7, <3>1 DEF FenceInv, Running
        <5> HIDE DEF V
        <5> QED BY <4>1, <4>2, <5>1, TableAppend
      <4>4. \A f \in Own \cap InTable(work') :
              status'[f] = "pending" /\ f \in InTable(tracked) \cup {g}
        BY <3>2, <4>1, <4>2, <4>3, FencesApart DEF Running
      <4>5. ASSUME NEW f \in ToSet(p) PROVE status'[f] # "pending"
        <5>1. f \in ToSet(pool) /\ f # g
          BY <1>5, <4>1
        <5>2. f \in Own
          BY <5>1 DEF FenceInv, Kept, ToSet
        <5> QED BY <3>1, <4>2, <5>1, <5>2, FencesApart DEF Running
      <4> QED BY <4>3, <4>4, <4>5 DEF Running
    <3> QED BY <3>3, <3>4
  <2>4. /\ work' \in [Queues -> Seq(Fences \cup {NoFence})]
        /\ status' \in [Fences -> {"unsignaled", "pending", "signaled"}]
    BY <1>7, <1>8, SubmittedIs
  <2>5. ~pooled => p = << >>
    BY <1>4, <1>5
  <2> QED BY <1>2, <1>4, <1>8, <2>1, <2>3, <2>4, <2>5 DEF FenceInv
<1>9. CASE /\ NotSubmitted(g) /\ UNCHANGED <<timed, pc>>
           /\ pool' = IF pooled THEN Released(p, g) ELSE p
           /\ created' = IF pooled THEN c ELSE created
  <2> HIDE DEF g, p, c
  <2>1. /\ Kept(pool', created', tracked, NoFence)
        /\ ToSet(pool') \subseteq ToSet(pool) \cup ({g} \ {NoFence})
    <3>1. CASE pooled
      <4>1. /\ Kept(Released(p, g), c, tracked, NoFence)
            /\ ToSet(Released(p, g)) = ToSet(p) \cup ({g} \ {NoFence})
        <5>1. g \in Own => g <= c /\ g \notin ToSet(p) /\ g \notin InTable(tracked) /\ g # NoFence
          BY <1>5, FencesApart
        <5> QED BY <1>5, <5>1, KeptRelease
      <4> QED BY <1>5, <1>9, <3>1, <4>1
    <3>2. CASE ~pooled
      BY <1>3, <1>4, <1>5, <1>9, <3>2
    <3> QED BY <3>1, <3>2
  <2>2. Ok => Running(work', status', pool', tracked, timed)
    BY <1>3, <1>6, <1>7, <1>9, <2>1, RunningNotSubmitted
  <2>3. /\ work' = work
        /\ status' \in [Fences -> {"unsignaled", "pending", "signaled"}]
    BY <1>7, <1>9, NotSubmittedIs
  <2>4. ~pooled => pool' = << >>
    BY <1>4, <1>5, <1>9
  <2> QED BY <1>2, <1>4, <1>9, <2>1, <2>2, <2>3, <2>4 DEF FenceInv
<1> QED BY <1>1, <1>8, <1>9

LEMMA TimedReturnsInv ==
  ASSUME FenceInv, DispatchTimedReturns
  PROVE  FenceInv'
<1>1. Kept(pool, created, tracked, timed)
  BY DEF FenceInv
<1>2. /\ Kept(pool, created, tracked, NoFence)
      /\ Kept(Released(pool, timed), created, tracked, NoFence)
      /\ ToSet(Released(pool, timed)) = ToSet(pool) \cup ({timed} \ {NoFence})
  BY <1>1, KeptReturned
<1>3. /\ pool' = IF pooled THEN Released(pool, timed) ELSE pool
      /\ created' = IF pooled \/ timed = NoFence THEN created ELSE created - 1
      /\ status' = IF pooled \/ timed = NoFence THEN status
                   ELSE [status EXCEPT ![timed] = "unsignaled"]
      /\ timed' = NoFence /\ pc' = "running"
      /\ nullWait' = (nullWait \/ timed = NoFence)
      /\ UNCHANGED <<pooled, tracked, work, batch, vkState>>
      /\ Over(timed)
  BY DEF DispatchTimedReturns
<1>4. ~pooled => pool = << >> /\ InTable(tracked) = {}
  BY DEF FenceInv
<1>5. Kept(pool', created', tracked, NoFence)
  <2>1. CASE pooled \/ timed = NoFence
    BY <1>2, <1>3, <2>1
  <2>2. CASE ~pooled /\ timed # NoFence
    <3>1. timed \in Own /\ timed <= created /\ created \in 0 .. MaxFences
      BY <1>1, <2>2 DEF Kept
    <3>2. created - 1 \in 0 .. MaxFences
      BY <3>1, OwnIs, SchedulerAssumption
    <3>3. ToSet(pool) = {}
      BY <1>4, <2>2 DEF ToSet
    <3> QED BY <1>2, <1>3, <1>4, <2>2, <3>2, <3>3, FencesApart DEF Kept
  <2> QED BY <2>1, <2>2
<1>6. ASSUME vkState' = "ok", ~nullWait'
      PROVE  Running(work', status', pool', tracked, NoFence)
  <2>1. /\ vkState = "ok" /\ ~nullWait /\ timed # NoFence
        /\ Running(work, status, pool, tracked, timed)
    BY <1>3, <1>6 DEF FenceInv
  <2>2. timed \in Own /\ status[timed] = "signaled"
    BY <1>1, <1>3, <2>1 DEF Kept, Over
  <2>3. timed \notin InTable(work)
    BY <2>1, <2>2 DEF Running
  <2>4. \A f \in Own : f # timed => status'[f] = status[f]
    BY <1>3, FencesApart DEF FenceInv
  <2>5. status'[timed] # "pending"
    BY <1>3, <2>2, FencesApart DEF FenceInv
  <2>6. ToSet(pool') \subseteq ToSet(pool) \cup {timed} /\ ToSet(pool) \subseteq Own
    <3>1. ToSet(pool) \subseteq Own
      BY <1>1 DEF Kept, ToSet
    <3> QED BY <1>2, <1>3, <3>1
  <2>7. ASSUME NEW f \in ToSet(pool') PROVE status'[f] # "pending"
    BY <2>1, <2>4, <2>5, <2>6 DEF Running
  <2>8. \A f \in Own \cap InTable(work) : status'[f] = "pending" /\ f \in InTable(tracked)
    BY <2>1, <2>3, <2>4 DEF Running
  <2> QED BY <1>3, <2>1, <2>7, <2>8 DEF Running
<1>7. status' \in [Fences -> {"unsignaled", "pending", "signaled"}]
  BY <1>3 DEF FenceInv
<1>8. nullWait' \in BOOLEAN
  BY <1>3 DEF FenceInv
<1>9. ~pooled' => pool' = << >>
  BY <1>3, <1>4
<1> QED BY <1>3, <1>4, <1>5, <1>6, <1>7, <1>8, <1>9 DEF FenceInv

(* syncAll has waited for all there is, but for the caller's fences.       *)
LEMMA SyncedWork ==
  ASSUME FenceInv, SyncAllReturns, vkState = "ok", ~nullWait'
  PROVE  Own \cap InTable(work) = {} /\ \A f \in InTable(tracked) : status[f] = "signaled"
<1>1. /\ timed = NoFence /\ Running(work, status, pool, tracked, timed)
      /\ Kept(pool, created, tracked, timed)
  BY DEF FenceInv, SyncAllReturns
<1>2. AllTracked = InTable(tracked)
  BY <1>1, FlattenIs DEF AllTracked, InOrder, Kept
<1>3. NoFence \notin AllTracked
  BY DEF SyncAllReturns
<1>4. CASE pooled
  <2>1. \A f \in InTable(tracked) : status[f] = "signaled"
    BY <1>2, <1>3, <1>4 DEF SyncAllReturns, Waited, Over
  <2> QED BY <1>1, <2>1, FencesApart DEF Running
<1>5. CASE ~pooled
  <2>1. \A q \in Queues : work[q] = << >>
    BY <1>5 DEF SyncAllReturns, WaitedIdle
  <2>2. InTable(work) = {}
    BY <2>1 DEF InTable, ToSet
  <2> QED BY <1>5, <2>2 DEF FenceInv
<1> QED BY <1>4, <1>5

LEMMA SyncInv ==
  ASSUME FenceInv, SyncAllReturns
  PROVE  FenceInv'
<1> DEFINE r == FoldLeft(Released, pool, FlattenSeq(tracked))
<1>1. timed = NoFence /\ Kept(pool, created, tracked, NoFence)
  BY DEF FenceInv, SyncAllReturns
<1>2. /\ Kept(r, created, Forgotten, NoFence)
      /\ ToSet(r) \subseteq ToSet(pool) \cup (InTable(tracked) \ {NoFence})
      /\ InTable(Forgotten) = {}
  BY <1>1, KeptSynced
<1>3. /\ pool' = r /\ tracked' = Forgotten
      /\ pc' \in {"running", "gone"} /\ nullWait' \in BOOLEAN
      /\ UNCHANGED <<pooled, created, status, work, batch, timed, vkState>>
  BY DEF SyncAllReturns, InOrder, FenceInv
<1>4. nullWait => nullWait'
  BY DEF SyncAllReturns
<1> HIDE DEF r
<1>5. ~pooled => r = << >>
  <2> SUFFICES ASSUME ~pooled PROVE r = << >>
    OBVIOUS
  <2>1. pool = << >> /\ InTable(tracked) = {}
    BY DEF FenceInv
  <2>2. ToSet(pool) = {}
    BY <2>1 DEF ToSet
  <2>3. ToSet(r) = {}
    BY <1>2, <2>1, <2>2
  <2>4. r \in Seq(Own)
    BY <1>2 DEF Kept
  <2>5. DOMAIN r = {}
    BY <2>3 DEF ToSet
  <2> QED BY <2>4, <2>5
<1>6. ASSUME vkState' = "ok", ~nullWait'
      PROVE  Running(work, status, r, Forgotten, NoFence)
  <2>1. vkState = "ok" /\ ~nullWait
    BY <1>3, <1>4, <1>6
  <2>2. Own \cap InTable(work) = {} /\ \A f \in InTable(tracked) : status[f] = "signaled"
    BY <1>6, <2>1, SyncedWork
  <2>3. Running(work, status, pool, tracked, timed)
    BY <2>1 DEF FenceInv
  <2> QED BY <1>2, <2>2, <2>3 DEF Running
<1> QED BY <1>1, <1>2, <1>3, <1>5, <1>6 DEF FenceInv

LEMMA CompleteInv ==
  ASSUME FenceInv, NEW q \in Queues, Complete(q)
  PROVE  FenceInv'
<1> DEFINE V == Fences \cup {NoFence}
           h == Head(work[q])
<1>1. work \in [Queues -> Seq(V)] /\ work[q] # << >> /\ work' = Rest(work, q)
  BY DEF FenceInv, Complete, Rest
<1>2. work' \in [Queues -> Seq(V)]
  <2>1. Distinct(work, {})
    BY DEF Distinct
  <2> HIDE DEF V
  <2> QED BY <1>1, <2>1, TableTail
<1>3. /\ status' = IF h = NoFence THEN status ELSE [status EXCEPT ![h] = "signaled"]
      /\ UNCHANGED <<pooled, pool, created, tracked, batch, timed, pc, vkState, nullWait>>
  BY DEF Complete
<1>4. /\ status' \in [Fences -> {"unsignaled", "pending", "signaled"}]
      /\ \A f \in Fences \ {h} : status'[f] = status[f]
      /\ h \in Fences => status'[h] = "signaled"
  BY <1>3, FencesApart DEF FenceInv
<1>5. ASSUME vkState = "ok", ~nullWait PROVE Running(work', status', pool, tracked, timed)
  <2>1. Running(work, status, pool, tracked, timed)
    BY <1>5 DEF FenceInv
  <2>2. /\ Distinct(work', Own) /\ InTable(work') \subseteq InTable(work)
        /\ h \in Own => h \notin InTable(work')
    <3>1. Distinct(work, Own)
      BY <2>1 DEF Running
    <3> HIDE DEF V
    <3> QED BY <1>1, <3>1, TableTail
  <2> HIDE DEF h
  <2>3. \A f \in Own \cap InTable(work') : status'[f] = "pending" /\ f \in InTable(tracked) \cup {timed}
    BY <1>4, <2>1, <2>2, FencesApart DEF Running
  <2>4. ToSet(pool) \subseteq Own
    BY DEF FenceInv, Kept, ToSet
  <2>5. ASSUME NEW f \in ToSet(pool) PROVE status'[f] # "pending"
    BY <1>4, <2>1, <2>4, FencesApart DEF Running
  <2> QED BY <2>2, <2>3, <2>5 DEF Running
<1> QED BY <1>2, <1>3, <1>4, <1>5 DEF FenceInv

LEMMA ResetInv ==
  ASSUME FenceInv, NEW f \in UserFences, CallerResets(f)
  PROVE  FenceInv'
<1>1. /\ status' \in [Fences -> {"unsignaled", "pending", "signaled"}]
      /\ \A g \in Own : status'[g] = status[g]
      /\ UNCHANGED <<pooled, pool, created, tracked, work, batch, timed, pc, vkState, nullWait>>
  BY FencesApart DEF CallerResets, FenceInv
<1>2. ToSet(pool) \subseteq Own
  BY DEF FenceInv, Kept, ToSet
<1>3. Running(work, status, pool, tracked, timed) => Running(work, status', pool, tracked, timed)
  BY <1>1, <1>2 DEF Running
<1> QED BY <1>1, <1>3 DEF FenceInv

LEMMA FenceInitInv == FenceInit => FenceInv
<1> SUFFICES ASSUME FenceInit PROVE FenceInv
  OBVIOUS
<1>1. /\ created \in 0 .. MaxFences /\ pool = [i \in 1 .. created |-> i]
      /\ (~pooled => created = 0)
  BY SchedulerAssumption DEF FenceInit
<1>2. /\ pool \in Seq(Own) /\ IsInjective(pool) /\ ToSet(pool) = 1 .. created
  <2>1. pool \in [1 .. created -> Own]
    BY <1>1, SchedulerAssumption DEF Own
  <2>2. pool \in Seq(Own)
    BY <1>1, <2>1
  <2> QED BY <1>1, <2>2 DEF IsInjective, ToSet
<1>3. /\ \A q \in Queues : tracked[q] = << >> /\ work[q] = << >>
      /\ tracked \in [Queues -> Seq(Own \cup {NoFence})]
      /\ work \in [Queues -> Seq(Fences \cup {NoFence})]
  BY DEF FenceInit
<1>4. /\ InTable(tracked) = {} /\ InTable(work) = {}
      /\ Distinct(tracked, Own) /\ Distinct(work, Own)
  BY <1>3 DEF InTable, Distinct, ToSet
<1>5. timed = NoFence
  BY DEF FenceInit
<1>6. Kept(pool, created, tracked, timed)
  BY <1>1, <1>2, <1>3, <1>4, <1>5, FencesApart DEF Kept
<1>7. /\ status \in [Fences -> {"unsignaled", "pending", "signaled"}]
      /\ \A f \in Fences : status[f] = "unsignaled"
  BY DEF FenceInit
<1>8. Running(work, status, pool, tracked, timed)
  <2>1. ToSet(pool) \subseteq Fences
    BY <1>2, FencesApart DEF ToSet
  <2> QED BY <1>4, <1>7, <2>1 DEF Running
<1>9. ~pooled => pool = << >>
  BY <1>1, <1>2
<1> QED BY <1>3, <1>4, <1>5, <1>6, <1>7, <1>8, <1>9 DEF FenceInit, FenceInv

LEMMA FenceStepInv == FenceInv /\ [FenceNext]_fenceVars => FenceInv'
<1> SUFFICES ASSUME FenceInv, [FenceNext]_fenceVars PROVE FenceInv'
  OBVIOUS
<1>1. CASE UNCHANGED fenceVars
  BY <1>1 DEF fenceVars, FenceInv
<1>2. ASSUME NEW q \in Queues, NEW f \in UserFences \cup {NoFence}, Dispatch(q, f)
      PROVE  FenceInv'
  <2>1. SubmitTracking(q, f) /\ UNCHANGED <<pooled, batch, timed, pc, vkState, nullWait>>
    BY <1>2 DEF Dispatch
  <2>2. batch' \in Queues \cup {NoBatch}
    BY <2>1 DEF FenceInv
  <2> QED BY <2>1, <2>2, SubmitInv
<1>3. ASSUME NEW q \in Queues, BeginBatch(q) PROVE FenceInv'
  BY <1>3 DEF BeginBatch, FenceInv
<1>4. ASSUME NEW f \in UserFences \cup {NoFence}, EndBatch(f) PROVE FenceInv'
  <2>1. /\ batch \in Queues /\ batch' = NoBatch
        /\ UNCHANGED <<pooled, timed, pc, vkState, nullWait>>
    BY <1>4 DEF EndBatch, FenceInv
  <2>2. CASE SubmitTracking(batch, f)
    BY <2>1, <2>2, SubmitInv
  <2>3. CASE UNCHANGED <<pool, created, tracked, status, work>>
    BY <2>1, <2>3 DEF FenceInv
  <2> QED BY <1>4, <2>2, <2>3 DEF EndBatch
<1>5. CASE SyncAll
  <2>1. timed = NoFence
    BY <1>5 DEF SyncAll, FenceInv
  <2> QED BY <1>5, <2>1 DEF SyncAll, FenceInv
<1>6. CASE Lose
  BY <1>6 DEF Lose, FenceInv
<1> QED
  BY <1>1, <1>2, <1>3, <1>4, <1>5, <1>6, TimedInv, TimedReturnsInv, SyncInv, CompleteInv,
     ResetInv DEF FenceNext

(* Whatever submission fails: no fence of the scheduler lies in the pool   *)
(* or in its table twice, or is in the pool while somebody still waits.    *)
THEOREM SchedulerFencesOnce == FenceSpec => []FencesOnce
<1>1. FenceInv => FencesOnce
  <2> SUFFICES ASSUME FenceInv PROVE FencesOnce
    OBVIOUS
  <2>1. Kept(pool, created, tracked, timed)
    BY DEF FenceInv
  <2>2. AllTracked = InTable(tracked)
    BY <2>1, FlattenIs DEF AllTracked, InOrder, Kept
  <2>3. timed \notin ToSet(pool) \cup (AllTracked \ {NoFence})
    BY <2>1, <2>2 DEF Kept
  <2>4. ASSUME NEW q \in Queues, NEW r \in Queues, NEW i \in Held(q), NEW j \in Held(r)
        PROVE  /\ tracked[q][i] \notin ToSet(pool)
               /\ tracked[q][i] = tracked[r][j] => q = r /\ i = j
    <3>1. i \in DOMAIN tracked[q] /\ j \in DOMAIN tracked[r] /\ tracked[q][i] # NoFence
      BY DEF Held
    <3>2. tracked[q][i] \in Own
      <4>1. tracked[q] \in Seq(Own \cup {NoFence})
        BY <2>1 DEF Kept
      <4> QED BY <3>1, <4>1
    <3>3. tracked[q][i] \in InTable(tracked)
      BY <3>1, InTableIs
    <3> QED BY <2>1, <3>1, <3>2, <3>3 DEF Kept, Distinct
  <2> QED BY <2>1, <2>3, <2>4 DEF FencesOnce, Kept
<1> QED BY <1>1, FenceInitInv, FenceStepInv, PTL DEF FenceSpec

(* acquire never resets a fence the device has yet to signal, as long as   *)
(* the device is there and no null handle was waited for.                  *)
THEOREM SchedulerPoolIsIdle == FenceSpec => []PoolIsIdle
<1>1. FenceInv => PoolIsIdle
  BY DEF FenceInv, PoolIsIdle, Running
<1> QED BY <1>1, FenceInitInv, FenceStepInv, PTL DEF FenceSpec

(* When syncAll resets the command pools, only submissions it had no fence *)
(* for can still be running.                                               *)
THEOREM SchedulerResetFindsOthers == FenceSpec => ResetFindsOthers
<1>1. ASSUME FenceInv, FenceNext, Returning, vkState = "ok", ~nullWait'
      PROVE  \A q \in Queues : ToSet(work[q]) \subseteq UserFences \cup {NoFence}
  <2>1. SyncAllReturns
    BY <1>1 DEF FenceNext, Returning, Dispatch, BeginBatch, DispatchTimed, Complete, EndBatch,
                CallerResets, DispatchTimedReturns, SyncAll, Lose, Room
  <2>2. Own \cap InTable(work) = {}
    BY <1>1, <2>1, SyncedWork
  <2>3. ASSUME NEW q \in Queues, NEW f \in ToSet(work[q])
        PROVE  f \in UserFences \cup {NoFence}
    <3>1. f \in InTable(work)
      BY DEF InTable
    <3>2. f \in Fences \cup {NoFence}
      <4>1. work[q] \in Seq(Fences \cup {NoFence})
        BY <1>1 DEF FenceInv
      <4> QED BY <4>1 DEF ToSet
    <3> QED BY <2>2, <3>1, <3>2, FencesApart
  <2> QED BY <2>3
<1>2. FenceInv /\ [FenceNext]_fenceVars =>
        [(Returning /\ vkState = "ok" /\ ~nullWait') =>
           \A q \in Queues : ToSet(work[q]) \subseteq UserFences \cup {NoFence}]_fenceVars
  BY <1>1
<1> QED BY <1>2, FenceInitInv, FenceStepInv, PTL DEF FenceSpec, ResetFindsOthers
=============================================================================
