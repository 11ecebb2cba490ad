---------------------------- MODULE ShaderLibrary ----------------------------
(***************************************************************************)
(* VulkanShaderLibrary and ShaderCompiler: pipelines by kernel type and    *)
(* specialisation, made of SPIR-V that is compiled once and kept in files  *)
(* which outlive the program.  The name of a cache file depends on the     *)
(* path and the defines, not on what the source says, and glslc may be     *)
(* killed while it writes one.                                             *)
(***************************************************************************)
EXTENDS Integers, FiniteSets

CONSTANTS KernelTypes, \* kernel types in use; the variant is always FAST
          FileOf,      \* KernelTypeToString: the shader of a kernel type
          Specs,       \* SpecializationMaps, told apart by BuildDefines
          MaxVersion   \* bound on the edits of a source

ASSUME ShaderAssumption == MaxVersion \in Nat \ {0} /\ "built in" \notin Specs

VARIABLES
  available, \* available_: glslc was found
  source,    \* the version of each .comp file
  cache,     \* the files in shader_dir/cache
  pipelines, \* pipelines_
  layouts,   \* keys of layouts_
  named,     \* named_pipelines_
  modules    \* modules_: whether the handle under a path still exists

shaderVars == <<available, source, cache, pipelines, layouts, named, modules>>

Shaders == {FileOf[t] : t \in KernelTypes}
Keys    == [type : KernelTypes, spec : Specs]

(* What a file of SPIR-V holds: the code of a version of its source, half  *)
(* of such a code, or what was installed with the program.                 *)
Compiled(f, s) == [from |-> f, spec |-> s, version |-> source[f]]
Torn(f, s)     == [from |-> f, spec |-> s, version |-> -1]
Installed(f)   == [from |-> f, spec |-> "built in", version |-> 0]

With(table, k, v) == [j \in DOMAIN table \cup {k} |-> IF j = k THEN v ELSE table[j]]
Empty == [k \in {} |-> 0]

ShaderInit ==
  /\ available = FALSE
  /\ source = [f \in Shaders |-> 1] /\ cache = Empty
  /\ pipelines = Empty /\ layouts = {} /\ named = Empty /\ modules = Empty

(* Mutant: the defines are not part of the name.                           *)
BuildCacheKeyOfPath(f, s) == <<f, "any">>

BuildCacheKey(f, s) == <<f, s>>

(* A torn file whose size is a multiple of four cannot be told from a good *)
(* one; any other is compiled again.                                       *)
ReadSpvFile(k) == IF k \in DOMAIN cache THEN {cache[k]} ELSE {}

NotCompiled(found) == [ok |-> FALSE, code |-> {}, cache |-> found]

(* RunGlslc may fail, and what it wrote may not be readable.               *)
Compile(f, s) ==
  LET k     == BuildCacheKey(f, s)
      after == With(cache, k, Compiled(f, s))
  IN CASE ~available -> {NotCompiled(cache)}
       [] available /\ ReadSpvFile(k) # {}
            -> {[ok |-> TRUE, code |-> ReadSpvFile(k), cache |-> cache]}
       [] available /\ ReadSpvFile(k) = {}
            -> {NotCompiled(cache), NotCompiled(after),
                [ok |-> TRUE, code |-> {Compiled(f, s)}, cache |-> after]}

(* LoadSpv finds the installed file or not.                                *)
CodesFor(f, result) ==
  IF result.ok THEN {result.code} ELSE {{}, {Installed(f)}}

(* CreateComputePipeline.  When the layout or the pipeline cannot be made, *)
(* the module is destroyed but stays in modules_.                          *)
MakePipeline(path, Store, Skip) ==
  \/ Skip /\ modules' = modules
  \/ Skip /\ modules' = With(modules, path, FALSE)
  \/ Store /\ modules' = With(modules, path, TRUE)

CompileKernel(key) ==
  IF key \in DOMAIN pipelines THEN UNCHANGED <<cache, pipelines, layouts, modules>>
  ELSE \E result \in Compile(FileOf[key.type], key.spec) :
         /\ cache' = result.cache
         /\ \E codes \in CodesFor(FileOf[key.type], result) :
              IF codes = {} THEN UNCHANGED <<pipelines, layouts, modules>>
              ELSE MakePipeline(FileOf[key.type],
                     /\ \E code \in codes : pipelines' = With(pipelines, key, code)
                     /\ layouts' = layouts \cup {key},
                     UNCHANGED <<pipelines, layouts>>)

(* The engine asks for the layout, then for the pipeline; either call      *)
(* compiles what is missing.                                               *)
GetPipeline(key) ==
  /\ CompileKernel(key)
  /\ UNCHANGED <<available, source, named>>

(* The first specialisation a name is asked for with is the one it keeps.  *)
CompileNamedShader(name, s) ==
  /\ name \notin DOMAIN named
  /\ \E result \in Compile(name, s) :
       /\ cache' = result.cache
       /\ \E codes \in CodesFor(name, result) :
            IF codes = {} THEN UNCHANGED <<named, modules>>
            ELSE MakePipeline(name,
                   \E code \in codes : named' = With(named, name, code),
                   UNCHANGED named)
  /\ UNCHANGED <<available, source, pipelines, layouts>>

(* Every source of the directory is compiled into the cache, or not.       *)
PrecompileAll(s) ==
  /\ available
  /\ \E done \in SUBSET Shaders :
       LET missing == {f \in done : BuildCacheKey(f, s) \notin DOMAIN cache}
           names   == {BuildCacheKey(f, s) : f \in missing}
       IN cache' = [k \in DOMAIN cache \cup names |->
                      IF k \in names THEN Compiled(k[1], s) ELSE cache[k]]
  /\ UNCHANGED <<available, source, pipelines, layouts, named, modules>>

-----------------------------------------------------------------------------
(* The world outside: the sources are edited, the program ends and starts  *)
(* again, and is killed with glslc while that writes a cache file.         *)
EditSource(f) ==
  /\ source[f] < MaxVersion
  /\ source' = [source EXCEPT ![f] = @ + 1]
  /\ UNCHANGED <<available, cache, pipelines, layouts, named, modules>>

(* The destructor; then FindGlslc in the next program.                     *)
NewLibrary ==
  /\ pipelines' = Empty /\ layouts' = {} /\ named' = Empty /\ modules' = Empty
  /\ available' \in BOOLEAN
  /\ UNCHANGED source

EndProgram == NewLibrary /\ UNCHANGED cache

KilledWhileCompiling(f, s) ==
  /\ available /\ ReadSpvFile(BuildCacheKey(f, s)) = {}
  /\ cache' = With(cache, BuildCacheKey(f, s), Torn(f, s))
  /\ NewLibrary

ShaderNext ==
  \/ \E key \in Keys : GetPipeline(key)
  \/ \E f \in Shaders, s \in Specs : CompileNamedShader(f, s)
  \/ \E s \in Specs : PrecompileAll(s)
  \/ \E f \in Shaders : EditSource(f)
  \/ EndProgram
  \/ \E f \in Shaders, s \in Specs : KilledWhileCompiling(f, s)

ShaderSpec == ShaderInit /\ [][ShaderNext]_shaderVars

-----------------------------------------------------------------------------
VariantOfKey ==
  \A key \in DOMAIN pipelines :
    \/ pipelines[key] = Installed(FileOf[key.type])
    \/ /\ pipelines[key].from = FileOf[key.type]
       /\ pipelines[key].spec = key.spec

OneVersion ==
  \A j, k \in DOMAIN pipelines :
    /\ FileOf[j.type] = FileOf[k.type] /\ pipelines[j].spec = pipelines[k].spec
    => pipelines[j] = pipelines[k]

(* Through edits, failures, kills and restarts: a pipeline runs the code   *)
(* of its own shader, compiled for its own specialisation or installed     *)
(* with the program; kernel types that share a shader (the projections all *)
(* are "gemm") never run two versions of it in one program; and a key has  *)
(* a pipeline just when it has a layout, or GetPipelineLayout would put a  *)
(* null handle into its table.                                             *)
PipelinesAgree ==
  /\ DOMAIN pipelines = layouts
  /\ VariantOfKey
  /\ OneVersion
=============================================================================
