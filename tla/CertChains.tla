------------------------------ MODULE CertChains ------------------------------
(***************************************************************************)
(* Verification of certificates (src/crypto/sm2/verify.go, cert_pool.go    *)
(* and CheckSignatureFrom of x509.go).  A certificate is a record; what    *)
(* its key signed says which key did.  A name is a sequence of characters, *)
(* a pool the sequence of its certificates: its two maps list, for a key   *)
(* id or a subject, the positions in the order of addition.                *)
(***************************************************************************)
EXTENDS Integers, Sequences, FiniteSets, SequencesExt

CONSTANTS Worlds,               \* who is verified, with which options
          Chains, KeyUsageLists,
          Names, Constraints,   \* of hosts, patterns and domains
          Sources               \* what the files and the directories of the system hold

\* What may be nil is a sequence of at most one.
Nothing == <<>>
AnyUsage == 0
ServerAuth == 1
GatedCrypto == {10, 11}       \* Microsoft's and Netscape's, taken for ServerAuth
EntrustKey == -1

Has(s, x) == \E i \in DOMAIN s : s[i] = x

-----------------------------------------------------------------------------
\* Pools.
NewCertPool == <<>>
contains(pool, c) == \E i \in DOMAIN pool : pool[i].subject = c.subject /\ pool[i].raw = c.raw
AddCert(pool, c) == IF contains(pool, c) THEN pool ELSE Append(pool, c)

\* Blocks of another type or with headers, and what does not parse, are skipped; what
\* is no block ends the series.
Decoded(blocks) ==
  LET ends == {i \in DOMAIN blocks : blocks[i].type = "none"}
  IN SubSeq(blocks, 1, IF ends = {} THEN Len(blocks) ELSE (CHOOSE i \in ends : \A j \in ends : i <= j) - 1)
AppendCertsFromPEM(pool, blocks) ==
  LET good == SelectSeq(Decoded(blocks), LAMBDA b : b.type = "CERTIFICATE" /\ ~b.headers /\ b.cert # Nothing)
  IN [pool |-> FoldLeft(LAMBDA p, b : AddCert(p, b.cert[1]), pool, good), ok |-> good # <<>>]

\* The first file that can be read, whatever it holds; else the first directory with a
\* certificate.  Of the errors the first one other than "does not exist".
loadSystemRoots(files, directories) ==
  LET read == {i \in DOMAIN files : files[i].err = "no"}
      Load(roots, blockLists) ==
        FoldLeft(LAMBDA r, bs : LET a == AppendCertsFromPEM(r.pool, bs)
                                IN [pool |-> a.pool, ok |-> r.ok \/ a.ok], [pool |-> roots, ok |-> FALSE], blockLists)
      After[i \in 0 .. Len(directories)] ==
        IF i = 0 THEN [pool |-> NewCertPool, ok |-> FALSE]
        ELSE IF After[i - 1].ok \/ directories[i].err # "no" THEN After[i - 1]
        ELSE Load(After[i - 1].pool, directories[i].entries)
      errs == SelectSeq(files \o directories, LAMBDA f : f.err \notin {"no", "notExist"})
  IN IF read # {}
     THEN [pool |-> <<AppendCertsFromPEM(NewCertPool, files[CHOOSE i \in read : \A j \in read : i <= j].blocks).pool>>,
           err |-> "no"]
     ELSE IF After[Len(directories)].ok THEN [pool |-> <<After[Len(directories)].pool>>, err |-> "no"]
     ELSE [pool |-> Nothing, err |-> IF errs = <<>> THEN "no" ELSE errs[1].err]

\* Entrust's key is exempted where the child has it, not the parent as the comment says.
CheckSignatureFrom(c, parent) ==
  IF ((parent.v3 /\ ~parent.basic) \/ (parent.basic /\ ~parent.ca)) /\ c.key # EntrustKey
  THEN "constraint"
  ELSE IF ~parent.certSign THEN "constraint"
  ELSE IF ~parent.known THEN "unsupported"
  ELSE IF c.signer = parent.key THEN "no" ELSE "signature"

\* By key id; where that finds nobody, by name.
Candidates(pool, c) ==
  LET Where(Test(_)) == SelectSeq([i \in DOMAIN pool |-> i], Test)
      byId == IF c.akid = Nothing THEN <<>> ELSE Where(LAMBDA i : pool[i].skid = c.akid)
  IN IF byId # <<>> THEN byId ELSE Where(LAMBDA i : pool[i].subject = c.issuer)
\* The error is that of the last candidate, even where it is none.
findVerifiedParents(pool, c) ==
  LET all == Candidates(pool, c)
      bad == SelectSeq(all, LAMBDA i : CheckSignatureFrom(c, pool[i]) # "no")
  IN [parents |-> SelectSeq(all, LAMBDA i : CheckSignatureFrom(c, pool[i]) = "no"),
      errCert |-> IF bad = <<>> THEN Nothing ELSE <<pool[bad[Len(bad)]].raw>>,
      err |-> IF all = <<>> THEN "no" ELSE CheckSignatureFrom(c, pool[all[Len(all)]])]

-----------------------------------------------------------------------------
\* Names.
Upper == {"A", "B"}
ToLower(ch) == CASE ch = "A" -> "a" [] ch = "B" -> "b" [] OTHER -> ch
toLowerCaseASCII(name) == [i \in DOMAIN name |-> ToLower(name[i])] \o <<>>

\* Variant: the domain may begin anywhere in the last label.
matchNameConstraint_AnyPrefix(domain, constraint) ==
  LET prefixLen == Len(domain) - Len(constraint)
  IN prefixLen >= 0 /\ toLowerCaseASCII(SubSeq(domain, prefixLen + 1, Len(domain))) = toLowerCaseASCII(constraint)

matchNameConstraint(domain, constraint) ==
  LET prefixLen == Len(domain) - Len(constraint)
  IN \/ constraint = <<>>
     \/ /\ prefixLen >= 0
        /\ toLowerCaseASCII(SubSeq(domain, prefixLen + 1, Len(domain))) = toLowerCaseASCII(constraint)
        /\ prefixLen = 0 \/ (domain[prefixLen] = ".") # (constraint[1] = ".")

TrimDot(name) == IF name # <<>> /\ name[Len(name)] = "." THEN SubSeq(name, 1, Len(name) - 1) ELSE name
\* The labels between the dots.
Split(name) ==
  LET dots == SelectSeq([i \in 1 .. Len(name) + 1 |-> i], LAMBDA i : i > Len(name) \/ name[i] = ".")
  IN [k \in DOMAIN dots |-> SubSeq(name, IF k = 1 THEN 1 ELSE dots[k - 1] + 1, dots[k] - 1)]
matchHostnames(pattern, host) ==
  LET p == Split(TrimDot(pattern)) h == Split(TrimDot(host))
  IN /\ TrimDot(pattern) # <<>> /\ TrimDot(host) # <<>>
     /\ Len(p) = Len(h)
     /\ \A i \in DOMAIN p : (i = 1 /\ p[i] = <<"*">>) \/ p[i] = h[i]

\* A host is an address or a name; alternative names silence the common name.
VerifyHostname(c, h) ==
  LET lowered == toLowerCaseASCII(h.name)
  IN IF h.ip # Nothing THEN Has(c.ips, h.ip)
     ELSE IF c.dns # <<>> THEN \E i \in DOMAIN c.dns : matchHostnames(toLowerCaseASCII(c.dns[i]), lowered)
     ELSE matchHostnames(toLowerCaseASCII(c.commonName), lowered)

-----------------------------------------------------------------------------
\* Chains.  opts: intermediates, roots, the host, the time and the usages asked for.
isValid(c, certType, chain, opts) ==
  IF chain # <<>> /\ chain[Len(chain)].issuer # c.subject THEN "NameMismatch"
  ELSE IF opts.now < c.notBefore \/ opts.now > c.notAfter THEN "Expired"
  ELSE IF c.permitted # <<>> /\ \A i \in DOMAIN c.permitted : ~matchNameConstraint(opts.host.name, c.permitted[i])
       THEN "CANotAuthorizedForThisName"
  ELSE IF certType = "intermediate" /\ ~(c.basic /\ c.ca) THEN "NotAuthorizedToSign"
  ELSE IF c.basic /\ c.pathLen >= 0 /\ Len(chain) - 1 > c.pathLen THEN "TooManyIntermediates"
  ELSE "no"

InChain(chain, c) == \E i \in DOMAIN chain : chain[i].raw = c.raw

\* s: the chains so far, what was cached of each intermediate, and the last error.  A cached
\* chain starts as it did when it was built, not with the current chain.
RECURSIVE buildChains(_, _, _, _)
buildChains(c, cache, chain, opts) ==
  LET TryRoot(s, root, err) ==
        IF InChain(chain, root) THEN s
        ELSE IF err # "no" THEN [s EXCEPT !.err = err]
        ELSE [s EXCEPT !.err = "no", !.chains = Append(@, Append(chain, root))]
      Enter(s, i, sub) ==
        [chains |-> s.chains \o sub.chains, err |-> sub.err, cache |-> [sub.cache EXCEPT ![i] = <<sub.chains>>]]
      TryIntermediate(s, i, err) ==
        IF InChain(chain, opts.inter[i]) THEN s
        ELSE IF err # "no" THEN [s EXCEPT !.err = err]
        ELSE IF s.cache[i] # Nothing
             THEN [s EXCEPT !.err = "no", !.chains = @ \o s.cache[i][1]]
        ELSE Enter(s, i, buildChains(opts.inter[i], s.cache, Append(chain, opts.inter[i]), opts))
      Told(s) == [s EXCEPT !.err = IF s.chains # <<>> THEN "no" ELSE IF @ # "no" THEN @ ELSE "UnknownAuthority"]
  IN Told(FoldLeft(LAMBDA s, i : TryIntermediate(s, i, isValid(opts.inter[i], "intermediate", chain, opts)),
                   FoldLeft(LAMBDA s, i : TryRoot(s, opts.roots[i], isValid(opts.roots[i], "root", chain, opts)),
                            [chains |-> <<>>, cache |-> cache, err |-> "no"], findVerifiedParents(opts.roots, c).parents),
                   findVerifiedParents(opts.inter, c).parents))
\* Usages a certificate does not support are crossed out, from the root to the leaf; no
\* usage may be left only after the last one was crossed out.
Supports(c, usage) ==
  \/ c.eku = <<>> /\ ~c.unknownEku
  \/ Has(c.eku, AnyUsage) \/ Has(c.eku, usage)
  \/ usage = ServerAuth /\ \E g \in GatedCrypto : Has(c.eku, g)
checkChainForKeyUsage(chain, usages) ==
  LET Cross(left, c) == SelectSeq(left, LAMBDA u : Supports(c, u))
      left[i \in 0 .. Len(chain)] == IF i = 0 THEN usages ELSE Cross(left[i - 1], chain[Len(chain) + 1 - i])
  IN chain # <<>> /\ \A i \in 1 .. Len(chain) : left[i] # <<>> \/ left[i - 1] = <<>>

Failed(err) == [chains |-> <<>>, err |-> err]
\* Of the candidates those with a usage that is asked for.
WithUsages(candidates, usages) ==
  LET good == SelectSeq(candidates.chains, LAMBDA ch : checkChainForKeyUsage(ch, usages))
  IN IF candidates.err # "no" THEN Failed(candidates.err)
     ELSE IF Has(usages, AnyUsage) THEN [chains |-> candidates.chains, err |-> "no"]
     ELSE [chains |-> good, err |-> IF good = <<>> THEN "IncompatibleUsage" ELSE "no"]
\* A pool that is not given has nothing in it; without roots those of the system are taken.
Verify(c, opts, system) ==
  LET roots == IF opts.roots = Nothing THEN system.pool ELSE opts.roots
      o == [opts EXCEPT !.roots = roots[1]]
      valid == isValid(c, "leaf", <<>>, o)
  IN IF ~c.parsed \/ \E i \in DOMAIN o.inter : ~o.inter[i].parsed THEN Failed("notParsed")
     ELSE IF c.unhandled THEN Failed("UnhandledCriticalExtension")
     ELSE IF roots = Nothing THEN Failed("SystemRoots")
     ELSE IF valid # "no" THEN Failed(valid)
     ELSE IF o.host.name # <<>> /\ ~VerifyHostname(c, o.host) THEN Failed("Hostname")
     ELSE WithUsages(IF contains(o.roots, c) THEN [chains |-> <<<<c>>>>, err |-> "no"]
                     ELSE buildChains(c, [i \in DOMAIN o.inter |-> Nothing], <<c>>, o),
                     IF o.usages = <<>> THEN <<ServerAuth>> ELSE o.usages)

-----------------------------------------------------------------------------
\* What makes a chain good, from the leaf to a root.
GoodLink(chain, k, w) ==
  LET c == chain[k] pool == IF k = Len(chain) THEN w.opts.roots[1] ELSE w.opts.inter
      id == chain[k - 1].akid
  IN /\ Has(pool, c)
     /\ id # Nothing /\ (\E i \in DOMAIN pool : pool[i].skid = id) => c.skid = id
     /\ chain[k - 1].signer = c.key /\ chain[k - 1].issuer = c.subject
     /\ w.opts.now \in c.notBefore .. c.notAfter
     /\ k < Len(chain) => c.basic /\ c.ca
     /\ c.permitted = <<>> \/ \E i \in DOMAIN c.permitted : matchNameConstraint(w.opts.host.name, c.permitted[i])
     /\ c.basic /\ c.pathLen >= 0 => k - 2 <= c.pathLen
GoodChain(chain, w) ==
  /\ chain[1] = w.leaf
  /\ \A j, k \in DOMAIN chain : j # k => chain[j].raw # chain[k].raw
  /\ \A k \in 2 .. Len(chain) : GoodLink(chain, k, w) /\ CheckSignatureFrom(chain[k - 1], chain[k]) = "no"

\* ChainsSound: every chain that Verify returns leads from the certificate to a root, each
\* link signed, in time, within the names and the length that are permitted, though what
\* is cached of an intermediate was found from another chain; and of the usages one is
\* supported all along (verify.go:190-398, 494-554).
ChainsSound ==
  \A w \in Worlds : \A v \in {Verify(w.leaf, w.opts, [pool |-> Nothing])} :
       /\ v.err = "no" <=> v.chains # <<>>
       /\ \A i \in DOMAIN v.chains :
            \/ v.chains[i] = <<w.leaf>> /\ contains(w.opts.roots[1], w.leaf)
            \/ Len(v.chains[i]) > 1 /\ GoodChain(v.chains[i], w)
       /\ \A i \in DOMAIN v.chains :
            \E u \in ToSet(w.opts.usages) : u = AnyUsage \/ \A k \in DOMAIN v.chains[i] : Supports(v.chains[i][k], u)

\* ChainsFound: where a chain exists that nobody's path length and no usage limits, one is
\* found, in spite of what the cache leaves out (verify.go:342-398).
Limited(w) == \E c \in ToSet(w.opts.inter) \cup ToSet(w.opts.roots[1]) : c.basic /\ c.pathLen >= 0
Paths(n) == UNION {{p \in [1 .. m -> 1 .. n] : IsInjective(p)} : m \in 0 .. n}
ChainsFound ==
  \A w \in Worlds :
    LET Chain(p, r) == <<w.leaf>> \o [k \in DOMAIN p |-> w.opts.inter[p[k]]] \o <<w.opts.roots[1][r]>>
    IN /\ w.leaf.parsed /\ ~w.leaf.unhandled /\ isValid(w.leaf, "leaf", <<>>, w.opts) = "no" /\ Has(w.opts.usages, AnyUsage)
       /\ w.opts.host.name = <<>> \/ VerifyHostname(w.leaf, w.opts.host)
       /\ ~Limited(w)
       /\ \E p \in Paths(Len(w.opts.inter)), r \in DOMAIN w.opts.roots[1] : GoodChain(Chain(p, r), w)
       => Verify(w.leaf, w.opts, [pool |-> Nothing]).chains # <<>>

\* UsagesCrossed: crossing out usages leaves a chain exactly when one usage is supported by
\* all of its certificates (verify.go:494-554).
UsagesCrossed ==
  \A chain \in Chains, usages \in KeyUsageLists :
    checkChainForKeyUsage(chain, usages)
      <=> \E i \in DOMAIN usages : \A k \in DOMAIN chain : Supports(chain[k], usages[i])

\* NamesMatched: a constraint permits the names that end in its labels, with a dot before
\* it only those with one more; a pattern covers a name label by label, its star exactly
\* one (verify.go:164-187, 400-492).
EndsIn(labels, tail) ==
  Len(labels) >= Len(tail) /\ SubSeq(labels, Len(labels) - Len(tail) + 1, Len(labels)) = tail
NamesMatched ==
  /\ \A d \in Names, c \in Constraints :
       LET labels == Split(toLowerCaseASCII(d)) tail == Split(toLowerCaseASCII(c))
       IN (\A i \in DOMAIN labels : labels[i] # <<>>) =>
            (matchNameConstraint(d, c)
              <=> \/ c = <<>>
                  \/ tail[1] # <<>> /\ EndsIn(labels, tail)
                  \/ tail[1] = <<>> /\ Len(labels) >= Len(tail) /\ EndsIn(labels, Tail(tail)))
  /\ \A p, h \in Names :
       LET star == Split(TrimDot(toLowerCaseASCII(p))) labels == Split(TrimDot(toLowerCaseASCII(h)))
           c == [ips |-> <<>>, dns |-> <<p>>, commonName |-> h]
       IN VerifyHostname(c, [name |-> h, ip |-> Nothing])
            <=> /\ TrimDot(p) # <<>> /\ TrimDot(h) # <<>>
                /\ star = labels \/ (star[1] = <<"*">> /\ Len(labels) = Len(star) /\ Tail(star) = Tail(labels))

\* RootsOnce: roots of the system come from one source, every certificate once; an error
\* is told only where no source gave any (cert_pool.go:62-97, 156-204).
Held(blocks) == {b.cert[1] : b \in {x \in ToSet(Decoded(blocks)) : x.type = "CERTIFICATE" /\ ~x.headers /\ x.cert # Nothing}}
RootsOnce ==
  \A s \in Sources :
    LET r == loadSystemRoots(s.files, s.directories)
    IN /\ r.pool # Nothing =>
            /\ \A i, j \in DOMAIN r.pool[1] : i # j => r.pool[1][i].raw # r.pool[1][j].raw
            /\ r.err = "no"
            /\ \/ \E f \in ToSet(s.files) : f.err = "no" /\ ToSet(r.pool[1]) \subseteq Held(f.blocks)
               \/ \E d \in ToSet(s.directories) : d.err = "no" /\ r.pool[1] # <<>>
                     /\ ToSet(r.pool[1]) = UNION {Held(e) : e \in ToSet(d.entries)}
       /\ r.pool = Nothing =>
            /\ \A f \in ToSet(s.files) : f.err # "no"
            /\ \A d \in ToSet(s.directories) : d.err = "no" => UNION {Held(e) : e \in ToSet(d.entries)} = {}
            /\ r.err = "no" <=> \A f \in ToSet(s.files \o s.directories) : f.err \in {"no", "notExist"}
=============================================================================
