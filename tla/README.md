# TLA+ models of imap-bodystructure.c and acl-cache.c

This directory holds TLA+ models of the two source files of this tree,
the TLC configurations that check them, and `PROJECT.json`, which records
the components, runs, mutants, the mapping of every definition to source
lines, the findings and the hazards.

## 1. Inventory

### 1.1 `src/src/lib-imap/imap-bodystructure.c`

The file builds the IMAP BODY and BODYSTRUCTURE FETCH items. It has four parts that work together:

| part | code | state | operations |
|---|---|---|---|
| header classification | `parse_header` (148-221) and the callbacks `parse_content_type`, `parse_save_params_list`, `parse_content_transfer_encoding`, `parse_content_disposition`, `parse_content_language` (36-146) | `part->context`: one `MessagePartBodyData` per MIME part, created on the first kept header | one call per header, in document order |
| driver | `imap_part_get_bodystructure` (422-435), `part_parse_headers` (223-242) | the parsed tree `*part`, kept between calls | the first call parses the message. Each later call walks the headers again, into the same contexts |
| writer | `part_write_bodystructure`, `part_write_body_multipart`, `part_write_body` (244-420) | none: it renders the contexts | BODY (`extended` FALSE) or BODYSTRUCTURE |
| reducer | `imap_body_parse_from_bodystructure`, `imap_parse_bodystructure_args`, `imap_write_list` (437-610) | none | turns a cached BODYSTRUCTURE string into BODY |

Several collaborators live outside `src/`. They are modelled from `spec.md` and marked `spec_modelled` in the map:

- the message parser, which gives the tree and the `MESSAGE_PART_FLAG_*` flags;
- the RFC822 tokenizer and `rfc822_tokens_get_value_quoted`;
- the IMAP argument parser;
- the envelope parser and writer.

Hard behaviours:

- Set-once guards. The Content-Disposition guard tests the params field, not the disposition field.
- Content-Language has no guard, so the last header wins.
- The shared `str` buffer of the parameter callbacks.
- A Content-Type without `/`, which gives a `count-i-1 = -1` call.
- The re-walk of headers into existing contexts on a second call.
- The NIL envelope and the empty-multipart placeholder.
- Two places where the reducer disagrees with the writer: it skips the parentheses of an embedded body, and it reads argument positions without bounds checks.

Properties of interest:

- the data of a part follows the header rules;
- reducing BODYSTRUCTURE gives BODY;
- the reducer accepts everything the writer writes;
- the output follows the RFC 3501 grammar: no empty lists, disposition parameters nested.

### 1.2 `src/src/plugins/acl/acl-cache.c`

A per-backend cache of the rights the current user has on ACL objects.

- Right names. The first lookup gives a name a fixed index (`acl_cache_right_lookup`). The hash map stores `idx + 1`.
- Masks. A set of rights is a byte mask. Each cached object has, per ACL id type:
  - a positive mask,
  - a negative mask,
  - a lazily computed `my_current_rights`.
- Operations:
  - `acl_cache_init` and `acl_cache_deinit`;
  - `acl_cache_update`, in the modes ADD, REMOVE and REPLACE, applied only if the user has the update's id type;
  - `acl_cache_flush`;
  - `acl_cache_flush_all`;
  - `acl_cache_get_my_rights`;
  - `acl_cache_mask_init`;
  - `acl_cache_right_lookup`.
- Hard behaviours:
  - the pointer juggling and frees of `acl_cache_update_rights_mask`;
  - the `changed` flag, which decides whether the cached current rights are dropped;
  - merging and removing between masks of different sizes;
  - `recalculate`, which ORs the negative rights into the current rights.

Nothing in either file runs concurrently. Dovecot processes are
single-threaded, and both files are driven by direct calls. So the
hazards are about orderings of calls and about data at its edges, not
about thread interleavings.

## 2. Modules

| module | models | state (VARIABLES) | actions |
|---|---|---|---|
| `ContentLanguage` | `parse_content_language`, as pure operators (`LangStep`, `LanguageTags`), and a reference reading `LanguageTagsRef` | none | none |
| `ContentLanguageScan` | the token loop (109-140) as a state machine | `toks`, `st` | `ScanToken` |
| `BodyStructure` | the whole codec | `kids`, `hdrs` (the input message), `ctx` (part contexts), `pending` (the headers the current walk has yet to hand over), `mode`, `passes`, `out` (the last BODY and BODYSTRUCTURE), `reduced` | `GetBodyStructureStart`, `ParseHeader` (one `parse_header` call), `GetBodyStructureReturn` (the writer), `BodyParseFromBodyStructure` (the reducer) |
| `AclRights` | abstract: what the cache promises, as sets of right names per slot | `rights`, `call` | `Update`, `Flush`, `FlushAll` |
| `AclCache` | the cache with names, indexes, byte masks and a heap of masks | `names`, `nameIdx`, `objs`, `heap`, `call`, `alive` (FALSE after deinit), `held` (per object, the pointer the last `acl_cache_get_my_rights` returned to its caller) | `Update`, `LookupRight`, `Flush`, `FlushAll`, `GetMyRights`, `Deinit` |
| `MC*` | instances for TLC | | |

### 2.1 How `BodyStructure` corresponds to the code

Text is modelled at the lexical level. A rendered string is a sequence of tokens:

- `(` and `)`;
- space;
- NIL;
- a quoted string (`Q(w)`);
- an atom.

Parenthesisation and field separation are therefore exact, but the characters inside a word are not modelled. Header values arrive as RFC822 tokens, already split into the main value and its parameters, as `message_content_parse_header` does. `Dispatch` is the if/else-if chain of `parse_header`, guard by guard. Each branch applies its callback, which has its own operator (`ParseContentType`, `ParseContentTransferEncoding`, `ParseContentDisposition`), or stores what the callback would compute:

- `TypeOf` and `SubtypeOf` split the value at the first `/`.
- `ParamsText` gives the `"name" "value"` pairs. The buffer is new for every header.
- `LanguageText` gives the quoted tags.

`ParseHeader` has two disjuncts: the early return at lines 159-161, and the call of `Dispatch` on the context, which is created if it is missing. The writer (`WriteBodyStructure`, `WriteMultipart`, `WriteBody`) and the reducer (`ParseBodyStructureArgs`, `WriteList`) are recursive operators that follow the C control flow branch by branch. The reducer's reads past the end of the argument array are modelled by `IsArg`, which treats those positions as `IMAP_ARG_EOL`.

Assumptions taken from the spec:

- `rfc822_tokens_get_value_quoted` gives `""` for no tokens.
- The message parser sets a part's flags from its first Content-Type, defaulting to text/plain.
- A message/rfc822 part has exactly one child.
- The envelope keeps the first Subject and the first From.

### 2.2 How `AclCache` corresponds to the code, and its refinement

A mask is an address into `heap`, whose entries are `[size, bits]`, so the pointer comparisons and frees are kept. `CharBit` stands in for `CHAR_BIT`: with `CharBit = 2`, three right names already give masks of one and of two bytes. The calls made inside one C call are composed through a threaded record `st`:

- `MaskInit` and `RightLookup`;
- `ModifyMask`, with its `Merge`;
- `Release`, for the frees at 227-233;
- the drop of the current rights at 235-238.

`Update` models the whole of `acl_cache_update`. It creates the object, then applies the positive and then the negative update (`UpdateRights`) if `Applies`.

`GetMyRights` has three disjuncts: no cached object (NULL), the current rights are computed and allocated (`Recalculate`), and the cached pointer is returned. Each one records the returned pointer in `held`. This stands for a caller that keeps the pointer, which `HeldRightsStable` is about. `Deinit` models `acl_cache_deinit`. It empties the name maps and the objects hash, but, like the code, it does not free the object caches' masks.

`AclCache` implements `AclRights` under the refinement mapping `rights <- the right names of each slot's mask` (`MaskNames`). `call` is a history variable in both modules: it records the last update or flush call, so that every cache step must match the abstract step of the same call. No action reads it, so the MC leaves it out of the fingerprint (`VIEW`).

## 3. Runs

| run | cfg | expect | what it shows |
|---|---|---|---|
| content_language | `MCContentLanguage.cfg` | pass | Every token sequence of length at most 5 is tested, over atoms, a quoted string, a comment, a comma and another special. The loop gives the comma-separated, comment-free tags, and the pending closing quote matches the last group (`LanguageScanMatchesReference`). |
| header_metadata | `MCBodyHeaders.cfg` | pass | Each part gets every header block of 0-2 headers, over 16 headers: two values of each set-once field, a slashless Content-Type, two Content-Languages (one of comments only), a non-content header and envelope headers. The tree is a single part, or a message/rfc822 part with its child. Each part is walked twice. After every walk, each part's data is the first-wins reading of its kept headers, with the last non-empty Content-Language (`MetadataFollowsHeaders`). |
| body_reduce | `MCBodyTree.cfg` | pass | Four trees of up to 3 parts (single, multipart with 1 or 2 children, nested multipart) and 8 header blocks per part. The reduced BODYSTRUCTURE equals the BODY rendered directly (`BodyFromBodyStructure`). BODY is a field-by-field prefix of BODYSTRUCTURE of the same message, nested lists included (`BodyPrefixOfBodyStructure`). When a call has walked all headers, every multipart part has data, so the `i_assert(data != NULL)` at line 249 holds (`WriterAssertionsHold`). One block starts with a `Received` header, which takes the early return. |
| empty_list | `MCBodyTreeNoEmptyList.cfg` | violation | `NoEmptyList`: a Content-Type without parameters renders `()`. |
| extension_fields | `MCBodyTreeExtendedFieldsWellFormed.cfg` | violation | A leaf part's disposition parameters are written outside the disposition list. |
| rfc822_paren | `MCBodyRfc822Paren.cfg` | violation | For message/rfc822, the BODY that the reducer gives lacks the parentheses around the embedded body. |
| rfc822_nil_envelope | `MCBodyRfc822Nil.cfg` | violation | A NIL envelope makes the reducer fail on the writer's own output. |
| acl_cache | `MCAclCache.cfg` | pass | One object and the id types ANYONE and USER. Updates use every mode on positive lists (empty, one name, two names) and on negative lists (NULL, one name), plus one update for another user. Nothing leaks, is double-freed or is shared (`HeapOwnership`). The current rights are never stale (`CurrentRightsCoherent`). The masks implement `AclRights` (`RightsRefinement`). Every mask bit lies inside the mask's bytes and indexes a name that `acl_cache_get_names` returns (`MaskBitsNamed`). The merge and remove loops rely on the first. A caller that turns a mask back into names relies on the second. |
| acl_negative_rights | `MCAclCacheNegRights.cfg` | violation | The current rights include the negative rights (`NegativeRightsOverride`). |
| acl_held_rights | `MCAclCacheHeld.cfg` | pass | Two cached objects. A pointer returned by `acl_cache_get_my_rights` stays allocated and unchanged while it is the object's current rights, across every call that does not change that object's rights (`HeldRightsStable`). Such calls include any call on the other object, an update that does not apply, a name lookup and another get. The updates are ADD, REMOVE and REPLACE of the positive ANYONE rights, plus one for another user. `held` is in the fingerprint here (`HeldView`). |
| acl_deinit_leak | `MCAclCacheDeinit.cfg` | violation | After `acl_cache_deinit`, masks of cached objects are still allocated (`NoMaskOutlivesCache`). |
| rfc822_rewalk_envelope | `MCBodyRfc822Rewalk.cfg` | violation | An embedded message whose only header is a Content-Type has no envelope after the first call. On the second call its Content-Type fails the set-once guard, falls through to the final `else if (parent_rfc822)` and reaches `imap_envelope_parse_header`, which allocates an envelope (`NoEnvelopeWithoutEnvelopeHeaders`). With `MaxPasses = 1` the property holds. |

Every property of a passing run has a mutant in `PROJECT.json`. The mutant is a plausible bug in the mapped code, and TLC finds the property violated when the bug is substituted:

- a comma that does not close a tag;
- Content-Language made set-once;
- a NULL subtype for a slashless Content-Type;
- a basic field written without quotes;
- an index stored without its `+1`;
- an unused change mask not freed;
- an ADD merge that reports no change;
- a merge loop one byte short;
- a merge that keeps the shorter mask;
- multipart extension fields written before the subtype;
- a header walk that visits only the top-level part;
- an update that drops the current rights before it knows whether anything changed.

### Bounds

- Header blocks of two headers are enough to put two occurrences of one field in one part, which the set-once and overwrite rules are about.
- `MaxPasses = 2` gives the re-walk of a second call.
- Trees of three parts cover a nested multipart, siblings, and the empty multipart.
- For the ACL cache, `CharBit = 2` with three names gives masks of different sizes. In `acl_cache`, six heap addresses are enough for the 4 slots, the current rights and one change mask. In `acl_held_rights`, they are enough for two objects' positive mask and current rights, plus one change mask.
- `acl_held_rights` is the two-object instance. With the negative rights as well, it passes a million states without ending. It keeps what tells objects apart: per-object frees, the shared heap, and the shared name map. A pointer held past its free is not followed: the property only speaks of a held pointer that is still the object's `my_current_rights`, because a freed address may be reused by the other object.
- `SYMMETRY` over the heap addresses is sound: an address is only compared and freed, never ordered.

### Fairness and deadlock

No run assumes fairness, and none checks a liveness property. Callers decide whether a FETCH or an ACL call is made at all. The one step that must eventually happen is the return of a started `imap_part_get_bodystructure` call. That call is synchronous, and the model's header walk takes the next pending header on every step, so its termination is bounded by the number of headers and is not a question for a temporal property.

Runs say `CHECK_DEADLOCK FALSE` where the system really stops:

- the Content-Language scan stops at the end of a header value;
- the codec runs stop after their bounded number of FETCH calls;
- the ACL runs stop after `Deinit`, after which no call is legal.

## 4. Findings

1. Two code bugs in the reducer. First, an embedded message/rfc822 body is written without its parentheses (line 568). Second, a NIL envelope is rejected (line 556), although the writer produces one (line 350).
2. An empty list is written as `()`, where the spec and RFC 3501 want NIL (lines 183, 205, 145).
3. `part_write_body` puts the disposition parameters outside the disposition list (lines 371-379).
4. `recalculate` ORs the negative rights into the current rights (acl-cache.c:325), against its comment. `NegativeRightsOverride` states what the comment promises: no right named in an applicable negative list is in the current rights.
5. A second FETCH of the same message changes the envelope of an embedded message (imap-bodystructure.c:215). The re-walk hands an already-set Content-* header to `imap_envelope_parse_header`, which creates an envelope. The first call renders NIL, and later calls render `(NIL NIL ...)`. The same happens on a single call when an embedded message repeats a Content-* header.
6. `acl_cache_deinit` leaks every cached mask (acl-cache.c:62). It destroys the objects hash without `acl_cache_free_object_cache`.

## 5. Not modelled, and the plan

Not modelled:

- the input-buffer skip of `part_parse_headers` to `part->physical_pos` (lines 229-231), and its assertion. The positions come from the message parser, which is outside `src/`, and the spec does not describe them, so a model would have to invent the layout;
- the array storage behind `acl_cache_get_names`. The call is modelled as the count it returns (`RightNamesCount`). Whether a later append moves the array is up to the array library, outside `src/`, so the stale-pointer hazard at line 296 has no property;
- the envelope's full field list;
- the character level of quoting. Header values are assumed to be quoted correctly by `imap_quote_value`.

Left open, and why:

- **The reducer on arbitrary argument trees.** The BODYSTRUCTURE strings it reduces are the writer's own output, cached, and the reducer is checked on exactly those. A reference grammar for arbitrary input would be a second implementation of RFC 3501, with no source lines to translate.
- **The GROUP and AUTHENTICATED id types in an ACL run.** `Applies` models them, but each id type adds two slots, and the ACL runs are at their time bound.
- **Trees that put a message/rfc822 part under multiparts.** The rfc822 path breaks `BodyFromBodyStructure`, because the reducer drops the parentheses (finding 1). It also breaks `BodyPrefixOfBodyStructure` on a second call (finding 5). So such trees only appear in the violation runs. A passing run would need a model of code the repository does not have.

Every component whose code is under `src/` is modelled, except the buffer positions of the driver above. The components still listed as not modelled are collaborators outside `src/`: the message parser, the RFC822 tokenizer, the IMAP argument parser, the envelope code and the ACL backend. Their visible behaviour enters the modules as `spec_modelled` operators.
