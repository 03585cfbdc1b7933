# TLA+ models of ueventd's device manager (`init/devices.cpp`)

This directory holds the model-checking project for `src/init/devices.cpp`,
the device manager of Android's `ueventd`. It contains TLA+ modules for the
parts of the file, MC modules and TLC configurations that instantiate them,
and `PROJECT.json`, the machine-readable index. The index lists the
components, the runs, the mutants, the map from every definition to the lines
it models, the findings and the hazards.

## 1. The system

`ueventd` listens on a netlink socket for kernel uevents. It keeps `/dev` in
step with the kernel's devices, loads kernel modules named by MODALIAS, and
answers firmware requests. The code is single threaded. Two processes can run
it: the main daemon, which handles all uevents except firmware ones, and an
optional firmware child (`handle_device_fd(true)`). The child receives the
same uevents but handles only firmware ones. The two processes share no
memory.

### Inventory

| Component | Code | State it keeps | Operations |
|---|---|---|---|
| Netlink receiver | `handle_device_fd` 1238-1267 | the socket (`device_fd`) | read until EAGAIN; drop messages of 2048 bytes or more; parse; swap the SELinux handle; dispatch |
| Uevent parser | `parse_event` 394-451 | none (pointers into the message) | KEY=VALUE records; the last occurrence of a key wins; unknown keys are ignored |
| Event dispatcher | `handle_device_event` 952-968 | none | on add: module loading; on add/change/online: sysfs fixup; then route by subsystem to the block, platform or generic handler |
| Platform registry | `add/remove/find_platform_device` 303-361 | `platform_names`, a list with duplicates allowed | append; remove the newest exact match; find the newest entry whose path is a directory prefix |
| Symlink deriver | `get_block_device_symlinks` 506-563, `find_pci_device_prefix` 366-392, `get_character_device_symlinks` 453-504 | none (reads the registry) | by-name, by-num and leaf links under `/dev/block/{platform,pci}/<dev>`; `/dev/usb/<subsystem><iface>` |
| Device node manager | `make_device` 261-301, `handle_device` 565-591 | the `/dev` tree | mknod with permissions, SELinux label and a setegid bracket; make or remove links; unlink |
| Permission rules and resolver | `add_dev_perms` 128-158, `get_device_perm` 219-259, `fixup_sys_perms` 160-201 | `dev_perms`, `sys_perms` | newest matching rule for a node; every matching rule for sysfs attributes |
| Generic device handler | `handle_generic_device_event` 677-776 | none | per-subsystem directory; USB bus/device numbering; 64 and 95 byte limits |
| Module alias engine | 778-950, 1092-1235 | `modules_aliases_map`, `modules_blacklist`, `deferred_module_loading_list` | read modules.alias, then modules.blacklist; load every matching, non-blacklisted alias; queue a modalias when the table is empty or the last match was deferred; drain the queue |
| Firmware loader | 970-1090 | per request: the loading and data fds | search `firmware_dirs`; stream the file; write "1" then "0" or "-1"; retry every 100 ms while `/dev/.booting` exists |
| Coldboot walker | `do_coldboot`, `coldboot`, `device_init` 1278-1348 | the `COLDBOOT_DONE` sentinel | depth-first walk writing `add` to each uevent file and draining the socket after each write; then drain the module queue and create the sentinel |
| modprobe helper | `modprobe_main` 861-909 | its own process | out of scope (spec section 1) |

### How the components interact

The socket feeds `handle_device_fd`, which calls the dispatcher. The
dispatcher calls the module engine, the sysfs fixup and one of the device
handlers. The device handlers read the platform registry to derive links.
Coldboot writes to sysfs, which makes the kernel queue uevents on the same
socket, and it drains them synchronously. Coldboot is the only place the
module queue is drained. The firmware child talks to the kernel through the
sysfs `loading` and `data` files.

### What is hard

- **Interleaving with the kernel.** Hotplug uevents interleave with the
  synthetic uevents of the coldboot walk. A device can be added twice (a real
  add, then the replay), which duplicates entries in `platform_names`.
- **Derived state recomputed late.** The links removed on `remove` are
  derived again from the registry as it is at that moment, not taken from
  what was created at `add`.
- **Partial failure.** `make_device` can give up after the SELinux lookup
  fails while `handle_device` still makes the links. `load_firmware` can give
  up before it writes anything to `loading`.
- **Ordering.** The newest-first scan of the registry and the "result of the
  last alias" rule of the module loader both depend on order.
- **Liveness.** The module queue is drained once. The firmware retry loop
  must end when boot completes.
- **Restart.** init restarts ueventd after a crash. `COLDBOOT_DONE` survives
  in `/dev` and everything in memory is lost.

### What makes each component correct

- Registry and links: a link is under the nearest platform parent, and
  every present device has its node and links.
- Module engine: a blacklisted module is never loaded, a deferred one is not
  loaded before coldboot ends, and no modalias is dropped or left queued
  forever.
- Firmware loader: each request gets exactly one well-formed answer, every
  request is eventually answered, and retries end.
- Permissions: the newest matching rule decides, and every matching sysfs
  rule is applied.
- Coldboot: every device that predates the socket is replayed, parents
  before children, at most once per sentinel lifetime.

## 2. Modules

| Module | Models | State (VARIABLES) | Actions |
|---|---|---|---|
| `ModuleLoading` | module alias engine, the coldboot drain, restart | `modulesAliasesMap`, `modulesBlacklist`, `deferredQueue` (the three lists); `inColdboot`, `coldbootDone` (sentinel); `booting` (`/dev/.booting`); `filesReadable`; history `insmodded`, `handled` | `HandleModuleLoading` (one `add` uevent: read the files if the table is empty, load, queue); `FinishColdboot` (`handle_deferred_module_loading` and the sentinel); `Restart`; environment `MountModuleFiles`, `BootComplete` |
| `BlockDevices` | platform registry, block symlinks, node manager for block devices, dispatcher routing, coldboot walk, in-order receiver | kernel: `present`, `socket`; ueventd: `platformNames`, `nodes`, `links`, `walkPos`, `inColdboot`, `draining` (inside the `handle_device_fd` that follows a coldboot write) | `HandleUevent` (one iteration of `handle_device_fd`, through `HandleDeviceEvent`, `HandlePlatformDeviceEvent`, `HandleBlockDeviceEvent`, `HandleDevice`, `MakeDevice`); `ColdbootStep` (one uevent file written, queued behind any pending hotplug uevents, and the drain begun); `ColdbootDone`; during coldboot `HandleUevent` runs only inside a drain, which ends when recv finds the socket empty; kernel `Plug`, `Unplug` |
| `BlockDevicesRestart` | restart of ueventd by init, on top of `BlockDevices` | `BlockDevices`' variables and `restarts` | `Restart` (new socket, empty registry; the walk runs again only without `COLDBOOT_DONE`) |
| `PermissionRules` | permission rule store and resolver, sysfs fixup, `make_device`'s mknod/chown | `config`, `configPos` (the rule lines and how many are read); `devPerms`, `sysPerms`; `node` (uid, gid, mode per device); `sysAttr`, `fixed` (sysfs attributes); `chown` (a node made but not yet chowned) | `AddDevPerms` (one rule line); `HandleDeviceEvent` (fixup, then `MakeDevice` on add, unlink on remove); `Chown` (the `chown` that ends `make_device`) |
| `PermissionSpec` | what the resolver promises: the newest matching rule decides | `rules`, `node` | `AddRule`, `AddNode`, `RemoveNode` |
| `GenericDevices` | uevent parser, generic character device handler, `get_character_device_symlinks`, `handle_device` for character devices | kernel: `present`, `plugs`, `kMinor`, `socket` (messages as KEY=VALUE records); ueventd: `nodes`, `links` | `HandleUevent` (through `ParseEvent`, `HandleGenericDeviceEvent`, `DevpathOf`, `HandleDevice`); kernel `Plug` (with a minor), `Unplug` |
| `FirmwareLoader` | firmware child | `socket`, `cur`, `stage` (idle, search or sleep), `seenBooting` (the local `booting`), `loading` (values written per request); environment `booting`, `available` | `ProcessFirmwareEvent` (take a uevent, sample `is_booting`, open the files); `TryLoading` (one pass over `firmware_dirs`: load, sleep or write "-1"); `WakeUp` (re-read `is_booting`); kernel `KernelRequest`; environment `Mount`, `BootComplete` |

Abstractions, each chosen so that the properties still tell apart what the
code tells apart:

- A devpath is a node of a fixed device tree (`Parent`). "Path p is a strict
  directory prefix of d" becomes "p is an ancestor of d".
- `fnmatch` on MODALIAS becomes membership of the modalias in the pattern's
  set.
- A PARTNAME is a model value taken as already sanitized.
- File contents are abstracted to whether the transfer succeeds. A line of
  modules.alias or modules.blacklist is its token count plus the tokens the
  parser keeps. The parser keeps `args_to_read` tokens, so a line with extra
  tokens is accepted. The alias parser ignores the first word. The blacklist
  parser matches the first word by prefix.
- `make_link_init` and `remove_link` live outside `src/`. They are modelled
  from spec sections 4.E and 9: an existing link is left as it is, and
  `remove` deletes each derived link.
- `insmod_by_dep` and the firmware copy have nondeterministic outcomes:
  success, or one of the failures the code distinguishes.

- Strings in the permission rules are model values. Prefix, glob and exact
  matching are relations over them (`PrefixOf`, `GlobMatches`); lengths are a
  table (`StrLen`), enough for the 512-byte buffer of `fixup_sys_perms`.
- `make_device` is two steps: the mknod with the rule's group and mode (the
  setegid bracket) and owner root, then the `chown` that sets the owner. The
  window between them is visible to other processes.
- In `GenericDevices` a /dev path is a pair of directory and leaf. The
  `/dev/bus/usb` leaf is the two `%03d` numbers as digit sequences, built by
  a recursive `Digits`.
- The kernel's message is a sequence of `<<key, value>>` records, with
  numbers as decimal digit sequences: the `action@devpath` header, ACTION,
  DEVPATH, SUBSYSTEM, then MAJOR, MINOR and DEVNAME only for a device with
  a number, then SEQNUM. `ParseEvent` folds `ParseRecord` over it from the
  defaults of `parse_event`, and `atoi` is `DecimalOf`. A USB interface
  (subsystem usb, no number) must be ignored through the -1 defaults.

`PermissionRules` refines `PermissionSpec`: `Abs == INSTANCE PermissionSpec
WITH rules <- devPerms, Matches <- PermPathMatches, node <- ...`. The mapping
shows a node still waiting for its `chown` as absent. `ImplementsPermissionSpec
== Abs!Spec` is checked as a PROPERTY, so the reverse scan of `dev_perms`
gives the newest matching rule.

Each MC module (`MCModuleLoading`, `MCBlockDevices`, `MCFirmwareLoader`,
`MCPermissionRules`, `MCGenericDevices`)
declares the model values and defines the constant tables: alias and
blacklist lines, the device tree, partition names and numbers, and firmware
names.

## 3. Runs

| Run | cfg | Expect | What it shows |
|---|---|---|---|
| module_loading | `ModuleLoading.cfg` | pass | `BlacklistedNeverInsmodded` (spec invariant 7) and `DeferredWaitsForColdboot` hold across coldboot, mounting at any time, the end of boot and one restart. |
| module_dropped | `ModuleLoadingDropped.cfg` | violation | `NoModaliasDropped` fails. A modalias matching a deferred module and then an ordinary one is not queued while booting, so the deferred module is never loaded (code bug at 815/932). |
| module_drain | `ModuleLoadingDrain.cfg` | violation | `QueuedEventuallyDrained` fails, even with fair mounting and boot completion. The queue is drained only at the end of coldboot, so a modalias queued before modules.alias was readable stays queued forever. |
| block_devices | `BlockDevices.cfg` | pass | When ueventd is idle, nodes are exactly the present block devices (`NodesMirrorKernel`) and each has its leaf link (`LinksOfPresentDevices`). Both hold whatever the interleaving of hotplug with the coldboot walk's replays. |
| block_nested | `BlockDevicesNested.cfg` | violation | `LinksUnderNearestPlatform` fails. A hotplugged nested platform device is registered first, and the coldboot replay then makes its outer parent the newest entry. |
| block_restart | `BlockDevicesRestart.cfg` | violation | `LinksOfPresentDevices` fails after one restart by init once coldboot is done. `device_init` skips coldboot because `COLDBOOT_DONE` exists, so a partition re-plugged after the walk's last drain, whose add was still queued on the dead socket, never gets its node or links, and `platform_names` starts empty (1336). |
| firmware | `FirmwareLoader.cfg` | pass | Each loading file sees one well-formed transfer (`LoadingWellFormed`). Every request is eventually finished, even when its file never appears (`EveryRequestFinished`). |
| permissions | `PermissionRules.cfg` | pass | The node of an added device refines the abstract spec: the owner, group and mode of the newest matching rule (`ImplementsPermissionSpec`). Every matching sysfs rule is applied (`SysPermsApplied`). Rules are read either from ueventd.rc alone or also from the hardware file. |
| permission_stale | `PermissionRulesStale.cfg` | violation | `ImplementsPermissionSpec` fails. A block device is re-added with a different by-name link while its node still exists. The node is chowned to the new rule, but mknod fails with EEXIST, so it keeps the old group and mode (code at 290). |
| permission_long | `PermissionRulesLong.cfg` | violation | `SysPermsApplied` fails. The `break` at 182 on a /sys path over 512 bytes skips the later rules, which would fit. |
| generic_devices | `GenericDevices.cfg` | pass | When ueventd is idle, the nodes are exactly those of the present character devices the handler does not drop (`NodesMirrorKernel`). A USB interface with no device number gets no node. Each `/dev/bus/usb/BBB/DDD` names the kernel's minor across the 127/128 and 255/256 boundaries (`UsbNodesNameKernelNumbers`). |
| generic_ports | `GenericDevicesPorts.cfg` | violation | `InterfaceLinkKept` fails. Two tty ports of one USB interface derive the same `/dev/usb/tty<iface>` link. Removing either port removes the link, and the other keeps no link (490). |

Every property of a passing run has a mutant in `PROJECT.json`. The mutant
changes one mapped definition the way a plausible bug would: a dropped NULL
check, a blacklist test that lets class 1 through, deferral never asked
for, a platform uevent routed to the device handler, a remove that keeps the
node, a post-order walk, an abort written with length 1, an abort written
after a load, a booting flag not re-read, the inverted `attr` test of
`add_dev_perms`, a `>=` for `>`, a forward scan of `dev_perms`, a missing
early return, parser defaults of 0, a USB device number not incremented. TLC finds each mutant's
property violated under the run's own cfg.

### Bounds

- ModuleLoading: 2 modaliases, 3 modules and 4 alias lines. One modalias
  matches a deferred module and then an ordinary one. The other matches the
  ordinary module and a blacklisted one, on a line with an extra token.
  There are 4 blacklist lines, one too short and one with another keyword.
  `MaxEvents = 3` lets an event happen before mounting, after mounting and
  after the restart. `MaxRestarts = 1`.
- BlockDevices: one platform device with a disk and a named partition, and
  one PCI controller with a disk, all present at start. A second partition
  can be hotplugged. `MaxHotplug = 3` is enough to unplug a whole platform
  subtree, or to plug and unplug during the walk. The nested run uses two
  platform devices and `MaxHotplug = 2`, the least needed to hit the race.
  The restart run uses the block_devices devices with `MaxRestarts = 1`;
  a restart may come during the walk (which then starts over) or after it.
- FirmwareLoader: two requests. The file of one is present from the start
  and the other may never appear.

- PermissionRules: four devices. A tty matches a glob rule, a block device
  matches an exact rule through its link, a USB device matches only the
  `/dev/` prefix, and one device has no SELinux label. The stale run lets
  the block device carry either of two links. The block devpath fills the
  512-byte buffer exactly (400 + 106 + 6), checking the off-by-one of `>`.
- GenericDevices: devices in the input, misc `log_`, usb (minors 0, 127,
  128, 255, 256), usbmisc with DEVNAME, override and ignored usb_device
  subsystems, a name over 64 bytes, and the USB interface of the tty port
  with no device number. `MaxHotplug = 3` lets a device be added, removed
  and added again with another minor.

All runs finish within a minute (generic_devices, the largest, takes a few seconds). `CHECK_DEADLOCK FALSE` is set because ueventd
really does block in `poll()` once the kernel has nothing more to send.

### Fairness

- Weak fairness applies to ueventd's own steps (handling a queued uevent,
  the next walk step, the end of coldboot, the firmware child's steps). The
  code runs them whenever they are enabled, in a single thread, with no
  other work in between. Only the firmware and module runs check liveness;
  in the device models the fairness is stated but no property relies on it.
- The environment is fair only where init guarantees it: init removes
  `/dev/.booting`, and in `ModuleLoading` it mounts the partitions.
- In `ModuleLoading`, `/dev/.booting` goes away only after `COLDBOOT_DONE`
  exists, because init waits for coldboot before it goes on booting.
- Firmware files are never assumed to appear.

## 4. Not modelled, and why

- `sanitize` of PARTNAME: partition names are model values, already
  sanitized. It is a pure character filter, and no property tells its
  outputs apart.
- The 2048-byte discard of `handle_device_fd`: no device of the models sends
  a message near that size.
- Socket overflow (ENOBUFS), which loses uevents: the code has no recovery
  for it. A lost uevent trivially falsifies every property that /dev mirrors
  the kernel, and the 8 MiB buffer with the drain after each coldboot write
  makes it unlikely.
- The kernel's firmware timeout: the code does not react to it. After a
  timeout the child's opens or writes fail and it finishes the request the
  same way, which `EveryRequestFinished` already covers. Whether a queued
  request times out behind one that waits for `/dev/.booting` depends on
  real time, which the model does not have.
- The failed SELinux label lookup (`LabelMissing`) stays in `BlockDevices`
  and `PermissionRules`; `GenericDevices` always makes the node. Its former violation run (links without the node)
  was replaced by block_restart. A policy without a catch-all /dev label
  is the least reachable of those faults.
- The `fstat` failure path of `load_firmware` is modelled in
  `FirmwareLoader`. `LoadingWellFormed` allows its empty answer, and no run
  checks that a request is answered.
- The PCI prefix collision (366-392): two disks on one controller with
  partitions of the same number share `by-num/p<N>`. The first link is
  kept, and removing that partition leaves the other with no link. This is
  the same pattern the generic_ports run shows for /dev/usb links.
- Links left dangling when a nested platform device is replayed between a
  block device's add and remove (644): TLC finds it in the block_nested
  topology with `MaxHotplug = 3`, but it has the same cause as the
  block_nested finding (the replay reorders `platform_names`), and no run
  is spent on it. A property of `BlockDevices` that no link dangles would
  hold in the block_devices topology only because its registry cannot
  change between an add and a remove there.
- The window between mknod and chown (296) is a separate `Chown` step of
  `PermissionRules`, but no property looks into it: the refinement shows a
  node awaiting its chown as absent.
- Re-reading modules.alias on every add while it yields no alias (925):
  this costs time only and changes no state a property reads.
- The permission model does not compose with `BlockDevices`. It keeps one
  node per device and no link state. Links are what `BlockDevices` checks.
- Directory creation (`make_dir`, `mkdir_recursive`), restorecon and the
  SELinux handle swap: external collaborators, with no state a property
  reads.
- modprobe: out of scope.

## 5. History

- Sitting 1: `ModuleLoading`, `BlockDevices`, `FirmwareLoader`.
- Sitting 2: `PermissionRules`, with the refinement to `PermissionSpec`, and
  `GenericDevices`.
- Sitting 3: `parse_event` and the kernel's message format inside
  `GenericDevices`, and its refinement to `DevNodesSpec`.
- Sitting 4: `BlockDevicesRestart` and the block_restart run.
- Sitting 5 (review): the coldboot write no longer waits for an empty
  socket; the drain after it is the `draining` flag. Properties that held by
  construction or whose mutant was no code bug were removed
  (`NoDanglingLink` in both device models, `NodeGroupFromCreation`,
  `EveryDeviceGetsNode`, the refinement to `DevNodesSpec`); the type
  invariants of `FirmwareLoader` and `PermissionRules` got mutants that are
  code bugs.

Every part of `devices.cpp` that changes state is now modelled. The
exceptions above are outside the program (the kernel, SELinux, the file
system) or change no state a property could read.
