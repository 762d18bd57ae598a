\* Two threads of one server process.
SPECIFICATION FairSpec
CONSTANTS
  basic = basic
  pro = pro
  addon = addon
  f1 = f1
  a = a
  w1 = w1
  w2 = w2
  Features = {f1}
  Packages = {basic, pro}
  Addons = {addon}
  PackageFeatures <- MCPackageFeatures
  AddonFeatures <- MCAddonFeatures
  Processes = {a}
  Workers = {w1, w2}
  ProcessOf <- MCProcessOf
  Overrides = {"grant"}
  EditPackages <- MCEditPackages
  NoPackage = NoPackage
  NoWorker = NoWorker
  NoRequest = NoRequest
INVARIANTS
  BoughtIsEnabled
  NothingForFree
  CacheNeverAhead
PROPERTIES
  EntitlementArrives
